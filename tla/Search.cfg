SPECIFICATION SearchSpec
CONSTANTS
  None = None
  c1 = c1  c2 = c2  c3 = c3  c4 = c4  c5 = c5
  City <- Cities
  Roads <- AllRoads
  X <- DiagonalX
  Y <- DiagonalX
INVARIANTS RightAnswer AnswersAsModelled SomethingToLose
PROPERTIES SearchAdvances SearchEnds
CHECK_DEADLOCK FALSE
