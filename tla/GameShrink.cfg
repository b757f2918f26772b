SPECIFICATION Spec
CONSTANTS
  ALPHA = ALPHA  BETA = BETA  None = None  Free = Free
  c1 = c1  c2 = c2  c3 = c3  c4 = c4
  City <- RowCities
  Edges <- RowEdges
  X <- RowX
  Y <- RowX
  Cost <- SmallCost
  IntelGaps = {99}
  ActionGaps = {99}
  MaxTurn = 16
  Commands = {"MOVE", "WAIT", "END_TURN"}
INVARIANTS MapStaysConnected SafeMeansUncut AlwaysWarned
PROPERTIES DisappearsAsAnnounced
VIEW ShrinkView
SYMMETRY RowSymmetry
