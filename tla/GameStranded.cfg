SPECIFICATION Spec
CONSTANTS
  ALPHA = ALPHA  BETA = BETA  None = None  Free = Free
  c1 = c1  c2 = c2  c3 = c3  c4 = c4
  City <- ShortCities
  Edges <- ShortEdges
  X <- ShortX
  Y <- ShortX
  Cost <- SmallCost
  IntelGaps = {99}
  ActionGaps = {99}
  MaxTurn = 14
  Commands = {"WAIT", "END_TURN"}
INVARIANTS StrandedLoses
SYMMETRY ShortSymmetry
