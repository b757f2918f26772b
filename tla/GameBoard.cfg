SPECIFICATION BoardSpec
CONSTANTS
  ALPHA = ALPHA  BETA = BETA  None = None  Free = Free
  c1 = c1  c2 = c2  c3 = c3
  City <- RowCities
  Edges <- RowEdges
  X <- RowX
  Y <- RowX
  Cost <- SmallCost
  Price <- SmallCost
  Me = ALPHA
  IntelGaps = {99}
  ActionGaps = {99}
  TURN_DURATION = 1
  STARTUP_GRACE = 0
  DISCONNECT_TIMEOUT = 1
  MAX_CONSECUTIVE_TIMEOUTS = 1
  MaxTurn = 3
  MaxInFlight = 1
  MaxUnheard = 1
  Commands = {"MOVE", "CONTROL", "END_TURN", "ENCRYPTION"}
INVARIANTS BoardTypeOK ShowsTheGame LegalIsOffered RefusalsExplained SelectionShown
SYMMETRY Reversal
