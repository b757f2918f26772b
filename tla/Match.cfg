SPECIFICATION MatchSpec
CONSTANTS
  ALPHA = ALPHA  BETA = BETA  None = None  Free = Free
  c1 = c1  c2 = c2  c3 = c3
  City <- RowCities
  Edges <- RowEdges
  X <- RowX
  Y <- RowX
  Cost <- SmallCost
  IntelGaps = {99}
  ActionGaps = {99}
  TURN_DURATION = 1
  STARTUP_GRACE = 1
  DISCONNECT_TIMEOUT = 1
  MAX_CONSECUTIVE_TIMEOUTS = 2
  MaxTurn = 3
  Commands = {"MOVE", "STRIKE", "WAIT", "CONTROL", "END_TURN", "CONCEDE", "ENCRYPTION"}
INVARIANTS MatchTypeOK OneVerdict OnTurnCanAct UpToDate MissedTurnsWereTheirs
PROPERTIES EndIsFinal
SYMMETRY Reversal
