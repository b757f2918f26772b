SPECIFICATION InvitedSpec
CONSTANTS
  None = None  Clearing = Clearing
  t1 = t1  t2 = t2  t3 = t3  s1 = s1  s2 = s2  c1 = c1  c2 = c2
  Player <- Tokens3
  Peer <- Peers2
  Socket <- Sockets2
  Code <- Codes2
  MaxRooms = 2
  MaxEvents = 3
INVARIANTS BackInTheGame
CHECK_DEADLOCK FALSE
