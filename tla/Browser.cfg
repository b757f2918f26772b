SPECIFICATION WatchedSpec
CONSTANTS
  None = None  Clearing = Clearing
  t1 = t1  t2 = t2  t3 = t3  s1 = s1  s2 = s2  c1 = c1  c2 = c2
  Player <- Tokens2
  Peer <- Peers1
  Socket <- Sockets2
  Code <- Codes2
  MaxRooms = 3
  MaxEvents = 3
INVARIANTS BrowserTypeOK OneLine RegistrySound CodesOpenRooms SettledScreen Recovered
PROPERTIES CodesLast RoomsLive Settles
CHECK_DEADLOCK FALSE
