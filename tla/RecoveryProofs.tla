--------------------------- MODULE RecoveryProofs ---------------------------
(***************************************************************************)
(* Proofs about Browser, continued: the life of the rooms, and the way     *)
(* back to the board.                                                      *)
(*                                                                         *)
(* Whoever calls which method of the manager, Steps says what becomes of   *)
(* its rooms and links; from it follow that links lead to rooms one is a   *)
(* player of (Linked) and that the manager implements RoomLife.  LastsFrom *)
(* says of each method which rooms stay open by their codes.               *)
(*                                                                         *)
(* Safe says that a page is on its way to the board of room r: nothing it  *)
(* has set or asked for leads elsewhere (Steady), what it has sent does no *)
(* harm (Harmless), and a page on a link that the server still serves will *)
(* be on the board when it has taken what is under way to it (Fine).  As   *)
(* long as the match runs, every step of a player that clicks nothing but  *)
(* the reload button keeps Safe, and at rest it implies Recovered.         *)
(***************************************************************************)
EXTENDS BrowserProofs

\* A player is linked to rooms only that are there and that it is a player of.
Linked(m) ==
  \A p \in Player : m.links[p] # None =>
    Exists(m, m.links[p]) /\ p \in Members(m.rooms[m.links[p]])

-----------------------------------------------------------------------------
(* What becomes of the rooms and the links in one call.                    *)

\* A room goes on, or its match ends.
GoesOn(x, y) ==
  \/ x = None /\ y = None
  \/ /\ x # None /\ y # None
     /\ y.alpha = x.alpha /\ y.beta = x.beta
     /\ y.life = x.life \/ (x.life = "running" /\ y.life = "over")

\* Players are unlinked.
Unlinks(m, n) == \A q \in Player : n.links[q] \in {None, m.links[q]}

Touches(m, n) ==
  /\ n.issued = m.issued
  /\ \A k \in RoomId : GoesOn(m.rooms[k], n.rooms[k])
  /\ Unlinks(m, n)

\* Room r is forgotten.
Closes(m, n, r) ==
  /\ r \in RoomId /\ m.rooms[r] # None /\ m.rooms[r].life \in {"waiting", "over"}
  /\ n.issued = m.issued
  /\ \A k \in RoomId : n.rooms[k] = IF k = r THEN None ELSE m.rooms[k]
  /\ Unlinks(m, n) /\ \A q \in Player : n.links[q] # r

\* Player p comes into room r, whose match starts.
LetsIn(m, n, r, p) ==
  /\ r \in RoomId /\ p \in Player /\ m.rooms[r] # None /\ m.rooms[r].life = "waiting"
  /\ m.rooms[r].beta = None
  /\ n.issued = m.issued
  /\ \A k \in RoomId \ {r} : n.rooms[k] = m.rooms[k]
  /\ n.rooms[r] # None /\ n.rooms[r].alpha = m.rooms[r].alpha
  /\ n.rooms[r].beta = p /\ n.rooms[r].life = "running"
  /\ \A q \in Player : IF q = p THEN n.links[q] = r ELSE n.links[q] \in {None, m.links[q]}

\* Player p founds a room.
Founds(m, n, p) ==
  /\ p \in Player /\ m.issued + 1 \in RoomId
  /\ n.issued = m.issued + 1
  /\ \A k \in RoomId \ {m.issued + 1} : n.rooms[k] = m.rooms[k]
  /\ LET x == n.rooms[m.issued + 1]
     IN  x # None /\ x.alpha = p /\ x.beta = None /\ x.life = "waiting"
  /\ \A q \in Player : n.links[q] = IF q = p THEN m.issued + 1 ELSE m.links[q]

Steps(m, n) ==
  \/ Touches(m, n)
  \/ \E r \in RoomId : Closes(m, n, r)
  \/ \E r \in RoomId, p \in Player : LetsIn(m, n, r, p)
  \/ \E p \in Player : Founds(m, n, p)

LEMMA LinkIsARoom ==
  ASSUME NEW m \in Manager, Linked(m), NEW p \in Player, m.links[p] # None
  PROVE  /\ m.links[p] \in RoomId /\ m.rooms[m.links[p]] \in Room
         /\ p \in {m.rooms[m.links[p]].alpha, m.rooms[m.links[p]].beta}
  BY DEF Manager, Linked, Exists, Members

LEMMA StepsLinked ==
  ASSUME NEW m, NEW n, Orderly(m), Linked(m), n \in Manager, Steps(m, n)
  PROVE  Linked(n)
  <1> SUFFICES ASSUME NEW q \in Player, n.links[q] # None
               PROVE  Exists(n, n.links[q]) /\ q \in Members(n.rooms[n.links[q]])
    BY DEF Linked
  <1>1. n.links[q] \in RoomId /\ q # None
    BY NobodyIsNoPlayer DEF Manager
  <1>2. n.links[q] = m.links[q] => m.links[q] \in RoomId /\ m.rooms[m.links[q]] # None
                                    /\ q \in Members(m.rooms[m.links[q]])
    BY DEF Linked, Exists
  <1>3. CASE Touches(m, n)
    BY <1>1, <1>2, <1>3 DEF Touches, Unlinks, GoesOn, Exists, Members
  <1>4. ASSUME NEW r \in RoomId, Closes(m, n, r) PROVE Exists(n, n.links[q]) /\ q \in Members(n.rooms[n.links[q]])
    BY <1>1, <1>2, <1>4 DEF Closes, Unlinks, Exists
  <1>5. ASSUME NEW r \in RoomId, NEW p \in Player, LetsIn(m, n, r, p)
        PROVE  Exists(n, n.links[q]) /\ q \in Members(n.rooms[n.links[q]])
    <2>1. m.rooms[r] \in Room
      BY <1>5 DEF LetsIn, Orderly, Manager
    <2>2. CASE q = p
      BY <1>1, <1>5, <2>2 DEF LetsIn, Exists, Members
    <2>3. CASE q # p /\ m.links[q] = r
      BY <1>1, <1>2, <1>5, <2>3 DEF LetsIn, Exists, Members
    <2>4. CASE q # p /\ m.links[q] # r
      BY <1>1, <1>2, <1>5, <2>4 DEF LetsIn, Exists
    <2> QED BY <2>2, <2>3, <2>4
  <1>6. ASSUME NEW p \in Player, Founds(m, n, p) PROVE Exists(n, n.links[q]) /\ q \in Members(n.rooms[n.links[q]])
    BY <1>1, <1>2, <1>6 DEF Founds, Orderly, Unissued, Manager, Exists, Members
  <1> QED BY <1>3, <1>4, <1>5, <1>6 DEF Steps

\* Each room makes a step of RoomLife.
Lives(m, n) == \A r \in RoomId : Lobby!Moves(Seen(m, r), Seen(n, r))

LEMMA SeenFields ==
  ASSUME NEW m, NEW r
  PROVE  /\ Seen(m, r).life = IF r > m.issued THEN "none"
                              ELSE IF m.rooms[r] = None THEN "gone" ELSE m.rooms[r].life
         /\ Seen(m, r).host = IF m.rooms[r] = None THEN None ELSE m.rooms[r].alpha
         /\ Seen(m, r).guest = IF m.rooms[r] = None THEN None ELSE m.rooms[r].beta
         /\ Seen(m, r).inside = {p \in Player : m.links[p] = r}
  BY DEF Seen

LEMMA StepsLive ==
  ASSUME NEW m, NEW n, Orderly(m), Linked(m), Orderly(n), Steps(m, n)
  PROVE  Lives(m, n)
  <1> SUFFICES ASSUME NEW r \in RoomId PROVE Lobby!Moves(Seen(m, r), Seen(n, r))
    BY DEF Lives
  <1> DEFINE x == Seen(m, r)
             y == Seen(n, r)
  <1>1. /\ m.issued \in Nat /\ n.issued \in Nat /\ r \in Nat /\ r # None
        /\ r > m.issued => m.rooms[r] = None
        /\ r > n.issued => n.rooms[r] = None
    BY RoomAssumption DEF Orderly, Unissued, Manager, RoomId
  <1>2. Unlinks(m, n) => y.inside \subseteq x.inside
    BY <1>1, SeenFields DEF Unlinks
  <1>3. CASE Touches(m, n)
    <2>1. GoesOn(m.rooms[r], n.rooms[r]) /\ n.issued = m.issued /\ y.inside \subseteq x.inside
      BY <1>2, <1>3 DEF Touches
    <2>2. Lobby!Stays(x, y) \/ Lobby!Ends(x, y)
      BY <1>1, <2>1, SeenFields DEF GoesOn, Lobby!Stays, Lobby!Ends, Lobby!SamePlayers
    <2> QED BY <2>2 DEF Lobby!Moves
  <1>4. ASSUME NEW k \in RoomId, Closes(m, n, k) PROVE Lobby!Moves(x, y)
    <2>1. CASE k = r
      <3>1. y.inside = {}
        BY <1>4, <2>1, SeenFields DEF Closes
      <3>2. Lobby!Vanishes(x, y)
        BY <1>1, <1>4, <2>1, <3>1, SeenFields DEF Closes, Lobby!Vanishes
      <3> QED BY <3>2 DEF Lobby!Moves
    <2>2. CASE k # r
      <3>1. n.rooms[r] = m.rooms[r] /\ n.issued = m.issued /\ y.inside \subseteq x.inside
        BY <1>2, <1>4, <2>2 DEF Closes
      <3>2. Lobby!Stays(x, y)
        BY <3>1, SeenFields DEF Lobby!Stays, Lobby!SamePlayers
      <3> QED BY <3>2 DEF Lobby!Moves
    <2> QED BY <2>1, <2>2
  <1>5. ASSUME NEW k \in RoomId, NEW p \in Player, LetsIn(m, n, k, p) PROVE Lobby!Moves(x, y)
    <2>1. CASE k = r
      <3>1. p \in y.inside /\ y.inside \subseteq x.inside \cup {p}
        BY <1>1, <1>5, <2>1, SeenFields DEF LetsIn
      <3>2. Lobby!Starts(x, y)
        BY <1>1, <1>5, <2>1, <3>1, SeenFields DEF LetsIn, Lobby!Starts
      <3> QED BY <3>2 DEF Lobby!Moves
    <2>2. CASE k # r
      <3>1. n.rooms[r] = m.rooms[r] /\ n.issued = m.issued /\ y.inside \subseteq x.inside
        BY <1>1, <1>5, <2>2, SeenFields DEF LetsIn
      <3>2. Lobby!Stays(x, y)
        BY <3>1, SeenFields DEF Lobby!Stays, Lobby!SamePlayers
      <3> QED BY <3>2 DEF Lobby!Moves
    <2> QED BY <2>1, <2>2
  <1>6. ASSUME NEW p \in Player, Founds(m, n, p) PROVE Lobby!Moves(x, y)
    <2>1. CASE r = m.issued + 1
      <3>1. \A q \in Player : m.links[q] # r
        BY <1>1, <2>1, LinkIsARoom, RoomIsNotNone DEF Orderly
      <3>2. y.inside = {p}
        BY <1>6, <2>1, <3>1, SeenFields DEF Founds
      <3>3. Lobby!Opens(x, y)
        BY <1>1, <1>6, <2>1, <3>2, SeenFields DEF Founds, Lobby!Opens
      <3> QED BY <3>3 DEF Lobby!Moves
    <2>2. CASE r # m.issued + 1
      <3>1. n.rooms[r] = m.rooms[r] /\ y.inside \subseteq x.inside
        BY <1>6, <2>2, SeenFields DEF Founds
      <3>2. n.issued = m.issued + 1
        BY <1>6 DEF Founds
      <3>3. (r > m.issued) <=> (r > n.issued)
        BY <1>1, <2>2, <3>2
      <3>4. Lobby!Stays(x, y)
        BY <3>1, <3>3, SeenFields DEF Lobby!Stays, Lobby!SamePlayers
      <3> QED BY <3>4 DEF Lobby!Moves
    <2> QED BY <2>1, <2>2
  <1> QED BY <1>3, <1>4, <1>5, <1>6 DEF Steps

-----------------------------------------------------------------------------
(* The methods.                                                            *)

LEMMA NothingTouched ==
  ASSUME NEW m \in Manager
  PROVE  Touches(m, m)
  BY DEF Manager, Touches, GoesOn, Unlinks

LEMMA RoomTouched ==
  ASSUME NEW m \in Manager, NEW r \in RoomId, NEW x, GoesOn(m.rooms[r], x)
  PROVE  Touches(m, [m EXCEPT !.rooms[r] = x])
  <1> DEFINE n == [m EXCEPT !.rooms[r] = x]
  <1>1. /\ n.rooms = [m.rooms EXCEPT ![r] = x] /\ n.links = m.links /\ n.issued = m.issued
        /\ m.rooms \in [RoomId -> Room \cup {None}]
    BY DEF Manager
  <1> HIDE DEF n
  <1> QED BY <1>1 DEF Touches, GoesOn, Unlinks

LEMMA UnlinkTouches ==
  ASSUME NEW m \in Manager, NEW P
  PROVE  /\ Touches(m, Unlink(m, P))
         /\ Unlink(m, P).rooms = m.rooms
         /\ Unlink(m, P).links = [q \in Player |-> IF q \in P THEN None ELSE m.links[q]]
         /\ Unlink(m, P).codes = m.codes
         /\ Unlink(m, P).issued = m.issued
  <1> DEFINE n == Unlink(m, P)
  <1>1. /\ n.rooms = m.rooms /\ n.issued = m.issued /\ n.codes = m.codes
        /\ n.links = [q \in Player |-> IF q \in P THEN None ELSE m.links[q]]
    BY DEF Manager, Unlink
  <1> HIDE DEF n
  <1> QED BY <1>1 DEF Touches, GoesOn, Unlinks, n

LEMMA FinishTouches ==
  ASSUME NEW m, Orderly(m), NEW r \in RoomId, m.rooms[r] # None, m.rooms[r].life = "running"
  PROVE  Touches(m, Finish(m, r).mgr)
  <1> DEFINE x == [m.rooms[r] EXCEPT !.life = "over"]
  <1>1. GoesOn(m.rooms[r], x)
    <2>1. m.rooms[r] \in Room
      BY DEF Orderly, Manager
    <2>2. x \in Room /\ x.alpha = m.rooms[r].alpha /\ x.beta = m.rooms[r].beta /\ x.life = "over"
      BY <2>1 DEF Room
    <2> HIDE DEF x
    <2> QED BY <2>1, <2>2, RoomIsNotNone DEF GoesOn
  <1>2. Finish(m, r).mgr = [m EXCEPT !.rooms[r] = x]
    BY DEF Finish, Done
  <1> HIDE DEF x
  <1> QED BY <1>1, <1>2, RoomTouched DEF Orderly

LEMMA DisconnectTouches ==
  ASSUME NEW m, Orderly(m), NEW r \in RoomId, m.rooms[r] # None, NEW p \in Player
  PROVE  Touches(m, Disconnect(m, r, p).mgr)
  <1> DEFINE x == [m.rooms[r] EXCEPT !.away = m.rooms[r].away \cup {p}]
  <1>1. GoesOn(m.rooms[r], x)
    <2>1. m.rooms[r] \in Room
      BY DEF Orderly, Manager
    <2>2. x \in Room /\ x.alpha = m.rooms[r].alpha /\ x.beta = m.rooms[r].beta
          /\ x.life = m.rooms[r].life
      BY <2>1 DEF Room
    <2> HIDE DEF x
    <2> QED BY <2>1, <2>2, RoomIsNotNone DEF GoesOn
  <1>2. Disconnect(m, r, p).mgr = [m EXCEPT !.rooms[r] = x]
    BY DEF Disconnect, Silently, Done, Orderly, Manager
  <1> HIDE DEF x
  <1> QED BY <1>1, <1>2, RoomTouched DEF Orderly

LEMMA ReconnectTouches ==
  ASSUME NEW m, Orderly(m), NEW r \in RoomId, m.rooms[r] # None, NEW p
  PROVE  Touches(m, Reconnect(m, r, p).mgr)
  <1> DEFINE x == [m.rooms[r] EXCEPT !.away = m.rooms[r].away \ {p}]
  <1>1. GoesOn(m.rooms[r], x)
    <2>1. m.rooms[r] \in Room
      BY DEF Orderly, Manager
    <2>2. x \in Room /\ x.alpha = m.rooms[r].alpha /\ x.beta = m.rooms[r].beta
          /\ x.life = m.rooms[r].life
      BY <2>1 DEF Room
    <2> HIDE DEF x
    <2> QED BY <2>1, <2>2, RoomIsNotNone DEF GoesOn
  <1>2. Reconnect(m, r, p).mgr = [m EXCEPT !.rooms[r] = x]
    BY DEF Reconnect, Done, Orderly, Manager
  <1> HIDE DEF x
  <1> QED BY <1>1, <1>2, RoomTouched DEF Orderly

LEMMA NewRoomFounds ==
  ASSUME NEW m, Orderly(m), NEW p \in Player, NEW c \in Code, m.issued < MaxRooms
  PROVE  Founds(m, NewRoom(m, p, c).mgr, p)
  <1> DEFINE r == m.issued + 1
             x == [code |-> c, alpha |-> p, beta |-> None, life |-> "waiting", away |-> {}]
             n == NewRoom(m, p, c).mgr
  <1>1. r \in RoomId
    BY RoomAssumption DEF Orderly, Manager, RoomId
  <1>2. x \in Room /\ x # None /\ x.alpha = p /\ x.beta = None /\ x.life = "waiting"
    BY RoomIsNotNone DEF Room
  <1>3. n = [m EXCEPT !.issued = r, !.rooms[r] = x, !.codes[c] = r, !.links[p] = r]
    BY DEF NewRoom, Done
  <1>4. n = [issued |-> r, rooms |-> [m.rooms EXCEPT ![r] = x],
             codes |-> [m.codes EXCEPT ![c] = r], links |-> [m.links EXCEPT ![p] = r]]
    BY <1>3 DEF Orderly, Manager
  <1> HIDE DEF x, n
  <1>5. /\ n.issued = r /\ n.rooms = [m.rooms EXCEPT ![r] = x]
        /\ n.links = [m.links EXCEPT ![p] = r]
    BY <1>4
  <1>6. m.rooms \in [RoomId -> Room \cup {None}] /\ m.links \in [Player -> RoomId \cup {None}]
    BY DEF Orderly, Manager
  <1> QED BY <1>1, <1>2, <1>5, <1>6 DEF Founds, n

\* Whether or not the player had to leave another room first.
LEMMA EnterLetsIn ==
  ASSUME NEW m, Orderly(m), NEW p \in Player, NEW c \in Code, NEW r \in RoomId,
         m.codes[c] = r, m.rooms[r].beta = None,
         NEW f \in Manager, f.rooms = m.rooms, f.issued = m.issued, Unlinks(m, f)
  PROVE  LetsIn(m, Enter(f, r, p, c).mgr, r, p)
  <1> DEFINE x == [m.rooms[r] EXCEPT !.beta = p, !.life = "running"]
             n == Enter(f, r, p, c).mgr
  <1>1. m.rooms[r] \in Room /\ m.rooms[r].life = "waiting" /\ m.rooms[r] # None
    BY OwnCode, RoomIsNotNone
  <1>2. x \in Room /\ x # None /\ x.alpha = m.rooms[r].alpha /\ x.beta = p /\ x.life = "running"
    BY <1>1, RoomIsNotNone DEF Room
  <1>3. n = [f EXCEPT !.rooms[r] = x, !.codes[c] = None, !.links[p] = r]
    BY DEF Enter, Done
  <1>4. /\ n.issued = f.issued /\ n.rooms = [f.rooms EXCEPT ![r] = x]
        /\ n.links = [f.links EXCEPT ![p] = r]
    <2>1. n = [issued |-> f.issued, rooms |-> [f.rooms EXCEPT ![r] = x],
               codes |-> [f.codes EXCEPT ![c] = None], links |-> [f.links EXCEPT ![p] = r]]
      BY <1>3 DEF Manager
    <2> HIDE DEF n, x
    <2> QED BY <2>1
  <1> HIDE DEF n, x
  <1>5. m.rooms \in [RoomId -> Room \cup {None}] /\ f.links \in [Player -> RoomId \cup {None}]
    BY DEF Orderly, Manager
  <1>6. \A q \in Player : IF q = p THEN n.links[q] = r ELSE n.links[q] \in {None, m.links[q]}
    BY <1>4, <1>5 DEF Unlinks
  <1>7. LetsIn(m, n, r, p)
    BY <1>1, <1>2, <1>4, <1>5, <1>6 DEF LetsIn
  <1> QED BY <1>7 DEF n

LEMMA CreateMatchSteps ==
  ASSUME NEW m, Orderly(m), NEW p \in Player, NEW d \in CreateMatch(m, p)
  PROVE  Steps(m, d.mgr)
  <1>1. CASE d.mgr = m
    BY <1>1, NothingTouched DEF Orderly, Steps
  <1>2. ASSUME NEW c \in Code, m.issued < MaxRooms, d = NewRoom(m, p, c)
        PROVE  Steps(m, d.mgr)
    BY <1>2, NewRoomFounds DEF Steps
  <1> QED BY <1>1, <1>2 DEF CreateMatch, Done

LEMMA JoinMatchSteps ==
  ASSUME NEW m, Orderly(m), NEW p \in Player, NEW c \in Code
  PROVE  Steps(m, JoinMatch(m, p, c).mgr)
  <1> DEFINE r == m.codes[c]
             n == JoinMatch(m, p, c).mgr
  <1>1. m \in Manager
    BY DEF Orderly
  <1>2. CASE n = m
    BY <1>1, <1>2, NothingTouched DEF Steps
  <1>3. CASE Exists(m, r) /\ n = Reconnect(m, r, p).mgr
    BY <1>3, ReconnectTouches DEF Exists, Steps
  <1>4. CASE Exists(m, r) /\ m.rooms[r].beta = None /\ n = Enter(Unlink(m, {p}), r, p, c).mgr
    <2>1. /\ Unlink(m, {p}) \in Manager /\ Unlink(m, {p}).rooms = m.rooms
          /\ Unlink(m, {p}).issued = m.issued /\ Unlinks(m, Unlink(m, {p}))
      BY <1>1, UnlinkTouches, UnlinkOrderly DEF Orderly, Touches
    <2>2. LetsIn(m, Enter(Unlink(m, {p}), r, p, c).mgr, r, p)
      BY <1>4, <2>1, EnterLetsIn DEF Exists
    <2> QED BY <1>4, <2>2 DEF Exists, Steps
  <1>5. CASE n = Unlink(m, {p})
    <2>1. Touches(m, Unlink(m, {p}))
      BY <1>1, UnlinkTouches
    <2> QED BY <1>5, <2>1 DEF Steps
  <1> QED BY <1>2, <1>3, <1>4, <1>5 DEF JoinMatch, Silently, Done

LEMMA RemovePlayerTouches ==
  ASSUME NEW m, Orderly(m), NEW p \in Player
  PROVE  Touches(m, RemovePlayer(m, p).mgr)
  BY DisconnectTouches, NothingTouched DEF RemovePlayer, Exists, Silently, Done, Orderly

LEMMA LeaveMatchTouches ==
  ASSUME NEW m, Orderly(m), NEW p \in Player
  PROVE  Touches(m, LeaveMatch(m, p).mgr)
  BY DisconnectTouches, UnlinkTouches DEF LeaveMatch, Exists, Silently, Done, Orderly

\* Everybody linked to a room is a player of it, so abort_match unlinks them all.
LEMMA AbortMatchSteps ==
  ASSUME NEW m, Orderly(m), Linked(m), NEW p \in Player
  PROVE  /\ Steps(m, AbortMatch(m, p).mgr)
         /\ AbortMatch(m, p).mgr.links[p] = None
  <1> DEFINE r == m.links[p]
             room == m.rooms[r]
             ended == IF room.life = "over" THEN Silently(m) ELSE Finish(m, r)
             e == ended.mgr
             left == Unlink(e, Members(room))
             n == AbortMatch(m, p).mgr
  <1>1. CASE r = None
    BY <1>1, NothingTouched DEF AbortMatch, Silently, Done, Steps, Orderly
  <1>2. CASE r # None
    <2>1. r \in RoomId /\ room \in Room /\ room # None /\ p \in Members(room)
      BY <1>2 DEF Linked, Exists, Orderly, Manager
    <2>2. n = [left EXCEPT !.codes[room.code] = None,
                           !.rooms[r] = IF room.life = "waiting" THEN None ELSE @]
      BY <1>2, <2>1 DEF AbortMatch, Done, Exists
    <2>3. room.code \in Code /\ room.life \in {"waiting", "running", "over"}
      BY <2>1 DEF Room
    <2>4. /\ e \in Manager /\ e.links = m.links /\ e.issued = m.issued
          /\ \A k \in RoomId \ {r} : e.rooms[k] = m.rooms[k]
          /\ room.life # "waiting" => Touches(m, e)
      <3>1. CASE room.life = "over"
        BY <3>1, NothingTouched DEF Silently, Done, Orderly
      <3>2. CASE room.life # "over"
        <4> DEFINE x == [room EXCEPT !.life = "over"]
        <4>1. e = [m EXCEPT !.rooms[r] = x]
          BY <3>2 DEF Finish, Done
        <4>2. x \in Room
          BY <2>1 DEF Room
        <4>3. room.life # "waiting" => Touches(m, e)
          BY <2>1, <2>3, <3>2, FinishTouches
        <4> HIDE DEF x, e, r
        <4> QED BY <2>1, <4>1, <4>2, <4>3 DEF Orderly, Manager
      <3> QED BY <3>1, <3>2
    <2> HIDE DEF e, ended
    <2>5. /\ left.rooms = e.rooms /\ left.issued = e.issued /\ left \in Manager
          /\ left.links = [q \in Player |-> IF q \in Members(room) THEN None ELSE m.links[q]]
      <3>1. left \in Manager
        BY <2>4 DEF Unlink, Manager
      <3> QED BY <2>4, <3>1, UnlinkTouches
    <2> HIDE DEF left
    <2>6. /\ n.rooms = [left.rooms EXCEPT ![r] = IF room.life = "waiting" THEN None ELSE @]
          /\ n.issued = left.issued /\ n.links = left.links
      <3>1. n = [issued |-> left.issued,
                 rooms |-> [left.rooms EXCEPT ![r] = IF room.life = "waiting" THEN None ELSE @],
                 codes |-> [left.codes EXCEPT ![room.code] = None],
                 links |-> left.links]
        <4> HIDE DEF n, room
        <4> QED BY <2>2, <2>5 DEF Manager
      <3> HIDE DEF n, room
      <3> QED BY <3>1
    <2> HIDE DEF n
    <2>7. n.links[p] = None /\ Unlinks(m, n)
      BY <2>1, <2>5, <2>6 DEF Unlinks
    <2>8. CASE room.life = "waiting"
      <3>1. \A q \in Player : n.links[q] # r
        BY <1>2, <2>5, <2>6 DEF Linked
      <3>2. \A k \in RoomId : n.rooms[k] = IF k = r THEN None ELSE m.rooms[k]
        BY <2>1, <2>4, <2>5, <2>6, <2>8 DEF Manager
      <3>3. Closes(m, n, r)
        BY <2>1, <2>4, <2>5, <2>6, <2>7, <2>8, <3>1, <3>2 DEF Closes
      <3> QED BY <2>1, <2>7, <3>3 DEF Steps, n
    <2>9. CASE room.life # "waiting"
      <3>1. n.rooms = e.rooms
        BY <2>4, <2>5, <2>6, <2>9 DEF Manager
      <3>2. Touches(m, n)
        BY <2>4, <2>5, <2>6, <2>7, <2>9, <3>1 DEF Touches
      <3> QED BY <2>7, <3>2 DEF Steps, n
    <2> QED BY <2>8, <2>9
  <1> QED BY <1>1, <1>2

LEMMA PurgeCloses ==
  ASSUME NEW m, Orderly(m), NEW r \in RoomId, m.rooms[r] # None, m.rooms[r].life = "over"
  PROVE  Closes(m, Purge(m, r).mgr, r)
  <1> DEFINE n == Purge(m, r).mgr
             ls == [p \in Player |-> IF m.links[p] = r THEN None ELSE m.links[p]]
  <1>1. n.rooms = [m.rooms EXCEPT ![r] = None] /\ n.links = ls /\ n.issued = m.issued
    BY DEF Purge, Silently, Done, Orderly, Manager
  <1>2. r # None
    BY RoomAssumption
  <1> HIDE DEF n
  <1> QED BY <1>1, <1>2 DEF Closes, Unlinks, Orderly, Manager, n

-----------------------------------------------------------------------------
(* The server.                                                             *)

LEMMA HandledSteps ==
  ASSUME Orderly(mgr), Linked(mgr), NEW q \in Request, NEW p \in Player,
         q.type = "AUTHENTICATE" => q.token = p,
         NEW d \in Handled(p, q)
  PROVE  Steps(mgr, d.mgr)
  <1>1. Steps(mgr, Identified(p).mgr)
    <2>1. CASE Exists(mgr, mgr.links[p])
      BY <2>1, ReconnectTouches DEF Identified, Done, Exists, Steps
    <2>2. CASE ~Exists(mgr, mgr.links[p])
      BY <2>2, NothingTouched DEF Identified, Silently, Done, Orderly, Steps
    <2> QED BY <2>1, <2>2
  <1>2. CASE q.type = "AUTHENTICATE"
    BY <1>1, <1>2 DEF Handled
  <1>3. CASE q.type = "CREATE_MATCH"
    BY <1>3, CreateMatchSteps DEF Handled
  <1>4. CASE q.type = "JOIN_MATCH"
    BY <1>4, RequestFields, JoinMatchSteps DEF Handled
  <1>5. CASE q.type = "ABORT_MATCH"
    BY <1>5, AbortMatchSteps DEF Handled
  <1>6. CASE q.type = "LEAVE_MATCH"
    BY <1>6, LeaveMatchTouches DEF Handled, Steps
  <1> QED BY <1>2, <1>3, <1>4, <1>5, <1>6, RequestFields

\* What a session handles: its player, and the result.
LEMMA ReceivesWhat ==
  ASSUME Inv, NEW s \in Socket, ServerReceives(s)
  PROVE  LET q == Head(up[s])
             first == q.type = "AUTHENTICATE"
             p == IF first THEN q.token ELSE who[s]
             direct == first \/ (q.type = "CREATE_MATCH" /\ InActiveRoom(mgr, p))
             here == [registry EXCEPT ![p] = s]
         IN  /\ q \in Request /\ p \in Player /\ (first => q.token = p)
             /\ first <=> who[s] = None
             /\ \E d \in Handled(p, q) :
                  mgr' = d.mgr /\ Deliver(IF direct THEN here ELSE registry, d.out)
  <1>1. /\ who[s] \in Player \cup {None} /\ up[s] \in Seq(Request) /\ up[s] # <<>>
        /\ session[s] # "free" /\ InOrder(session[s], who[s], up[s], line[s])
    BY DEF Inv, Sessions, ServerReceives
  <1> QED BY <1>1, HeadInOrder DEF ServerReceives

LEMMA ServerSteps ==
  ASSUME Inv, Linked(mgr), ServerNext
  PROVE  Steps(mgr, mgr')
  <1>1. Orderly(mgr) /\ mgr \in Manager
    BY DEF Inv, Orderly
  <1>2. mgr' = mgr => Steps(mgr, mgr')
    BY <1>1, NothingTouched DEF Steps
  <1>3. ASSUME NEW s \in Socket, ServerReceives(s) PROVE Steps(mgr, mgr')
    <2> DEFINE q == Head(up[s])
               p == IF q.type = "AUTHENTICATE" THEN q.token ELSE who[s]
    <2>1. /\ q \in Request /\ p \in Player /\ (q.type = "AUTHENTICATE" => q.token = p)
          /\ \E d \in Handled(p, q) : mgr' = d.mgr
      BY <1>3, ReceivesWhat
    <2> HIDE DEF p, q
    <2> QED BY <1>1, <2>1, HandledSteps
  <1>4. ASSUME NEW s \in Socket, ServerNotices(s) PROVE Steps(mgr, mgr')
    <2>1. who[s] \in Player \cup {None}
      BY DEF Inv, Sessions
    <2>2. mgr' = mgr \/ (who[s] \in Player /\ mgr' = RemovePlayer(mgr, who[s]).mgr)
      BY <1>4, <2>1 DEF ServerNotices
    <2> QED BY <1>1, <1>2, <2>2, RemovePlayerTouches DEF Steps
  <1>5. ASSUME NEW k \in Peer, PeerActs(k) PROVE Steps(mgr, mgr')
    <2>1. k \in Player
      BY ServerAssumption
    <2>2. PICK d \in PeerAsks(k) : mgr' = d.mgr
      BY <1>5 DEF PeerActs
    <2>3. CASE d \in CreateMatch(mgr, k)
      BY <1>1, <2>1, <2>2, <2>3, CreateMatchSteps
    <2>4. CASE d \in {JoinMatch(mgr, k, c) : c \in Code}
      BY <1>1, <2>1, <2>2, <2>4, JoinMatchSteps
    <2>5. CASE d = AbortMatch(mgr, k)
      BY <1>1, <2>1, <2>2, <2>5, AbortMatchSteps
    <2>6. CASE d = LeaveMatch(mgr, k)
      BY <1>1, <2>1, <2>2, <2>6, LeaveMatchTouches DEF Steps
    <2>7. CASE Exists(mgr, mgr.links[k]) /\ d = Reconnect(mgr, mgr.links[k], k)
      BY <1>1, <2>1, <2>2, <2>7, ReconnectTouches DEF Exists, Steps
    <2> QED BY <2>2, <2>3, <2>4, <2>5, <2>6, <2>7 DEF PeerAsks
  <1>6. ASSUME NEW r \in RoomId, Play(r) PROVE Steps(mgr, mgr')
    BY <1>2, <1>6 DEF Play
  <1>7. ASSUME NEW r \in RoomId, GameEnds(r) PROVE Steps(mgr, mgr')
    BY <1>1, <1>7, FinishTouches DEF GameEnds, Exists, Steps
  <1>8. ASSUME NEW r \in RoomId, RoomExpires(r) PROVE Steps(mgr, mgr')
    BY <1>1, <1>8, PurgeCloses DEF RoomExpires, Exists, Over, Steps
  <1> QED BY <1>3, <1>4, <1>5, <1>6, <1>7, <1>8 DEF ServerNext

LEMMA BrowserLeavesRooms ==
  ASSUME \/ UNCHANGED vars \/ Proceeds \/ Person
         \/ \E s \in Socket : Fails(s) \/ LinkBreaks(s)
  PROVE  mgr' = mgr
  <1>1. CASE UNCHANGED vars
    BY <1>1 DEF vars, serverVars
  <1>2. CASE Proceeds
    BY <1>2 DEF Proceeds, Renders, FallsBack, Enters, Redials, Opens, Drops, Hears, serverVars
  <1>3. CASE Person
    BY <1>3 DEF Person, SubmitsName, InitiatesOperation, TerminatesLink, Abandons, Returns,
                LinksToNetwork, Reloads, Clicks
  <1>4. CASE \E s \in Socket : Fails(s) \/ LinkBreaks(s)
    BY <1>4 DEF Fails, LinkBreaks
  <1> QED BY <1>1, <1>2, <1>3, <1>4

LEMMA NextSteps ==
  ASSUME Inv, Linked(mgr), [Next]_vars
  PROVE  Steps(mgr, mgr')
  <1>1. mgr' = mgr => Steps(mgr, mgr')
    BY NothingTouched DEF Inv, Orderly, Steps
  <1> QED BY <1>1, BrowserLeavesRooms, ServerSteps DEF Next

LEMMA ServedLinked ==
  ASSUME NEW t \in Me, NEW m \in Served(t)
  PROVE  Linked(m)
  <1> DEFINE c == CHOOSE x \in Code : TRUE
             New(k) == NewRoom(NoRooms, k, c).mgr
             In(k) == Enter(New(k), 1, t, c).mgr
             Left(k) == RemovePlayer(In(k), t).mgr
  <1>1. c \in Code /\ t \in Player /\ 1 \in RoomId
    BY BrowserAssumption, RoomAssumption DEF Me, RoomId
  <1> HIDE DEF c
  <1>2. Orderly(NoRooms) /\ Linked(NoRooms) /\ NoRooms.issued = 0 /\ NoRooms.codes[c] = None
    BY <1>1, NoRoomsOrderly DEF Linked, NoRooms
  <1>3. ASSUME NEW k \in Peer
        PROVE  /\ Orderly(Left(k)) /\ Linked(Left(k))
               /\ Left(k).issued = 1 /\ Left(k).codes[c] = None
    <2>1. k \in Player
      BY ServerAssumption
    <2>2. Orderly(New(k)) /\ New(k).codes[c] = 1 /\ New(k).issued = 1
      BY <1>1, <1>2, <2>1, NewRoomOrderly, RoomAssumption
    <2>3. Founds(NoRooms, New(k), k)
      BY <1>1, <1>2, <2>1, NewRoomFounds, RoomAssumption
    <2> HIDE DEF New
    <2>4. Linked(New(k))
      BY <1>2, <2>1, <2>2, <2>3, StepsLinked DEF Steps, Orderly
    <2>5. New(k).rooms[1].beta = None
      BY <1>2, <2>3 DEF Founds
    <2>6. Unlinks(New(k), New(k)) /\ New(k) \in Manager /\ 1 # None
      BY <1>1, <2>2, RoomAssumption DEF Unlinks, Orderly
    <2>7. LetsIn(New(k), In(k), 1, t)
      BY <1>1, <2>2, <2>5, <2>6, EnterLetsIn
    <2>8. Orderly(In(k))
      BY <1>1, <2>2, <2>6, EnterOrderly
    <2>9. In(k).issued = 1 /\ In(k).codes[c] = None
      BY <1>1, <2>2 DEF Enter, Done, Orderly, Manager
    <2> HIDE DEF In
    <2>10. Linked(In(k))
      BY <1>1, <2>2, <2>4, <2>7, <2>8, StepsLinked DEF Steps, Orderly
    <2>11. Touches(In(k), Left(k)) /\ Orderly(Left(k))
      BY <1>1, <2>8, RemovePlayerTouches, RemovePlayerOrderly
    <2>12. Left(k).issued = 1 /\ Left(k).codes[c] = None
      BY <2>8, <2>9, RemovePlayerKeeps DEF Orderly
    <2> HIDE DEF Left
    <2>13. Linked(Left(k))
      BY <2>8, <2>10, <2>11, StepsLinked DEF Steps, Orderly
    <2> QED BY <2>11, <2>12, <2>13
  <1>4. ASSUME NEW k \in Peer, NEW l \in Peer, MaxRooms > 1
        PROVE  Linked(NewRoom(Left(k), l, c).mgr)
    <2>1. l \in Player
      BY ServerAssumption
    <2> HIDE DEF Left
    <2>2. Founds(Left(k), NewRoom(Left(k), l, c).mgr, l)
      BY <1>1, <1>3, <1>4, <2>1, NewRoomFounds
    <2>3. Orderly(NewRoom(Left(k), l, c).mgr)
      BY <1>1, <1>3, <1>4, <2>1, NewRoomOrderly
    <2> QED BY <1>3, <2>1, <2>2, <2>3, StepsLinked DEF Steps, Orderly
  <1>5. \/ m = NoRooms
        \/ \E k \in Peer : m = Left(k)
        \/ MaxRooms > 1 /\ \E k \in Peer, l \in Peer : m = NewRoom(Left(k), l, c).mgr
    BY DEF Served, c
  <1> QED BY <1>2, <1>3, <1>4, <1>5

-----------------------------------------------------------------------------

LEMMA InitLinked == Init => Linked(mgr)
  <1> SUFFICES ASSUME Init PROVE Linked(mgr)
    OBVIOUS
  <1> DEFINE t == CHOOSE x \in Me : TRUE
  <1>1. t \in Me
    BY BrowserAssumption DEF Me
  <1>2. mgr \in Served(t)
    BY DEF Init
  <1> HIDE DEF t
  <1> QED BY <1>1, <1>2, ServedLinked

LEMMA NextLinked == Inv /\ Linked(mgr) /\ [Next]_vars => Linked(mgr)'
  <1> SUFFICES ASSUME Inv, Linked(mgr), [Next]_vars PROVE Linked(mgr')
    BY DEF Linked, Exists, Members
  <1>1. Orderly(mgr) /\ mgr' \in Manager
    BY NextInv DEF Inv, Orderly
  <1> QED BY <1>1, NextSteps, StepsLinked

\* A link leads to a room that is there and that one is a player of, whatever aborting
\* unlinks and expiry takes away: the branches of the manager for links that dangle
\* are never taken.
THEOREM LinksAlwaysLead == Spec => []Linked(mgr)
  BY SpecInv, InitLinked, NextLinked, PTL DEF Spec

LEMMA LobbyInit == Inv /\ Linked(mgr) => Lobby!Init
  <1> SUFFICES ASSUME Inv, Linked(mgr), NEW r \in RoomId PROVE Lobby!Sound(Seen(mgr, r))
    BY DEF Lobby!Init
  <1> DEFINE x == Seen(mgr, r)
             room == mgr.rooms[r]
  <1>1. /\ mgr \in Manager /\ room \in Room \cup {None} /\ r # None
        /\ r > mgr.issued => room = None
    BY RoomAssumption DEF Inv, Orderly, Unissued, Manager
  <1>2. x.inside \subseteq {x.host, x.guest} /\ (room = None => x.inside = {})
    BY <1>1, SeenFields, LinkIsARoom, RoomIsNotNone
  <1>3. x.life \in {"none", "gone"} => room = None
    BY <1>1, SeenFields DEF Room
  <1>4. x \in Lobby!RoomState
    BY <1>1 DEF Seen, Room, Lobby!RoomState, Lobby!Life
  <1> QED BY <1>2, <1>3, <1>4 DEF Lobby!Sound

LEMMA LobbyStep ==
  ASSUME Inv, Linked(mgr), [Next]_vars
  PROVE  Lobby!Next
  <1>1. Orderly(mgr) /\ Orderly(mgr')
    BY NextInv DEF Inv
  <1>2. Lives(mgr, mgr')
    BY <1>1, NextSteps, StepsLive
  <1> QED BY <1>2 DEF Lives, Lobby!Next

\* The manager implements RoomLife, for any numbers of players, codes and rooms,
\* whoever calls which of its methods.
THEOREM RoomsAlwaysLive == Spec => RoomsLive
  <1>1. Init => Lobby!Init
    BY InitInv, InitLinked, LobbyInit
  <1>2. Inv /\ Linked(mgr) /\ [Next]_vars => Lobby!Next
    BY LobbyStep
  <1> QED BY <1>1, <1>2, SpecInv, LinksAlwaysLead, PTL DEF Spec, RoomsLive, Lobby!Spec

-----------------------------------------------------------------------------
(* What becomes of the codes in one call.                                  *)

LastsFrom(m, n) ==
  \A r \in RoomId :
    Open(m, r) /\ Exists(n, r) /\ n.rooms[r].life = "waiting" => Open(n, r) \/ Robs(m, n, r)

\* A call that changes neither codes nor the code a room remembers.
LEMMA CodesAlone ==
  ASSUME NEW m, NEW n, n.codes = m.codes,
         \A r \in RoomId : m.rooms[r] # None /\ n.rooms[r] # None =>
           n.rooms[r].code = m.rooms[r].code
  PROVE  LastsFrom(m, n)
  BY DEF LastsFrom, Open, Exists

LEMMA RoomLasts ==
  ASSUME NEW m \in Manager, NEW r \in RoomId, NEW x, x.code = m.rooms[r].code
  PROVE  LastsFrom(m, [m EXCEPT !.rooms[r] = x])
  <1> DEFINE n == [m EXCEPT !.rooms[r] = x]
  <1>1. /\ n.rooms = [m.rooms EXCEPT ![r] = x] /\ n.codes = m.codes
        /\ m.rooms \in [RoomId -> Room \cup {None}]
    BY DEF Manager
  <1> HIDE DEF n
  <1>2. \A k \in RoomId : m.rooms[k] # None /\ n.rooms[k] # None => n.rooms[k].code = m.rooms[k].code
    BY <1>1
  <1>3. LastsFrom(m, n)
    BY <1>1, <1>2, CodesAlone
  <1> QED BY <1>3 DEF n

LEMMA FinishLasts ==
  ASSUME NEW m, Orderly(m), NEW r \in RoomId, m.rooms[r] # None
  PROVE  LastsFrom(m, Finish(m, r).mgr)
  <1> DEFINE x == [m.rooms[r] EXCEPT !.life = "over"]
  <1>1. m \in Manager /\ m.rooms[r] \in Room
    BY DEF Orderly, Manager
  <1>2. x.code = m.rooms[r].code
    BY <1>1 DEF Room
  <1>3. Finish(m, r).mgr = [m EXCEPT !.rooms[r] = x]
    BY DEF Finish, Done
  <1> HIDE DEF x
  <1> QED BY <1>1, <1>2, <1>3, RoomLasts

LEMMA AwayLasts ==
  ASSUME NEW m, Orderly(m), NEW r \in RoomId, m.rooms[r] # None, NEW p
  PROVE  LastsFrom(m, Disconnect(m, r, p).mgr) /\ LastsFrom(m, Reconnect(m, r, p).mgr)
  <1> DEFINE x == [m.rooms[r] EXCEPT !.away = m.rooms[r].away \cup {p}]
             y == [m.rooms[r] EXCEPT !.away = m.rooms[r].away \ {p}]
  <1>1. m \in Manager /\ m.rooms[r] \in Room
    BY DEF Orderly, Manager
  <1>2. x.code = m.rooms[r].code /\ y.code = m.rooms[r].code
    BY <1>1 DEF Room
  <1>3. Disconnect(m, r, p).mgr = [m EXCEPT !.rooms[r] = x]
    BY <1>1 DEF Disconnect, Silently, Done, Manager
  <1>4. Reconnect(m, r, p).mgr = [m EXCEPT !.rooms[r] = y]
    BY <1>1 DEF Reconnect, Done, Manager
  <1> HIDE DEF x, y
  <1> QED BY <1>1, <1>2, <1>3, <1>4, RoomLasts

\* The new room has a code that led nowhere.
LEMMA NewRoomLasts ==
  ASSUME NEW m, Orderly(m), NEW p \in Player, NEW c \in Code, m.issued < MaxRooms,
         m.codes[c] = None
  PROVE  LastsFrom(m, NewRoom(m, p, c).mgr)
  <1> DEFINE k == m.issued + 1
             x == [code |-> c, alpha |-> p, beta |-> None, life |-> "waiting", away |-> {}]
             n == NewRoom(m, p, c).mgr
  <1>1. n = [issued |-> k, rooms |-> [m.rooms EXCEPT ![k] = x],
             codes |-> [m.codes EXCEPT ![c] = k], links |-> [m.links EXCEPT ![p] = k]]
    BY DEF NewRoom, Done, Orderly, Manager
  <1> HIDE DEF x, n
  <1>2. n.rooms = [m.rooms EXCEPT ![k] = x] /\ n.codes = [m.codes EXCEPT ![c] = k]
    BY <1>1
  <1> SUFFICES ASSUME NEW r \in RoomId, Open(m, r) PROVE Open(n, r)
    BY DEF LastsFrom, n
  <1>3. m.rooms[r] \in Room /\ m.rooms[r] # None /\ m.rooms[r].life = "waiting"
        /\ m.codes[m.rooms[r].code] = r
    BY DEF Open, Exists, Orderly, Manager
  <1>4. m.rooms[r].code \in Code /\ m.rooms[r].code # c
    BY <1>3, RoomAssumption DEF Room
  <1>5. r # k
    <2>1. m.issued \in Nat
      BY RoomAssumption DEF Orderly, Manager
    <2> QED BY <1>3, <2>1 DEF Orderly, Unissued, RoomId
  <1>6. n.rooms[r] = m.rooms[r] /\ n.codes[m.rooms[r].code] = r
    BY <1>2, <1>3, <1>4, <1>5 DEF Orderly, Manager
  <1> QED BY <1>3, <1>6 DEF Open, Exists

\* Erasing a code shuts no room but the one it leads to.
LEMMA EnterLasts ==
  ASSUME NEW m, Orderly(m), NEW p \in Player, NEW c \in Code, NEW r \in RoomId, m.codes[c] = r,
         NEW f \in Manager, f.rooms = m.rooms, f.codes = m.codes
  PROVE  LastsFrom(m, Enter(f, r, p, c).mgr)
  <1> DEFINE x == [m.rooms[r] EXCEPT !.beta = p, !.life = "running"]
             n == Enter(f, r, p, c).mgr
  <1>1. x.life = "running"
    BY OwnCode DEF Room
  <1>2. n = [issued |-> f.issued, rooms |-> [f.rooms EXCEPT ![r] = x],
             codes |-> [f.codes EXCEPT ![c] = None], links |-> [f.links EXCEPT ![p] = r]]
    BY DEF Enter, Done, Manager
  <1> HIDE DEF x, n
  <1>3. n.rooms = [m.rooms EXCEPT ![r] = x] /\ n.codes = [m.codes EXCEPT ![c] = None]
    BY <1>2
  <1> SUFFICES ASSUME NEW k \in RoomId, Open(m, k), n.rooms[k].life = "waiting"
               PROVE  Open(n, k)
    BY DEF LastsFrom, n
  <1>4. m.rooms[k] \in Room /\ m.rooms[k].life = "waiting" /\ m.codes[m.rooms[k].code] = k
        /\ m.rooms[k] # None
    BY DEF Open, Exists, Orderly, Manager
  <1>5. k # r
    BY <1>1, <1>3 DEF Orderly, Manager
  <1>6. m.rooms[k].code # c /\ m.rooms[k].code \in Code
    BY <1>4, <1>5 DEF Room
  <1>7. n.rooms[k] = m.rooms[k] /\ n.codes[m.rooms[k].code] = k
    BY <1>3, <1>4, <1>5, <1>6 DEF Orderly, Manager
  <1> QED BY <1>4, <1>7 DEF Open, Exists

LEMMA PurgeLasts ==
  ASSUME NEW m, Orderly(m), NEW r \in RoomId
  PROVE  LastsFrom(m, Purge(m, r).mgr)
  <1> DEFINE n == Purge(m, r).mgr
  <1>1. /\ n.rooms = [m.rooms EXCEPT ![r] = None]
        /\ n.codes = [c \in Code |-> IF m.codes[c] = r THEN None ELSE m.codes[c]]
    BY DEF Purge, Silently, Done, Orderly, Manager
  <1> HIDE DEF n
  <1> SUFFICES ASSUME NEW k \in RoomId, Open(m, k), Exists(n, k)
               PROVE  Open(n, k)
    BY DEF LastsFrom, n
  <1>2. m.rooms[k] \in Room /\ m.rooms[k].life = "waiting" /\ m.codes[m.rooms[k].code] = k
        /\ m.rooms[k] # None
    BY DEF Open, Exists, Orderly, Manager
  <1>3. k # r
    BY <1>1 DEF Exists, Orderly, Manager
  <1>4. n.rooms[k] = m.rooms[k] /\ n.codes[m.rooms[k].code] = k
    BY <1>1, <1>2, <1>3 DEF Room, Orderly, Manager
  <1> QED BY <1>2, <1>4 DEF Open, Exists

LEMMA UnlinkLasts ==
  ASSUME NEW m \in Manager, NEW P
  PROVE  LastsFrom(m, Unlink(m, P))
  <1>1. Unlink(m, P).rooms = m.rooms /\ Unlink(m, P).codes = m.codes
    BY UnlinkTouches
  <1> QED BY <1>1 DEF LastsFrom, Open, Exists

LEMMA SameLasts == ASSUME NEW m PROVE LastsFrom(m, m)
  BY CodesAlone

\* The one call that takes the code of another room: that of a player whose own room
\* remembers it.
LEMMA AbortLasts ==
  ASSUME NEW m, Orderly(m), Linked(m), NEW p \in Player
  PROVE  LastsFrom(m, AbortMatch(m, p).mgr)
  <1> DEFINE r == m.links[p]
             room == m.rooms[r]
             ended == IF room.life = "over" THEN Silently(m) ELSE Finish(m, r)
             e == ended.mgr
             left == Unlink(e, Members(room))
             n == AbortMatch(m, p).mgr
  <1>1. CASE r = None
    BY <1>1, SameLasts DEF AbortMatch, Silently, Done
  <1>2. CASE r # None
    <2>1. r \in RoomId /\ room \in Room /\ room # None
      BY <1>2 DEF Linked, Exists, Orderly, Manager
    <2>2. room.code \in Code
      BY <2>1 DEF Room
    <2>3. n = [left EXCEPT !.codes[room.code] = None,
                           !.rooms[r] = IF room.life = "waiting" THEN None ELSE @]
      BY <1>2, <2>1 DEF AbortMatch, Done, Exists
    <2>4. /\ e \in Manager /\ e.codes = m.codes
          /\ \A k \in RoomId \ {r} : e.rooms[k] = m.rooms[k]
      <3> DEFINE x == [room EXCEPT !.life = "over"]
      <3>1. CASE room.life = "over"
        BY <3>1 DEF Silently, Done, Orderly
      <3>2. CASE room.life # "over"
        <4>1. e = [m EXCEPT !.rooms[r] = x]
          BY <3>2 DEF Finish, Done
        <4>2. x \in Room
          BY <2>1 DEF Room
        <4> HIDE DEF x, e, r
        <4> QED BY <2>1, <4>1, <4>2 DEF Orderly, Manager
      <3> QED BY <3>1, <3>2
    <2> HIDE DEF e, ended
    <2>5. left.rooms = e.rooms /\ left.codes = m.codes /\ left \in Manager
      <3>1. left \in Manager
        BY <2>4 DEF Unlink, Manager
      <3> QED BY <2>4, <3>1, UnlinkTouches
    <2> HIDE DEF left
    <2>6. /\ n.rooms = [left.rooms EXCEPT ![r] = IF room.life = "waiting" THEN None ELSE @]
          /\ n.codes = [m.codes EXCEPT ![room.code] = None]
      <3>1. n = [issued |-> left.issued,
                 rooms |-> [left.rooms EXCEPT ![r] = IF room.life = "waiting" THEN None ELSE @],
                 codes |-> [left.codes EXCEPT ![room.code] = None],
                 links |-> left.links]
        <4> HIDE DEF n, room
        <4> QED BY <2>3, <2>5 DEF Manager
      <3> HIDE DEF n, room
      <3> QED BY <2>5, <3>1
    <2>7. n.links[p] = None
      BY AbortMatchSteps
    <2> HIDE DEF n
    <2> SUFFICES ASSUME NEW k \in RoomId, Open(m, k), Exists(n, k), n.rooms[k].life = "waiting"
                 PROVE  Open(n, k) \/ Robs(m, n, k)
      BY DEF LastsFrom, n
    <2>8. m.rooms[k] \in Room /\ m.rooms[k].life = "waiting" /\ m.rooms[k] # None
          /\ m.codes[m.rooms[k].code] = k /\ m.rooms[k].code \in Code
      BY DEF Open, Exists, Orderly, Manager, Room
    <2>9. k # r
      <3>1. ASSUME k = r PROVE n.rooms[r] = None
        BY <2>1, <2>5, <2>6, <2>8, <3>1 DEF Manager
      <3> QED BY <3>1 DEF Exists
    <2>10. n.rooms[k] = m.rooms[k]
      BY <2>1, <2>4, <2>5, <2>6, <2>9 DEF Manager
    <2>11. CASE room.code = m.rooms[k].code
      BY <2>1, <2>7, <2>9, <2>11 DEF Robs, Exists
    <2>12. CASE room.code # m.rooms[k].code
      <3>1. n.codes[m.rooms[k].code] = k
        BY <2>6, <2>8, <2>12 DEF Orderly, Manager
      <3> QED BY <2>8, <2>10, <3>1 DEF Open, Exists
    <2> QED BY <2>11, <2>12
  <1> QED BY <1>1, <1>2

LEMMA CreateLasts ==
  ASSUME NEW m, Orderly(m), NEW p \in Player, NEW d \in CreateMatch(m, p)
  PROVE  LastsFrom(m, d.mgr)
  <1>1. CASE d.mgr = m
    BY <1>1, SameLasts
  <1>2. ASSUME NEW c \in Code, m.issued < MaxRooms, m.codes[c] = None, d = NewRoom(m, p, c)
        PROVE  LastsFrom(m, d.mgr)
    BY <1>2, NewRoomLasts
  <1> QED BY <1>1, <1>2 DEF CreateMatch, Done

LEMMA JoinLasts ==
  ASSUME NEW m, Orderly(m), NEW p \in Player, NEW c \in Code
  PROVE  LastsFrom(m, JoinMatch(m, p, c).mgr)
  <1> DEFINE r == m.codes[c]
             f == Unlink(m, {p})
             n == JoinMatch(m, p, c).mgr
  <1>1. m \in Manager /\ f \in Manager /\ f.rooms = m.rooms /\ f.codes = m.codes
    BY UnlinkTouches, UnlinkOrderly DEF Orderly
  <1> HIDE DEF f
  <1>2. \/ n = m \/ n = f
        \/ Exists(m, r) /\ n = Reconnect(m, r, p).mgr
        \/ Exists(m, r) /\ n = Enter(f, r, p, c).mgr
    BY DEF JoinMatch, Silently, Done, f
  <1> HIDE DEF n
  <1>3. LastsFrom(m, f)
    BY <1>1, UnlinkLasts DEF f
  <1>4. Exists(m, r) => LastsFrom(m, Reconnect(m, r, p).mgr)
    BY AwayLasts DEF Exists
  <1>5. Exists(m, r) => LastsFrom(m, Enter(f, r, p, c).mgr)
    BY <1>1, EnterLasts DEF Exists
  <1>6. LastsFrom(m, n)
    BY <1>2, <1>3, <1>4, <1>5, SameLasts
  <1> QED BY <1>6 DEF n

LEMMA RemoveLasts ==
  ASSUME NEW m, Orderly(m), NEW p \in Player
  PROVE  /\ LastsFrom(m, RemovePlayer(m, p).mgr)
         /\ LastsFrom(m, LeaveMatch(m, p).mgr)
  <1>1. LastsFrom(m, RemovePlayer(m, p).mgr)
    BY AwayLasts, SameLasts DEF RemovePlayer, Exists, Silently, Done
  <1>2. LastsFrom(m, LeaveMatch(m, p).mgr)
    BY AwayLasts, UnlinkLasts DEF LeaveMatch, Exists, Silently, Done, Orderly
  <1> QED BY <1>1, <1>2

LEMMA HandledLasts ==
  ASSUME Orderly(mgr), Linked(mgr), NEW q \in Request, NEW p \in Player,
         q.type = "AUTHENTICATE" => q.token = p,
         NEW d \in Handled(p, q)
  PROVE  LastsFrom(mgr, d.mgr)
  <1>1. LastsFrom(mgr, Identified(p).mgr)
    BY AwayLasts, SameLasts DEF Identified, Silently, Done, Exists
  <1>2. CASE q.type = "AUTHENTICATE"
    BY <1>1, <1>2 DEF Handled
  <1>3. CASE q.type = "CREATE_MATCH"
    BY <1>3, CreateLasts DEF Handled
  <1>4. CASE q.type = "JOIN_MATCH"
    BY <1>4, RequestFields, JoinLasts DEF Handled
  <1>5. CASE q.type = "ABORT_MATCH"
    BY <1>5, AbortLasts DEF Handled
  <1>6. CASE q.type = "LEAVE_MATCH"
    BY <1>6, RemoveLasts DEF Handled
  <1> QED BY <1>2, <1>3, <1>4, <1>5, <1>6, RequestFields

LEMMA NextLasts ==
  ASSUME Inv, Linked(mgr), [Next]_vars
  PROVE  LastsFrom(mgr, mgr')
  <1>1. Orderly(mgr) /\ mgr \in Manager
    BY DEF Inv, Orderly
  <1>2. mgr' = mgr => LastsFrom(mgr, mgr')
    BY SameLasts
  <1>3. ASSUME NEW s \in Socket, ServerReceives(s) PROVE LastsFrom(mgr, mgr')
    <2> DEFINE q == Head(up[s])
               p == IF q.type = "AUTHENTICATE" THEN q.token ELSE who[s]
    <2>1. /\ q \in Request /\ p \in Player /\ (q.type = "AUTHENTICATE" => q.token = p)
          /\ \E d \in Handled(p, q) : mgr' = d.mgr
      BY <1>3, ReceivesWhat
    <2> HIDE DEF p, q
    <2> QED BY <1>1, <2>1, HandledLasts
  <1>4. ASSUME NEW s \in Socket, ServerNotices(s) PROVE LastsFrom(mgr, mgr')
    <2>1. who[s] \in Player \cup {None}
      BY DEF Inv, Sessions
    <2>2. mgr' = mgr \/ (who[s] \in Player /\ mgr' = RemovePlayer(mgr, who[s]).mgr)
      BY <1>4, <2>1 DEF ServerNotices
    <2> QED BY <1>1, <1>2, <2>2, RemoveLasts
  <1>5. ASSUME NEW k \in Peer, PeerActs(k) PROVE LastsFrom(mgr, mgr')
    <2>1. k \in Player
      BY ServerAssumption
    <2>2. PICK d \in PeerAsks(k) : mgr' = d.mgr
      BY <1>5 DEF PeerActs
    <2>3. CASE d \in CreateMatch(mgr, k)
      BY <1>1, <2>1, <2>2, <2>3, CreateLasts
    <2>4. CASE d \in {JoinMatch(mgr, k, c) : c \in Code}
      BY <1>1, <2>1, <2>2, <2>4, JoinLasts
    <2>5. CASE d = AbortMatch(mgr, k)
      BY <1>1, <2>1, <2>2, <2>5, AbortLasts
    <2>6. CASE d = LeaveMatch(mgr, k)
      BY <1>1, <2>1, <2>2, <2>6, RemoveLasts
    <2>7. CASE Exists(mgr, mgr.links[k]) /\ d = Reconnect(mgr, mgr.links[k], k)
      BY <1>1, <2>1, <2>2, <2>7, AwayLasts DEF Exists
    <2> QED BY <2>2, <2>3, <2>4, <2>5, <2>6, <2>7 DEF PeerAsks
  <1>6. ASSUME NEW r \in RoomId, Play(r) PROVE LastsFrom(mgr, mgr')
    BY <1>2, <1>6 DEF Play
  <1>7. ASSUME NEW r \in RoomId, GameEnds(r) PROVE LastsFrom(mgr, mgr')
    BY <1>1, <1>7, FinishLasts DEF GameEnds, Exists
  <1>8. ASSUME NEW r \in RoomId, RoomExpires(r) PROVE LastsFrom(mgr, mgr')
    BY <1>1, <1>8, PurgeLasts DEF RoomExpires
  <1> QED BY <1>2, <1>3, <1>4, <1>5, <1>6, <1>7, <1>8, BrowserLeavesRooms DEF Next, ServerNext

\* A room that waits can be entered by its code until its guest comes or its host gives
\* it up, unless a player of an earlier room with the same code aborts that one.  For
\* any numbers of players, codes and rooms, whoever calls which method.
THEOREM CodesLastHolds == Spec => CodesLast
  <1>1. Inv /\ Linked(mgr) /\ [Next]_vars =>
          \A r \in RoomId :
            Open(mgr, r) /\ Exists(mgr', r) /\ mgr'.rooms[r].life = "waiting" =>
              Open(mgr', r) \/ Robs(mgr, mgr', r)
    BY NextLasts DEF LastsFrom
  <1> QED BY <1>1, SpecInv, LinksAlwaysLead, PTL DEF Spec, CodesLast

-----------------------------------------------------------------------------
(* The two ends of a connection.                                           *)

\* Of a connection with line li and session se at its ends, a session that speaks for w,
\* and the messages u and d on their way, when the browser's player is t: what does not
\* reach the page is not kept, nothing is sent before the session knows its player, and
\* the page's own session speaks for the page's player.
Straight(li, se, w, u, d, t) ==
  /\ li # "open" => se # "open" /\ d = <<>>
  /\ se # "free" /\ w = None => d = <<>>
  /\ li # "none" =>
       /\ w \in {None, t}
       /\ \A i \in 1..Len(u) : u[i].type = "AUTHENTICATE" => u[i].token = t

Lines ==
  \A s \in Socket : Straight(line[s], session[s], who[s], up[s], down[s], client.token)

\* What is stored is what the client uses, or has been removed.
TokenKept == app.token \in {None, client.token}

\* A board is mounted as long as it is shown.
Mounting == board # None <=> shown.phase = "playing"

\* Messages are added to connections only whose session is open and registered.
LEMMA DeliverOnly ==
  ASSUME NEW reg, NEW out, Deliver(reg, out), NEW s \in Socket, down'[s] # down[s]
  PROVE  session[s] = "open" /\ \E p \in Player : reg[p] = s
  BY DEF Deliver, Listeners

LEMMA StraightTail ==
  ASSUME NEW li, NEW se, NEW w, NEW u \in Seq(Request), u # <<>>, NEW d, NEW t,
         Straight(li, se, w, u, d, t)
  PROVE  Straight(li, se, w, Tail(u), d, t)
  <1>1. Tail(u) \in Seq(Request) /\ Len(Tail(u)) = Len(u) - 1 /\ Len(u) \in Nat
        /\ \A i \in 1..Len(Tail(u)) : Tail(u)[i] = u[i + 1]
    OBVIOUS
  <1>2. \A i \in 1..Len(Tail(u)) : i + 1 \in 1..Len(u)
    BY <1>1
  <1> QED BY <1>1, <1>2 DEF Straight

LEMMA ServerReceivesLines ==
  ASSUME Inv, Lines, NEW s \in Socket, ServerReceives(s), Apart
  PROVE  Lines'
  <1> DEFINE q == Head(up[s])
             first == q.type = "AUTHENTICATE"
             p == IF first THEN q.token ELSE who[s]
             direct == first \/ (q.type = "CREATE_MATCH" /\ InActiveRoom(mgr, p))
             here == [registry EXCEPT ![p] = s]
             reg == IF direct THEN here ELSE registry
  <1>1. /\ q \in Request /\ p \in Player /\ (first => q.token = p) /\ (first <=> who[s] = None)
        /\ \E d \in Handled(p, q) : Deliver(reg, d.out)
    BY ReceivesWhat
  <1>2. /\ who' = [who EXCEPT ![s] = p] /\ session' = session /\ line' = line
        /\ up' = [up EXCEPT ![s] = Tail(up[s])] /\ client' = client
        /\ up[s] \in Seq(Request) /\ up[s] # <<>> /\ q = up[s][1] /\ session[s] # "free"
        /\ who \in [Socket -> Player \cup {None}] /\ up \in [Socket -> Seq(Request)]
        /\ registry \in [Player -> Socket \cup {None}]
    BY DEF ServerReceives, Apart, browserVars, Inv, Sessions
  <1>3. \A k \in Player, x \in Socket : reg[k] = x => (x = s /\ k = p) \/ (x # s /\ who[x] = k)
                                                     \/ (x = s /\ who[s] = k)
    BY <1>1, <1>2, NobodyIsNoPlayer DEF Inv, RegistrySound
  <1>4. ASSUME NEW x \in Socket, down'[x] # down[x]
        PROVE  session[x] = "open" /\ who'[x] # None
    <2>0. PICK out : Deliver(reg, out)
      BY <1>1
    <2> HIDE DEF reg, p, q, first, direct, here
    <2>1. session[x] = "open" /\ \E k \in Player : reg[k] = x
      BY <1>4, <2>0, DeliverOnly
    <2>2. CASE x = s
      BY <1>1, <1>2, <2>1, <2>2, NobodyIsNoPlayer
    <2>3. CASE x # s
      BY <1>2, <1>3, <2>1, <2>3, NobodyIsNoPlayer
    <2> QED BY <2>1, <2>2, <2>3
  <1>5. line[s] # "none" => p = client.token
    <2>1. Straight(line[s], session[s], who[s], up[s], down[s], client.token)
      BY DEF Lines
    <2>2. 1 \in 1..Len(up[s])
      BY <1>2
    <2>3. CASE first
      BY <1>1, <1>2, <2>1, <2>2, <2>3 DEF Straight
    <2>4. CASE ~first
      BY <1>1, <2>1, <2>4 DEF Straight
    <2> QED BY <2>3, <2>4
  <1> HIDE DEF p, q, first, reg
  <1> SUFFICES ASSUME NEW x \in Socket
               PROVE  Straight(line[x], session[x], who'[x], up'[x], down'[x], client.token)
    BY <1>2 DEF Lines
  <1>6. Straight(line[x], session[x], who[x], up[x], down[x], client.token)
    BY DEF Lines
  <1>7. CASE x # s
    <2>1. who'[x] = who[x] /\ up'[x] = up[x]
      BY <1>2, <1>7
    <2> QED BY <1>4, <1>6, <2>1 DEF Straight
  <1>8. CASE x = s
    <2>1. who'[x] = p /\ up'[x] = Tail(up[x]) /\ p # None
      BY <1>1, <1>2, <1>8, NobodyIsNoPlayer
    <2>2. Straight(line[x], session[x], who[x], Tail(up[x]), down[x], client.token)
      BY <1>2, <1>6, <1>8, StraightTail
    <2> QED BY <1>4, <1>5, <1>8, <2>1, <2>2 DEF Straight
  <1> QED BY <1>7, <1>8

LEMMA ServerNoticesLines ==
  ASSUME Inv, Lines, NEW s \in Socket, ServerNotices(s), Apart
  PROVE  Lines'
  <1>1. /\ session[s] = "cut" /\ up' = up /\ line' = line /\ client' = client
        /\ session' = [session EXCEPT ![s] = "free"] /\ who' = [who EXCEPT ![s] = None]
        /\ session \in [Socket -> {"free", "open", "cut"}]
        /\ who \in [Socket -> Player \cup {None}]
        /\ registry \in [Player -> Socket \cup {None}]
    BY DEF ServerNotices, Apart, browserVars, Inv, Sessions
  <1>2. ASSUME NEW x \in Socket, down'[x] # down[x]
        PROVE  session[x] = "open" /\ who[x] # None /\ x # s
    <2>1. who[s] # None /\ Deliver([registry EXCEPT ![who[s]] = None], RemovePlayer(mgr, who[s]).out)
      BY <1>2 DEF ServerNotices
    <2>2. session[x] = "open" /\ \E k \in Player : [registry EXCEPT ![who[s]] = None][k] = x
      BY <1>2, <2>1, DeliverOnly
    <2>3. PICK k \in Player : registry[k] = x
      BY <1>1, <2>2, NobodyIsNoPlayer
    <2>4. who[x] = k
      BY <2>3, NobodyIsNoPlayer DEF Inv, RegistrySound
    <2> QED BY <1>1, <2>2, <2>4, NobodyIsNoPlayer
  <1> SUFFICES ASSUME NEW x \in Socket
               PROVE  Straight(line[x], session'[x], who'[x], up[x], down'[x], client.token)
    BY <1>1 DEF Lines
  <1>3. Straight(line[x], session[x], who[x], up[x], down[x], client.token)
    BY DEF Lines
  <1>4. CASE x # s
    BY <1>1, <1>2, <1>3, <1>4 DEF Straight
  <1>5. CASE x = s
    BY <1>1, <1>2, <1>3, <1>5 DEF Straight
  <1> QED BY <1>4, <1>5

\* The other players, the games and the clock.
LEMMA ManagerStepLines ==
  ASSUME Inv, Lines, Apart, UNCHANGED <<registry, session, who, up>>,
         down' = down \/ \E out : Deliver(registry, out)
  PROVE  Lines'
  <1>1. line' = line /\ client' = client
    BY DEF Apart, browserVars
  <1>2. ASSUME NEW x \in Socket, down'[x] # down[x]
        PROVE  session[x] = "open" /\ who[x] # None
    BY <1>2, DeliverOnly, NobodyIsNoPlayer DEF Inv, RegistrySound
  <1> SUFFICES ASSUME NEW x \in Socket
               PROVE  Straight(line[x], session[x], who[x], up[x], down'[x], client.token)
    BY <1>1 DEF Lines
  <1>3. Straight(line[x], session[x], who[x], up[x], down[x], client.token)
    BY DEF Lines
  <1> QED BY <1>2, <1>3 DEF Straight

-----------------------------------------------------------------------------

\* The page asks nothing, or more than who it is.
LEMMA SendsLines ==
  ASSUME Inv, Lines, UNCHANGED <<line, session, who, down, client>>,
         up' = up \/ \E q \in Request : q.type # "AUTHENTICATE" /\ Send(q)
  PROVE  Lines'
  <1>1. up \in [Socket -> Seq(Request)]
    BY DEF Inv, Sessions
  <1> SUFFICES ASSUME NEW x \in Socket
               PROVE  Straight(line[x], session[x], who[x], up'[x], down[x], client.token)
    BY DEF Lines
  <1>2. Straight(line[x], session[x], who[x], up[x], down[x], client.token)
    BY DEF Lines
  <1>3. ASSUME NEW q \in Request, q.type # "AUTHENTICATE", up'[x] = Append(up[x], q)
        PROVE  Straight(line[x], session[x], who[x], up'[x], down[x], client.token)
    <2>1. up[x] \in Seq(Request)
      BY <1>1
    <2>2. \A i \in 1..Len(up'[x]) : up'[x][i] = q \/ (i \in 1..Len(up[x]) /\ up'[x][i] = up[x][i])
      BY <1>3, <2>1
    <2> QED BY <1>2, <1>3, <2>2 DEF Straight
  <1>4. up'[x] = up[x] \/ \E q \in Request : q.type # "AUTHENTICATE" /\ up'[x] = Append(up[x], q)
    BY <1>1 DEF Send
  <1> QED BY <1>2, <1>3, <1>4

LEMMA OpensLines ==
  ASSUME Inv, Lines, NEW s \in Socket, Opens(s)
  PROVE  Lines'
  <1> DEFINE u == <<Authenticate(client.token)>>
  <1>1. /\ line[s] = "connecting" /\ line' = [line EXCEPT ![s] = "open"]
        /\ session' = [session EXCEPT ![s] = "open"] /\ up' = [up EXCEPT ![s] = u]
        /\ UNCHANGED <<who, down, client>>
        /\ line \in [Socket -> {"none", "connecting", "open"}]
        /\ session \in [Socket -> {"free", "open", "cut"}] /\ up \in [Socket -> Seq(Request)]
    BY DEF Opens, Inv, Sessions
  <1>2. who[s] = None
    BY <1>1 DEF Inv, Sessions, InOrder
  <1>3. Len(u) = 1 /\ u[1].token = client.token
    BY DEF Authenticate
  <1> HIDE DEF u
  <1> SUFFICES ASSUME NEW x \in Socket
               PROVE  Straight(line'[x], session'[x], who[x], up'[x], down[x], client.token)
    BY <1>1 DEF Lines
  <1>4. Straight(line[x], session[x], who[x], up[x], down[x], client.token)
    BY DEF Lines
  <1>5. CASE x # s
    BY <1>1, <1>4, <1>5 DEF Straight
  <1>6. CASE x = s
    <2>1. down[s] = <<>>
      BY <1>1, <1>4, <1>6 DEF Straight
    <2>2. \A i \in 1..Len(u) : u[i].token = client.token
      BY <1>3
    <2>3. line'[x] = "open" /\ session'[x] = "open" /\ up'[x] = u
      BY <1>1, <1>6
    <2> QED BY <1>2, <1>6, <2>1, <2>2, <2>3 DEF Straight
  <1> QED BY <1>5, <1>6

LEMMA ClosedLines ==
  ASSUME Inv, Lines, NEW s \in Socket, NEW a, Closed(s, a), session[s] # "open", down[s] = <<>>,
         UNCHANGED <<session, who, up, down>>
  PROVE  Lines'
  <1>1. /\ line' = [line EXCEPT ![s] = "none"] /\ client' = [client EXCEPT !.ws = None, !.timer = TRUE]
        /\ line \in [Socket -> {"none", "connecting", "open"}]
    BY DEF Closed, Inv, Sessions
  <1>2. client'.token = client.token
    BY <1>1 DEF Inv, Client
  <1> SUFFICES ASSUME NEW x \in Socket
               PROVE  Straight(line'[x], session[x], who[x], up[x], down[x], client.token)
    BY <1>2 DEF Lines
  <1>3. Straight(line[x], session[x], who[x], up[x], down[x], client.token)
    BY DEF Lines
  <1> QED BY <1>1, <1>3 DEF Straight

LEMMA LinkBreaksLines ==
  ASSUME Inv, Screen, Lines, NEW s \in Socket, LinkBreaks(s)
  PROVE  Lines'
  <1>1. PICK n \in 0..Len(up[s]) : up' = [up EXCEPT ![s] = SubSeq(up[s], 1, n)]
    BY DEF LinkBreaks
  <1>2. PICK k \in 0..Len(down[s]) : down' = [down EXCEPT ![s] = SubSeq(down[s], 1, k)]
    BY DEF LinkBreaks
  <1>3. /\ session' = [session EXCEPT ![s] = "cut"] /\ session[s] = "open"
        /\ UNCHANGED <<who, line, client>>
        /\ session \in [Socket -> {"free", "open", "cut"}] /\ up \in [Socket -> Seq(Request)]
        /\ down \in [Socket -> Seq(Message)]
    BY DEF LinkBreaks, Inv, Sessions, Screen, Wires
  <1> SUFFICES ASSUME NEW x \in Socket
               PROVE  Straight(line[x], session'[x], who[x], up'[x], down'[x], client.token)
    BY <1>3 DEF Lines
  <1>4. Straight(line[x], session[x], who[x], up[x], down[x], client.token)
    BY DEF Lines
  <1>5. CASE x # s
    BY <1>1, <1>2, <1>3, <1>4, <1>5 DEF Straight
  <1>6. CASE x = s
    <2>1. up[s] \in Seq(Request) /\ down[s] \in Seq(Message)
      BY <1>3
    <2>2. /\ Len(SubSeq(up[s], 1, n)) = n /\ Len(up[s]) \in Nat
          /\ \A i \in 1..n : SubSeq(up[s], 1, n)[i] = up[s][i] /\ i \in 1..Len(up[s])
      BY <2>1
    <2>3. down[s] = <<>> => SubSeq(down[s], 1, k) = <<>>
      BY <2>1
    <2>4. up'[x] = SubSeq(up[s], 1, n) /\ down'[x] = SubSeq(down[s], 1, k) /\ session'[x] = "cut"
      BY <1>1, <1>2, <1>3, <1>6
    <2> QED BY <1>3, <1>4, <1>6, <2>2, <2>3, <2>4 DEF Straight
  <1> QED BY <1>5, <1>6

LEMMA RedialsLines ==
  ASSUME Inv, Lines, Redials
  PROVE  Lines'
  <1>1. Slot \in Socket /\ line[Slot] = "none" /\ session[Slot] = "free"
    BY DEF Redials, Slot, Unused
  <1>2. /\ line' = [line EXCEPT ![Slot] = "connecting"] /\ UNCHANGED <<session, who, up, down>>
        /\ client' = [client EXCEPT !.ws = Slot, !.timer = FALSE]
        /\ line \in [Socket -> {"none", "connecting", "open"}]
    BY DEF Redials, serverVars, Inv, Sessions
  <1> HIDE DEF Slot
  <1>3. client'.token = client.token
    BY <1>2 DEF Inv, Client
  <1>4. who[Slot] = None /\ up[Slot] = <<>>
    BY <1>1 DEF Inv, Sessions, InOrder
  <1> SUFFICES ASSUME NEW x \in Socket
               PROVE  Straight(line'[x], session[x], who[x], up[x], down[x], client.token)
    BY <1>2, <1>3 DEF Lines
  <1>5. Straight(line[x], session[x], who[x], up[x], down[x], client.token)
    BY DEF Lines
  <1> QED BY <1>1, <1>2, <1>4, <1>5 DEF Straight

LEMMA HearsLines ==
  ASSUME Screen, Lines, NEW s \in Socket, Hears(s)
  PROVE  Lines'
  <1>1. /\ down' = [down EXCEPT ![s] = Tail(down[s])] /\ down[s] # <<>> /\ line[s] = "open"
        /\ UNCHANGED <<session, who, up, line, client>> /\ down \in [Socket -> Seq(Message)]
    BY DEF Hears, Screen, Wires
  <1> SUFFICES ASSUME NEW x \in Socket
               PROVE  Straight(line[x], session[x], who[x], up[x], down'[x], client.token)
    BY <1>1 DEF Lines
  <1>2. Straight(line[x], session[x], who[x], up[x], down[x], client.token)
    BY DEF Lines
  <1> QED BY <1>1, <1>2 DEF Straight

LEMMA ReloadsLines ==
  ASSUME Inv, Lines, NEW u, Reloads(u)
  PROVE  Lines'
  <1>1. Slot \in Socket /\ line[Slot] = "none" /\ session[Slot] = "free"
    BY DEF Reloads, Slot, Unused
  <1>2. /\ line' = [x \in Socket |-> IF x = Slot THEN "connecting" ELSE "none"]
        /\ session' = [x \in Socket |->
                         IF x = client.ws /\ session[x] = "open" THEN "cut" ELSE session[x]]
        /\ down' = [x \in Socket |-> IF x = client.ws THEN <<>> ELSE down[x]]
        /\ UNCHANGED <<who, up>>
    BY DEF Reloads
  <1> HIDE DEF Slot
  <1>3. who[Slot] = None /\ up[Slot] = <<>>
    BY <1>1 DEF Inv, Sessions, InOrder
  <1> SUFFICES ASSUME NEW x \in Socket
               PROVE  Straight(line'[x], session'[x], who[x], up[x], down'[x], client'.token)
    BY <1>2 DEF Lines
  <1>4. Straight(line[x], session[x], who[x], up[x], down[x], client.token)
    BY DEF Lines
  <1>5. line[x] # "none" <=> x = client.ws
    BY DEF Inv, OneLine
  <1> QED BY <1>1, <1>2, <1>3, <1>4, <1>5 DEF Straight

LEMMA InitLines == Init => Lines
  <1> SUFFICES ASSUME Init, NEW x \in Socket
               PROVE  Straight(line[x], session[x], who[x], up[x], down[x], client.token)
    BY DEF Lines
  <1>1. session[x] = "free" /\ who[x] = None /\ up[x] = <<>> /\ down[x] = <<>>
    BY DEF Init, ServerInit
  <1> QED BY <1>1 DEF Straight

-----------------------------------------------------------------------------
(* The token and the board of a page.                                      *)

Keyed(a, t) == "token" \in DOMAIN a /\ a.token = t

LEMMA HandlersKeepTheToken ==
  ASSUME NEW a, NEW t, Keyed(a, t)
  PROVE  /\ Keyed(OnConnected(a), t) /\ Keyed(OnError(a), t)
         /\ Keyed(OnDisconnected(a), t) /\ Keyed(Timed(a), t)
         /\ Keyed(Named(a), t) /\ Keyed(Linking(a), t)
         /\ \A phase : Keyed(Reset(a, phase), t)
  BY DEF Keyed, OnConnected, OnError, OnDisconnected, Timed, Named, Linking, Reset

LEMMA HeardKeepsTheToken ==
  ASSUME NEW a, NEW t, Keyed(a, t), NEW msg
  PROVE  Keyed(Heard(a, msg), t)
  <1>1. Keyed(OnAuthenticated(a, msg.inMatch), t)
    BY DEF Keyed, OnAuthenticated
  <1>2. Keyed(OnCreated(a, msg.room, msg.code), t)
    BY DEF Keyed, OnCreated
  <1>3. Keyed(OnStart(a, msg.room, msg.code), t)
    BY DEF Keyed, OnStart
  <1>4. Keyed(OnState(a, msg.room, msg.over), t)
    BY DEF Keyed, OnState
  <1>5. Keyed(OnRefused(a), t)
    <2>1. Keyed([a EXCEPT !.loading = FALSE], t)
      BY DEF Keyed
    <2>2. Keyed(Reset(a, Entry(a)), t)
      BY HandlersKeepTheToken
    <2> QED BY <2>1, <2>2 DEF OnRefused
  <1> QED BY <1>1, <1>2, <1>3, <1>4, <1>5, HandlersKeepTheToken DEF Heard

\* A step of the App that keeps the token or removes it.
LEMMA TokenStays ==
  ASSUME Inv, TokenKept, \A t : Keyed(app, t) => Keyed(app', t) \/ Keyed(app', None),
         client'.token = client.token
  PROVE  TokenKept'
  <1>1. Keyed(app, app.token)
    BY DEF Inv, Keeps, Keyed
  <1> QED BY <1>1 DEF TokenKept, Keyed

LEMMA ClosedToken ==
  ASSUME Inv, TokenKept, NEW s, NEW a, \A t : Keyed(app, t) => Keyed(a, t), Closed(s, a)
  PROVE  TokenKept'
  <1>1. app' = Timed(OnDisconnected(a)) /\ client' = [client EXCEPT !.ws = None, !.timer = TRUE]
    BY DEF Closed
  <1>2. client'.token = client.token
    BY <1>1 DEF Inv, Client
  <1>3. \A t : Keyed(app, t) => Keyed(app', t)
    BY <1>1, HandlersKeepTheToken
  <1> QED BY <1>2, <1>3, TokenStays

LEMMA RendersToken ==
  ASSUME Inv, TokenKept, Renders
  PROVE  TokenKept'
  <1>1. ASSUME NEW t, Keyed(app, t) PROVE Keyed(app', t)
    <2>1. CASE JoinsByURL
      <3> DEFINE l == Linking(app)
      <3>1. Keyed(l, t)
        BY <1>1, HandlersKeepTheToken
      <3>2. app' = [l EXCEPT !.fresh = FALSE, !.joined = TRUE]
        BY <2>1 DEF Renders
      <3> HIDE DEF l
      <3> QED BY <3>1, <3>2 DEF Keyed
    <2>2. CASE ~JoinsByURL
      BY <1>1, <2>2 DEF Renders, Keyed
    <2> QED BY <2>1, <2>2
  <1> QED BY <1>1, TokenStays DEF Renders

LEMMA PersonToken ==
  ASSUME Inv, TokenKept,
         \/ SubmitsName \/ InitiatesOperation \/ TerminatesLink \/ Abandons \/ Returns
         \/ \E c \in Code : LinksToNetwork(c)
  PROVE  TokenKept'
  <1>1. client' = client
    BY DEF SubmitsName, InitiatesOperation, TerminatesLink, Abandons, Returns,
           LinksToNetwork, Clicks
  <1>2. ASSUME NEW t, Keyed(app, t) PROVE Keyed(app', t) \/ Keyed(app', None)
    <2>1. CASE SubmitsName
      BY <1>2, <2>1, HandlersKeepTheToken DEF SubmitsName
    <2>2. CASE InitiatesOperation
      BY <1>2, <2>2 DEF InitiatesOperation, Clicks, Keyed
    <2>3. CASE TerminatesLink
      <3> DEFINE a == Reset(app, "entering-name")
      <3>1. Keyed(a, t)
        BY <1>2, HandlersKeepTheToken
      <3>2. app' = [a EXCEPT !.named = FALSE, !.token = None]
        BY <2>3 DEF TerminatesLink, Clicks, Wiped
      <3> HIDE DEF a
      <3> QED BY <3>1, <3>2 DEF Keyed
    <2>4. CASE Abandons
      BY <1>2, <2>4, HandlersKeepTheToken DEF Abandons, Clicks
    <2>5. CASE Returns
      BY <1>2, <2>5, HandlersKeepTheToken DEF Returns, Clicks
    <2>6. ASSUME NEW c \in Code, LinksToNetwork(c) PROVE Keyed(app', t)
      BY <1>2, <2>6, HandlersKeepTheToken DEF LinksToNetwork, Clicks
    <2> QED BY <2>1, <2>2, <2>3, <2>4, <2>5, <2>6
  <1> QED BY <1>1, <1>2, TokenStays

LEMMA ReloadsToken ==
  ASSUME NEW u, Reloads(u)
  PROVE  TokenKept'
  BY DEF Reloads, Loaded, TokenKept

\* The board stays mounted whatever it hears.
LEMMA BoardStays ==
  ASSUME NEW b \in Board, NEW msg \in Message
  PROVE  BoardHeard(b, msg) \in Board
  <1>1. b # None
    BY BrowserAssumption DEF Board
  <1>2. CASE msg.type = "MATCH_STATE"
    <2>1. msg.room \in RoomId
      BY <1>2, MessageFields
    <2>2. BoardHeard(b, msg) = [b EXCEPT !.room = msg.room]
      BY <1>1, <1>2 DEF BoardHeard
    <2> QED BY <2>1, <2>2 DEF Board
  <1>3. CASE msg.type = "GAME_OVER"
    <2>1. BoardHeard(b, msg) = [b EXCEPT !.over = TRUE]
      BY <1>1, <1>3 DEF BoardHeard
    <2> QED BY <2>1 DEF Board
  <1>4. CASE msg.type \notin {"MATCH_STATE", "GAME_OVER"}
    BY <1>1, <1>4 DEF BoardHeard
  <1> QED BY <1>2, <1>3, <1>4

LEMMA BoardIsMounted == \A b \in Board : b # None
  BY BrowserAssumption DEF Board

LEMMA HearsMounting ==
  ASSUME Screen, Mounting, NEW s \in Socket, Hears(s)
  PROVE  Mounting'
  <1>1. Head(down[s]) \in Message /\ board' = BoardHeard(board, Head(down[s])) /\ shown' = shown
    BY TailAnswered DEF Hears, Screen, Wires
  <1> DEFINE msg == Head(down[s])
  <1> HIDE DEF msg
  <1>2. board = None => board' = None
    BY <1>1 DEF BoardHeard
  <1>3. board # None => board' # None
    BY <1>1, BoardStays, BoardIsMounted DEF Screen
  <1> QED BY <1>1, <1>2, <1>3 DEF Mounting

\* What a render makes of the board.
LEMMA RendersBoard ==
  ASSUME Screen, Renders, app.phase = "playing"
  PROVE  /\ board' \in Board
         /\ app.state # None /\ (app.fresh \/ board = None) => board'.room # None
         /\ board # None /\ board.room # None => board'.room # None
  <1>1. Unstarted \in Board
    BY DEF Unstarted, Board
  <1>2. app.state \in [room : RoomId, over : BOOLEAN] \cup {None}
    BY DEF Screen, App
  <1>3. board # None => board \in Board
    BY DEF Screen
  <1>4. board' = IF board = None THEN Mounted(Unstarted, app.state)
                 ELSE IF app.fresh THEN Mounted(board, app.state) ELSE board
    BY DEF Renders
  <1>5. ASSUME NEW b \in Board
        PROVE  /\ Mounted(b, app.state) \in Board
               /\ app.state # None => Mounted(b, app.state).room # None
               /\ b.room # None => Mounted(b, app.state).room # None
    <2>1. app.state # None => app.state.room \in RoomId /\ app.state.room # None
      BY <1>2, RoomAssumption
    <2>2. Mounted(b, app.state) \in Board
      BY <1>2, MountedTyped
    <2>3. app.state # None => Mounted(b, app.state).room = app.state.room
      BY DEF Mounted, Board
    <2>4. app.state = None => Mounted(b, app.state) = b
      BY DEF Mounted
    <2> QED BY <2>1, <2>2, <2>3, <2>4
  <1> QED BY <1>1, <1>3, <1>4, <1>5

LEMMA RendersMounting ==
  ASSUME Screen, Renders
  PROVE  Mounting'
  <1>1. shown'.phase = app.phase /\ (app.phase # "playing" => board' = None)
    BY DEF Renders, View
  <1> QED BY <1>1, RendersBoard, BoardIsMounted DEF Mounting

LEMMA ReloadsMounting ==
  ASSUME NEW u, Reloads(u)
  PROVE  Mounting'
  BY DEF Reloads, Loaded, View, Mounting

-----------------------------------------------------------------------------

\* How the page and its connections hang together.
Wired == Lines /\ TokenKept /\ Mounting

LEMMA InitWired == Init => Wired
  <1> SUFFICES ASSUME Init PROVE TokenKept /\ Mounting
    BY InitLines DEF Wired
  <1>1. app.token = client.token /\ app.phase = "reconnecting" /\ shown = View(app) /\ board = None
    BY DEF Init, Loaded
  <1> QED BY <1>1 DEF TokenKept, Mounting, View

LEMMA ProceedsWired ==
  ASSUME Inv, Screen, Wired, Proceeds
  PROVE  Wired'
  <1>1. \A t : Keyed(app, t) => Keyed(OnError(app), t)
    BY HandlersKeepTheToken
  <1>2. CASE Renders
    <2>1. up' = up \/ \E q \in Request : q.type # "AUTHENTICATE" /\ Send(q)
      BY <1>2, Requests DEF Renders, JoinsByURL, Inv, Keeps
    <2> QED BY <1>2, <2>1, SendsLines, RendersToken, RendersMounting DEF Renders, Wired
  <1>3. CASE FallsBack \/ Enters
    <2>1. UNCHANGED <<line, session, who, up, down, client, shown, board>>
      BY <1>3 DEF FallsBack, Enters, serverVars
    <2>2. \A t : Keyed(app, t) => Keyed(app', t)
      BY <1>3 DEF FallsBack, Enters, Keyed
    <2> QED BY <2>1, <2>2, SendsLines, TokenStays DEF Wired, Mounting
  <1>4. CASE Redials
    <2>1. app' = app /\ client'.token = client.token /\ shown' = shown /\ board' = board
      BY <1>4 DEF Redials, Inv, Client
    <2> QED BY <1>4, <2>1, RedialsLines DEF Wired, TokenKept, Mounting
  <1>5. ASSUME NEW s \in Socket, Opens(s) PROVE Wired'
    <2>1. \A t : Keyed(app, t) => Keyed(app', t)
      BY <1>5, HandlersKeepTheToken DEF Opens
    <2> QED BY <1>5, <2>1, OpensLines, TokenStays DEF Opens, Wired, Mounting
  <1>6. ASSUME NEW s \in Socket, Drops(s) PROVE Wired'
    <2>1. /\ Closed(s, app) \/ Closed(s, OnError(app))
          /\ session[s] # "open" /\ down[s] = <<>>
          /\ UNCHANGED <<session, who, up, down, shown, board>>
      BY <1>6 DEF Drops, serverVars
    <2> QED BY <1>1, <2>1, ClosedLines, ClosedToken DEF Wired, Mounting
  <1>7. ASSUME NEW s \in Socket, Hears(s) PROVE Wired'
    <2>1. \A t : Keyed(app, t) => Keyed(app', t)
      BY <1>7, HeardKeepsTheToken DEF Hears
    <2> QED BY <1>7, <2>1, HearsLines, TokenStays, HearsMounting DEF Hears, Wired
  <1> QED BY <1>2, <1>3, <1>4, <1>5, <1>6, <1>7 DEF Proceeds

LEMMA PersonWired ==
  ASSUME Inv, Wired, Person
  PROVE  Wired'
  <1>1. ASSUME NEW u, Reloads(u) PROVE Wired'
    BY <1>1, ReloadsLines, ReloadsToken, ReloadsMounting DEF Wired
  <1>2. CASE \/ SubmitsName \/ InitiatesOperation \/ TerminatesLink \/ Abandons \/ Returns
             \/ \E c \in Code : LinksToNetwork(c)
    <2>1. /\ UNCHANGED <<line, session, who, down, client, shown, board>>
          /\ up' = up \/ \E q \in Request : q.type # "AUTHENTICATE" /\ Send(q)
      BY <1>2, Requests DEF SubmitsName, InitiatesOperation, TerminatesLink, Abandons, Returns,
                            LinksToNetwork, Clicks
    <2> QED BY <1>2, <2>1, SendsLines, PersonToken DEF Wired, Mounting
  <1> QED BY <1>1, <1>2 DEF Person

LEMMA ServerWired ==
  ASSUME Inv, Wired, ServerNext, Apart
  PROVE  Wired'
  <1>1. TokenKept' /\ Mounting'
    BY DEF Apart, browserVars, Wired, TokenKept, Mounting
  <1>2. ASSUME NEW s \in Socket, ServerReceives(s) \/ ServerNotices(s) PROVE Lines'
    BY <1>2, ServerReceivesLines, ServerNoticesLines DEF Wired
  <1>3. ASSUME NEW k \in Peer, PeerActs(k) PROVE Lines'
    BY <1>3, ManagerStepLines DEF PeerActs, Wired
  <1>4. ASSUME NEW r \in RoomId, Play(r) \/ GameEnds(r) \/ RoomExpires(r) PROVE Lines'
    BY <1>4, ManagerStepLines DEF Play, GameEnds, RoomExpires, Wired
  <1> QED BY <1>1, <1>2, <1>3, <1>4 DEF ServerNext, Wired

LEMMA NextWired == Inv /\ Screen /\ Wired /\ [Next]_vars => Wired'
  <1> SUFFICES ASSUME Inv, Screen, Wired, [Next]_vars PROVE Wired'
    OBVIOUS
  <1>1. CASE UNCHANGED vars
    BY <1>1 DEF vars, serverVars, browserVars, Wired, Lines, TokenKept, Mounting
  <1>2. ASSUME NEW s \in Socket, Fails(s) PROVE Wired'
    <2>1. \A t : Keyed(app, t) => Keyed(OnError(app), t)
      BY HandlersKeepTheToken
    <2>2. Straight(line[s], session[s], who[s], up[s], down[s], client.token)
      BY DEF Wired, Lines
    <2>3. session[s] # "open" /\ down[s] = <<>>
      BY <1>2, <2>2 DEF Fails, Straight
    <2> QED BY <1>2, <2>1, <2>3, ClosedLines, ClosedToken DEF Fails, Wired, Mounting
  <1>3. ASSUME NEW s \in Socket, LinkBreaks(s) PROVE Wired'
    BY <1>3, LinkBreaksLines DEF LinkBreaks, Wired, TokenKept, Mounting
  <1> QED BY <1>1, <1>2, <1>3, ProceedsWired, PersonWired, ServerWired DEF Next, Apart

LEMMA WiredAlways == Spec => []Wired
  BY SpecInv, ScreenAlways, InitWired, NextWired, PTL DEF Spec

-----------------------------------------------------------------------------
(* The way back to the board of a room that runs.                          *)

\* Room r has had its guest; it will not wait again.
Begun(m, r) ==
  r \in RoomId /\ r <= m.issued /\ (m.rooms[r] # None => m.rooms[r].life # "waiting")

\* Player t is in the match of room r, which runs.
InMatch(m, r, t) ==
  r \in RoomId /\ m.rooms[r] # None /\ m.rooms[r].life = "running" /\ m.links[t] = r

LEMMA StepsBegun ==
  ASSUME NEW m, NEW n, Orderly(m), Orderly(n), Steps(m, n), NEW r, Begun(m, r)
  PROVE  Begun(n, r)
  <1>1. r \in Nat /\ m.issued \in Nat /\ n.issued \in Nat /\ r <= m.issued /\ r \in RoomId
    BY DEF Begun, RoomId, Orderly, Manager
  <1>2. CASE Touches(m, n)
    BY <1>1, <1>2 DEF Touches, GoesOn, Begun
  <1>3. ASSUME NEW k \in RoomId, Closes(m, n, k) PROVE Begun(n, r)
    BY <1>1, <1>3 DEF Closes, Begun
  <1>4. ASSUME NEW k \in RoomId, NEW p \in Player, LetsIn(m, n, k, p) PROVE Begun(n, r)
    BY <1>1, <1>4 DEF LetsIn, Begun
  <1>5. ASSUME NEW p \in Player, Founds(m, n, p) PROVE Begun(n, r)
    BY <1>1, <1>5 DEF Founds, Begun
  <1> QED BY <1>2, <1>3, <1>4, <1>5 DEF Steps

\* Whoever is in a match that had begun was in it before.
LEMMA StepsInMatch ==
  ASSUME NEW m, NEW n, Orderly(m), Steps(m, n), NEW r, Begun(m, r),
         NEW t \in Player, InMatch(n, r, t)
  PROVE  InMatch(m, r, t)
  <1>1. r \in RoomId /\ r # None /\ r <= m.issued /\ m.issued \in Nat /\ r \in Nat
    BY RoomAssumption DEF Begun, RoomId, Orderly, Manager
  <1>2. CASE Touches(m, n)
    BY <1>1, <1>2 DEF Touches, GoesOn, Unlinks, InMatch
  <1>3. ASSUME NEW k \in RoomId, Closes(m, n, k) PROVE InMatch(m, r, t)
    BY <1>1, <1>3 DEF Closes, Unlinks, InMatch
  <1>4. ASSUME NEW k \in RoomId, NEW p \in Player, LetsIn(m, n, k, p) PROVE InMatch(m, r, t)
    <2>1. k # r
      BY <1>4 DEF LetsIn, Begun
    <2> QED BY <1>1, <1>4, <2>1 DEF LetsIn, InMatch
  <1>5. ASSUME NEW p \in Player, Founds(m, n, p) PROVE InMatch(m, r, t)
    BY <1>1, <1>5 DEF Founds, InMatch
  <1> QED BY <1>2, <1>3, <1>4, <1>5 DEF Steps

-----------------------------------------------------------------------------
(* What a player in a running match is sent.                               *)

\* It is not sent away, nor told of a room it has not asked for.
Fit == {msg \in Message :
          \/ msg.type \in {"MATCH_START", "MATCH_STATE", "GAME_OVER"}
          \/ msg.type = "AUTHENTICATED" /\ msg.inMatch}

StartsWith(r, d) == d # <<>> /\ d[1].type = "MATCH_START" /\ d[1].room = r
StateIn(r, d) == \E i \in 1..Len(d) : d[i].type = "MATCH_STATE" /\ d[i].room = r

\* The match is sent again from its start.
Resumes(r, d) ==
  StartsWith(r, d) /\ Len(d) > 1 /\ d[2].type = "MATCH_STATE" /\ d[2].room = r

\* All that is sent to t is fit.
FitFor(t, out) == out \in Outs /\ out[t] \in Seq(Fit)

LEMMA FitKinds ==
  ASSUME NEW r \in RoomId
  PROVE  /\ \A c \in Code : Started(r, c) \in Fit
         /\ \A x : StateOf(r, x = "over") \in Fit
         /\ GameOver(r) \in Fit /\ Authenticated(TRUE) \in Fit
  <1>1. \A x : (x = "over") \in BOOLEAN
    OBVIOUS
  <1> QED BY <1>1, MessageKinds DEF Fit, Started, StateOf, GameOver, Authenticated

LEMMA NothingFit ==
  ASSUME NEW t \in Player
  PROVE  FitFor(t, Nothing)
  BY NothingSent DEF FitFor, Nothing

LEMMA SendToFit ==
  ASSUME NEW t \in Player, NEW out, FitFor(t, out), NEW p, NEW msg \in Message,
         p # t \/ msg \in Fit
  PROVE  FitFor(t, SendTo(out, p, msg))
  <1>1. SendTo(out, p, msg)[t] \in {out[t], Append(out[t], msg)} /\ out[t] \in Seq(Fit)
        /\ (p # t => SendTo(out, p, msg)[t] = out[t])
    BY DEF SendTo, FitFor
  <1>2. msg \in Fit => Append(out[t], msg) \in Seq(Fit)
    BY <1>1
  <1> QED BY <1>1, <1>2, SendToSent DEF FitFor

LEMMA SendBothFit ==
  ASSUME NEW t \in Player, NEW out, FitFor(t, out), NEW room, NEW msg \in Fit
  PROVE  FitFor(t, SendBoth(out, room, msg))
  <1>1. msg \in Message
    BY DEF Fit
  <1> QED BY <1>1, SendToFit DEF SendBoth

LEMMA BroadcastFit ==
  ASSUME NEW t \in Player, NEW out, FitFor(t, out), NEW room, NEW r \in RoomId
  PROVE  FitFor(t, Broadcast(out, room, r))
  BY FitKinds, SendBothFit DEF Broadcast

LEMMA SilentlyFit ==
  ASSUME NEW t \in Player, NEW m
  PROVE  FitFor(t, Silently(m).out)
  BY NothingFit DEF Silently, Done

LEMMA FinishFit ==
  ASSUME NEW t \in Player, NEW m, NEW r \in RoomId
  PROVE  FitFor(t, Finish(m, r).out)
  <1> DEFINE room == [m.rooms[r] EXCEPT !.life = "over"]
  <1> HIDE DEF room
  <1>1. FitFor(t, SendBoth(Nothing, room, GameOver(r)))
    BY NothingFit, SendBothFit, FitKinds
  <1>2. FitFor(t, Broadcast(SendBoth(Nothing, room, GameOver(r)), room, r))
    BY <1>1, BroadcastFit
  <1> QED BY <1>2 DEF Finish, Done, room

LEMMA EnterFit ==
  ASSUME NEW t \in Player, NEW m, NEW r \in RoomId, m.rooms[r] \in Room, NEW p, NEW c
  PROVE  FitFor(t, Enter(m, r, p, c).out)
  <1> DEFINE room == [m.rooms[r] EXCEPT !.beta = p, !.life = "running"]
  <1>1. room.code \in Code
    BY DEF Room
  <1> HIDE DEF room
  <1>2. FitFor(t, SendBoth(Nothing, room, Started(r, room.code)))
    BY <1>1, NothingFit, SendBothFit, FitKinds
  <1>3. FitFor(t, Broadcast(SendBoth(Nothing, room, Started(r, room.code)), room, r))
    BY <1>2, BroadcastFit
  <1> QED BY <1>3 DEF Enter, Done, room

\* Whoever comes back, to whichever room, if it is not t to a room that waits.
LEMMA ReconnectFit ==
  ASSUME NEW t \in Player, NEW m, Orderly(m), NEW r \in RoomId, m.rooms[r] # None,
         NEW p \in Player, p # t \/ m.rooms[r].life # "waiting"
  PROVE  FitFor(t, Reconnect(m, r, p).out)
  <1> DEFINE room == m.rooms[r]
             state == StateOf(r, room.life = "over")
             again == SendTo(SendTo(Nothing, p, Started(r, room.code)), p, state)
  <1>1. room.code \in Code
    BY DEF Orderly, Manager, Room
  <1>2. state \in Fit /\ state \in Message /\ Started(r, room.code) \in Fit
        /\ Started(r, room.code) \in Message /\ Created(r, room.code) \in Message
    BY <1>1, FitKinds, MessageKinds DEF Fit
  <1> HIDE DEF room, state
  <1>3. FitFor(t, SendTo(Nothing, p, Started(r, room.code)))
    BY <1>2, NothingFit, SendToFit
  <1>4. FitFor(t, again)
    BY <1>2, <1>3, SendToFit
  <1> HIDE DEF again
  <1>5. FitFor(t, SendTo(again, OpponentOf(room, p), state))
    BY <1>2, <1>4, SendToFit
  <1>6. p # t => FitFor(t, SendTo(Nothing, p, Created(r, room.code)))
    BY <1>2, NothingFit, SendToFit
  <1>7. Reconnect(m, r, p).out
          = IF room.life # "waiting" THEN SendTo(again, OpponentOf(room, p), state)
            ELSE IF p = room.alpha THEN SendTo(Nothing, p, Created(r, room.code))
            ELSE Nothing
    BY DEF Reconnect, Done, again, state, room
  <1> QED BY <1>5, <1>6, <1>7, NothingFit DEF room

LEMMA CreateMatchFit ==
  ASSUME NEW t \in Player, NEW m, Orderly(m), NEW p \in Player, p # t, NEW d \in CreateMatch(m, p)
  PROVE  FitFor(t, d.out)
  <1>1. FitFor(t, SendTo(Nothing, p, Refused))
    BY NothingFit, SendToFit DEF Refused, Message
  <1>2. ASSUME NEW c \in Code, m.issued < MaxRooms
        PROVE  FitFor(t, NewRoom(m, p, c).out)
    <2> DEFINE r == m.issued + 1
    <2>1. r \in RoomId
      BY <1>2, RoomAssumption DEF Orderly, Manager, RoomId
    <2> HIDE DEF r
    <2>2. FitFor(t, SendTo(Nothing, p, Created(r, c)))
      BY <2>1, NothingFit, SendToFit, MessageKinds
    <2> QED BY <2>2 DEF NewRoom, Done, r
  <1> QED BY <1>1, <1>2 DEF CreateMatch, Done

\* t itself may ask for any room: it is in a match.
LEMMA JoinMatchFit ==
  ASSUME NEW t \in Player, NEW m, Orderly(m), NEW p \in Player, NEW c \in Code,
         p # t \/ \E r : InMatch(m, r, t)
  PROVE  FitFor(t, JoinMatch(m, p, c).out)
  <1> DEFINE r == m.codes[c]
             free == Unlink(m, {p})
  <1>1. Exists(m, r) => r \in RoomId /\ m.rooms[r] \in Room /\ m.rooms[r] # None
                         /\ m.rooms[r].life = "waiting"
    BY OwnCode DEF Exists, Orderly, Manager
  <1>2. free.rooms = m.rooms
    BY UnlinkOrderly
  <1>3. p = t => InActiveRoom(m, p) /\ (Exists(m, r) => r # m.links[p])
    BY <1>1 DEF InMatch, InActiveRoom, Exists, Over
  <1>4. JoinMatch(m, p, c) = IF m.links[p] # None /\ r = m.links[p]
                             THEN IF Exists(m, r) THEN Reconnect(m, r, p) ELSE Silently(m)
                             ELSE IF InActiveRoom(m, p) THEN Silently(m)
                             ELSE IF Exists(m, r) /\ m.rooms[r].beta = None THEN Enter(free, r, p, c)
                             ELSE Done(free, SendTo(Nothing, p, Refused))
    BY DEF JoinMatch
  <1> HIDE DEF r, free
  <1>5. Exists(m, r) => FitFor(t, Enter(free, r, p, c).out)
    BY <1>1, <1>2, EnterFit
  <1>6. Exists(m, r) /\ p # t => FitFor(t, Reconnect(m, r, p).out)
    BY <1>1, ReconnectFit
  <1>7. p # t => FitFor(t, Done(free, SendTo(Nothing, p, Refused)).out)
    BY NothingFit, SendToFit DEF Refused, Message, Done
  <1> QED BY <1>3, <1>4, <1>5, <1>6, <1>7, SilentlyFit

LEMMA AbortMatchFit ==
  ASSUME NEW t \in Player, NEW m, NEW p
  PROVE  FitFor(t, AbortMatch(m, p).out)
  <1> DEFINE r == m.links[p]
             ended == IF m.rooms[r].life = "over" THEN Silently(m) ELSE Finish(m, r)
  <1>1. Exists(m, r) => FitFor(t, ended.out)
    BY SilentlyFit, FinishFit DEF Exists
  <1>2. r # None /\ Exists(m, r) => AbortMatch(m, p).out = ended.out
    BY DEF AbortMatch, Done
  <1>3. r = None \/ ~Exists(m, r) => FitFor(t, AbortMatch(m, p).out)
    BY SilentlyFit DEF AbortMatch
  <1> QED BY <1>1, <1>2, <1>3

LEMMA LeaveMatchFit ==
  ASSUME NEW t \in Player, NEW m, NEW p
  PROVE  FitFor(t, LeaveMatch(m, p).out) /\ FitFor(t, RemovePlayer(m, p).out)
  BY SilentlyFit DEF LeaveMatch, RemovePlayer, Disconnect

\* Another player identifies itself.
LEMMA IdentifiedFit ==
  ASSUME Orderly(mgr), NEW t \in Player, NEW p \in Player, p # t
  PROVE  FitFor(t, Identified(p).out)
  <1> DEFINE known == Exists(mgr, mgr.links[p])
             back == IF known THEN Reconnect(mgr, mgr.links[p], p) ELSE Silently(mgr)
  <1>1. FitFor(t, back.out)
    BY ReconnectFit, SilentlyFit DEF Exists
  <1>2. PICK in \in BOOLEAN : in = known
    BY DEF Exists
  <1> HIDE DEF known, back
  <1>3. Authenticated(in) \in Message
    BY DEF Authenticated, Message
  <1>4. Identified(p).out = SendTo(back.out, p, Authenticated(in))
    BY <1>2 DEF Identified, Done, known, back
  <1> QED BY <1>1, <1>3, <1>4, SendToFit

\* What has been sent is not taken back.
LEMMA SentLater ==
  ASSUME NEW r, NEW d \in Seq(Fit), NEW v \in Seq(Fit)
  PROVE  /\ d \o v \in Seq(Fit)
         /\ StartsWith(r, d) => StartsWith(r, d \o v)
         /\ Resumes(r, d) => Resumes(r, d \o v)
         /\ StateIn(r, d) => StateIn(r, d \o v)
  <1>1. /\ Len(d \o v) = Len(d) + Len(v) /\ Len(d) \in Nat /\ Len(v) \in Nat
        /\ \A i \in 1..Len(d) : (d \o v)[i] = d[i] /\ i \in 1..Len(d \o v)
        /\ d \o v \in Seq(Fit)
    OBVIOUS
  <1>2. d # <<>> => Len(d) >= 1 /\ d \o v # <<>> /\ (d \o v)[1] = d[1]
    <2>1. d # <<>> => Len(d) >= 1
      OBVIOUS
    <2>2. Len(d) >= 1 => Len(d \o v) >= 1 /\ 1 \in 1..Len(d)
      BY <1>1
    <2> QED BY <1>1, <2>1, <2>2
  <1>3. Len(d) > 1 => Len(d \o v) > 1 /\ (d \o v)[2] = d[2]
    BY <1>1
  <1>4. StateIn(r, d) => StateIn(r, d \o v)
    BY <1>1 DEF StateIn
  <1> QED BY <1>1, <1>2, <1>3, <1>4 DEF StartsWith, Resumes

LEMMA ResumesLater ==
  ASSUME NEW r, NEW d \in Seq(Fit), Resumes(r, d), NEW msg \in Fit
  PROVE  Append(d, msg) \in Seq(Fit) /\ Resumes(r, Append(d, msg))
  <1>1. /\ Len(d) \in Nat /\ Len(Append(d, msg)) = Len(d) + 1 /\ Append(d, msg) # <<>>
        /\ \A i \in 1..Len(d) : Append(d, msg)[i] = d[i]
        /\ Append(d, msg) \in Seq(Fit)
    OBVIOUS
  <1>2. Len(d) > 1 => 1 \in 1..Len(d) /\ 2 \in 1..Len(d)
    BY <1>1
  <1> QED BY <1>1, <1>2 DEF Resumes, StartsWith

\* A player that identifies itself is sent its match again.
LEMMA IdentifiedResumes ==
  ASSUME Orderly(mgr), NEW t \in Player, NEW r, InMatch(mgr, r, t)
  PROVE  Identified(t).out[t] \in Seq(Fit) /\ Resumes(r, Identified(t).out[t])
  <1> DEFINE room == mgr.rooms[r]
             state == StateOf(r, room.life = "over")
             again == SendTo(SendTo(Nothing, t, Started(r, room.code)), t, state)
             back == SendTo(again, OpponentOf(room, t), state)
  <1>1. mgr.links[t] = r /\ r \in RoomId /\ room # None /\ room.life = "running" /\ room.code \in Code
    BY DEF InMatch, Orderly, Manager, Room
  <1>2. Exists(mgr, r) = TRUE
    BY <1>1 DEF Exists
  <1>3. Identified(t).out = SendTo(back, t, Authenticated(TRUE))
    BY <1>1, <1>2 DEF Identified, Reconnect, Done
  <1> DEFINE a == Started(r, room.code)
             z == Authenticated(TRUE)
  <1>4. /\ a \in Fit /\ state \in Fit /\ z \in Fit
        /\ a.type = "MATCH_START" /\ a.room = r
        /\ state.type = "MATCH_STATE" /\ state.room = r
    BY <1>1, FitKinds DEF Started, StateOf
  <1> HIDE DEF a, z, state
  <1>5. again[t] = <<a, state>>
    <2> DEFINE one == SendTo(Nothing, t, a)
    <2>1. one[t] = <<a>>
      <3>1. Nothing[t] = <<>> /\ Append(<<>>, a) = <<a>>
        BY <1>4 DEF Nothing
      <3>2. one[t] = Append(Nothing[t], a)
        BY DEF SendTo
      <3> QED BY <3>1, <3>2
    <2>2. again = SendTo(one, t, state)
      BY DEF a
    <2> HIDE DEF one, again
    <2>3. again[t] = Append(<<a>>, state)
      BY <2>1, <2>2 DEF SendTo
    <2> DEFINE u == Append(<<a>>, state)
    <2>4. u \in Seq(Fit) /\ Len(u) = 2 /\ u[1] = a /\ u[2] = state
      BY <1>4
    <2> HIDE DEF u
    <2>5. u = <<a, state>>
      BY <2>4
    <2> QED BY <2>3, <2>5 DEF u
  <1> HIDE DEF again
  <1>6. back[t] \in {again[t], Append(again[t], state)}
    BY DEF SendTo
  <1> HIDE DEF back
  <1>7. Identified(t).out[t] = Append(back[t], z)
    BY <1>3 DEF SendTo, z
  <1>8. Resumes(r, <<a, state>>) /\ <<a, state>> \in Seq(Fit)
    BY <1>4 DEF Resumes, StartsWith
  <1>9. back[t] \in Seq(Fit) /\ Resumes(r, back[t])
    BY <1>4, <1>5, <1>6, <1>8, ResumesLater
  <1> QED BY <1>4, <1>7, <1>9, ResumesLater

-----------------------------------------------------------------------------
(* The page of a player in a running match.                                *)

\* The board knows its room or will, as soon as the page is rendered.
Ready(a, b) ==
  \/ b # None /\ b.room # None
  \/ a.state # None /\ (a.fresh \/ b = None)

\* Page a with board b is on the board of r, or what it needs to get there is on its way.
OnItsWay(r, a, b, d) ==
  \/ a.phase = "playing" /\ a.ref = r /\ (Ready(a, b) \/ StateIn(r, d))
  \/ Resumes(r, d)

\* The same over a connection whose session se speaks for w and with the messages d on
\* their way: a page without a session takes the first match it hears of for its own,
\* so that must be r.
Fine(r, a, b, se, w, d) ==
  /\ d \in Seq(Fit)
  /\ a.ref = None => d = <<>> \/ StartsWith(r, d)
  /\ a.ref \in {None, r} /\ se = "open" /\ w # None => OnItsWay(r, a, b, d)

\* Nothing the page has set or asked for takes it elsewhere.
Steady(r, a) ==
  /\ ~a.naming /\ a.ref # Clearing
  /\ (a.url # None => a.url.room = r) => a.ref \in {None, r}

Harmless(u) == \A i \in 1..Len(u) : u[i].type \in {"AUTHENTICATE", "JOIN_MATCH"}

Safe(r) ==
  /\ Steady(r, app)
  /\ \A s \in Socket : Harmless(up[s])
  /\ \A s \in Socket : line[s] # "none" => Fine(r, app, board, session[s], who[s], down[s])

LEMMA FineAppended ==
  ASSUME NEW r \in RoomId, NEW a, NEW b, NEW se, NEW w, NEW d, Fine(r, a, b, se, w, d),
         NEW v \in Seq(Fit), se = "open", w # None
  PROVE  Fine(r, a, b, se, w, d \o v)
  <1>1. r # None /\ d \in Seq(Fit)
    BY RoomAssumption DEF Fine
  <1>2. a.ref = None => StartsWith(r, d)
    BY <1>1 DEF Fine, OnItsWay, Resumes
  <1> QED BY <1>1, <1>2, SentLater DEF Fine, OnItsWay

LEMMA FineArrives ==
  ASSUME NEW r, NEW a, NEW b, NEW se, NEW w, NEW v \in Seq(Fit), Resumes(r, v)
  PROVE  Fine(r, a, b, se, w, <<>> \o v)
  <1>1. <<>> \o v = v
    OBVIOUS
  <1> QED BY <1>1 DEF Fine, OnItsWay, Resumes

\* What is asked of a session that is not open, or does not know its player.
LEMMA FineUnheard ==
  ASSUME NEW r, NEW a, NEW b, NEW se, NEW w, NEW d, Fine(r, a, b, se, w, d),
         NEW f, NEW x, f # "open" \/ x = None
  PROVE  Fine(r, a, b, f, x, d)
  BY DEF Fine

LEMMA FineCut ==
  ASSUME NEW r, NEW a, NEW b, NEW se, NEW w, NEW d, Fine(r, a, b, se, w, d),
         NEW n \in 0..Len(d), NEW f, f # "open"
  PROVE  Fine(r, a, b, f, w, SubSeq(d, 1, n))
  <1>1. d \in Seq(Fit) /\ Len(d) \in Nat /\ n \in Nat /\ n <= Len(d)
    BY DEF Fine
  <1>2. /\ SubSeq(d, 1, n) \in Seq(Fit) /\ Len(SubSeq(d, 1, n)) = n
        /\ \A i \in 1..n : SubSeq(d, 1, n)[i] = d[i]
    BY <1>1
  <1>3. SubSeq(d, 1, n) = <<>> \/ (n >= 1 /\ d # <<>> /\ SubSeq(d, 1, n)[1] = d[1])
    <2>1. n = 0 => SubSeq(d, 1, n) = <<>>
      BY <1>2
    <2>2. n >= 1 => d # <<>> /\ 1 \in 1..n
      BY <1>1
    <2> QED BY <1>1, <1>2, <2>1, <2>2
  <1> QED BY <1>2, <1>3 DEF Fine, StartsWith

-----------------------------------------------------------------------------
(* What the page makes of these messages.                                  *)

\* The page keeps its session, and what is going to be on its board.
Alike(a, b) == b.naming = a.naming /\ b.ref = a.ref /\ b.url = a.url
SameWay(a, b) ==
  /\ Alike(a, b) /\ b.state = a.state /\ b.fresh = a.fresh
  /\ a.phase = "playing" => b.phase = "playing"

LEMMA SteadyStays ==
  ASSUME NEW r, NEW a, NEW b, Steady(r, a), Alike(a, b)
  PROVE  Steady(r, b)
  BY DEF Steady, Alike

LEMMA FineStays ==
  ASSUME NEW r, NEW a, NEW c, NEW b, NEW se, NEW w, NEW d, Fine(r, a, b, se, w, d), SameWay(a, c)
  PROVE  Fine(r, c, b, se, w, d)
  BY DEF Fine, OnItsWay, Ready, SameWay, Alike

LEMMA TimedSame == \A a \in App : SameWay(a, Timed(a))
  BY DEF App, Timed, SameWay, Alike

LEMMA HeardAuthenticated ==
  ASSUME NEW a \in App, NEW msg \in Message, msg.type = "AUTHENTICATED", msg.inMatch
  PROVE  SameWay(a, Heard(a, msg))
  <1> DEFINE b == OnAuthenticated(a, msg.inMatch)
  <1>1. b \in App
    BY MessageFields, OnAuthenticatedFollows DEF Follows
  <1>2. SameWay(a, b)
    BY DEF OnAuthenticated, App, SameWay, Alike
  <1>3. Heard(a, msg) = Timed(b)
    BY DEF Heard
  <1> HIDE DEF b
  <1> QED BY <1>1, <1>2, <1>3, TimedSame DEF SameWay, Alike

LEMMA HeardOver ==
  ASSUME NEW a \in App, NEW msg, msg.type = "GAME_OVER"
  PROVE  SameWay(a, Heard(a, msg))
  BY TimedSame DEF Heard

\* MATCH_START is taken unless the page has another session.
Begins(a, b, k) ==
  /\ b.ref = k /\ b.url # None /\ b.url.room = k
  /\ b.phase = "playing" /\ b.fresh /\ b.state = a.state /\ b.naming = a.naming

LEMMA HeardStart ==
  ASSUME NEW a \in App, NEW msg \in Message, msg.type = "MATCH_START"
  PROVE  IF a.ref \in RoomId \ {msg.room} THEN SameWay(a, Heard(a, msg))
         ELSE Begins(a, Heard(a, msg), msg.room)
  <1> DEFINE k == msg.room
             u == [room |-> k, code |-> msg.code]
             b == OnStart(a, k, msg.code)
  <1>1. k \in RoomId /\ msg.code \in Code /\ u \in Link
    BY MessageFields DEF Link
  <1>2. u # None /\ u.room = k
    BY <1>1, BrowserAssumption DEF Link
  <1>3. b \in App
    BY <1>1, OnStartFollows DEF Follows
  <1>4. Heard(a, msg) = Timed(b)
    BY DEF Heard
  <1> HIDE DEF u
  <1>5. IF a.ref \in RoomId \ {k} THEN b = a ELSE Begins(a, b, k)
    BY <1>2 DEF OnStart, App, Begins, u
  <1>6. SameWay(b, Timed(b))
    BY <1>3, TimedSame
  <1> HIDE DEF b, k
  <1> QED BY <1>4, <1>5, <1>6 DEF SameWay, Alike, Begins, k

\* MATCH_STATE is taken unless the page has another session or has left one.
Updates(a, b, k) ==
  /\ b.ref = k /\ b.url = a.url /\ b.state # None /\ b.fresh /\ b.naming = a.naming
  /\ a.phase = "playing" => b.phase = "playing"

LEMMA HeardState ==
  ASSUME NEW a \in App, NEW msg \in Message, msg.type = "MATCH_STATE"
  PROVE  IF a.ref \in {Clearing} \cup (RoomId \ {msg.room}) THEN SameWay(a, Heard(a, msg))
         ELSE Updates(a, Heard(a, msg), msg.room)
  <1> DEFINE k == msg.room
             z == [room |-> k, over |-> msg.over]
             b == OnState(a, k, msg.over)
  <1>1. k \in RoomId /\ msg.over \in BOOLEAN
    BY MessageFields
  <1>2. z # None
    BY <1>1, BrowserAssumption
  <1>3. b \in App
    BY <1>1, OnStateFollows DEF Follows
  <1>4. Heard(a, msg) = Timed(b)
    BY DEF Heard
  <1> HIDE DEF z
  <1>5. IF a.ref \in {Clearing} \cup (RoomId \ {k}) THEN b = a ELSE Updates(a, b, k)
    BY <1>2 DEF OnState, App, Updates, z
  <1>6. SameWay(b, Timed(b))
    BY <1>3, TimedSame
  <1> HIDE DEF b, k
  <1> QED BY <1>4, <1>5, <1>6 DEF SameWay, Alike, Updates, k

\* What the first message is, and what is left.
LEMMA HeadAndTail ==
  ASSUME NEW r, NEW d \in Seq(Fit), d # <<>>
  PROVE  /\ Head(d) \in Fit /\ Tail(d) \in Seq(Fit)
         /\ StartsWith(r, d) => Head(d).type = "MATCH_START" /\ Head(d).room = r
         /\ Resumes(r, d) => StartsWith(r, d) /\ StateIn(r, Tail(d))
         /\ StateIn(r, d) => \/ Head(d).type = "MATCH_STATE" /\ Head(d).room = r
                             \/ StateIn(r, Tail(d))
  <1>1. /\ Head(d) = d[1] /\ Head(d) \in Fit /\ Tail(d) \in Seq(Fit)
        /\ Len(d) \in Nat /\ Len(Tail(d)) = Len(d) - 1
        /\ \A i \in 1..Len(Tail(d)) : Tail(d)[i] = d[i + 1]
    OBVIOUS
  <1>2. \A i \in 1..Len(d) : i = 1 \/ (i - 1 \in 1..Len(Tail(d)) /\ Tail(d)[i - 1] = d[i])
    <2> SUFFICES ASSUME NEW i \in 1..Len(d), i # 1
                 PROVE  i - 1 \in 1..Len(Tail(d)) /\ Tail(d)[i - 1] = d[i]
      OBVIOUS
    <2>1. i - 1 \in 1..Len(Tail(d)) /\ (i - 1) + 1 = i
      BY <1>1
    <2> QED BY <1>1, <2>1
  <1>3. Len(d) > 1 => 1 \in 1..Len(Tail(d)) /\ Tail(d)[1] = d[2]
    <2>1. Len(d) > 1 => 1 \in 1..Len(Tail(d)) /\ 1 + 1 = 2
      BY <1>1
    <2> QED BY <1>1, <2>1
  <1> QED BY <1>1, <1>2, <1>3 DEF StartsWith, Resumes, StateIn

LEMMA HeardSteady ==
  ASSUME NEW r \in RoomId, NEW a \in App, Steady(r, a), NEW msg \in Fit,
         a.ref = None => msg.type = "MATCH_START" /\ msg.room = r
  PROVE  /\ Steady(r, Heard(a, msg)) /\ Heard(a, msg).ref # None
         /\ Heard(a, msg).ref = r => a.ref \in {None, r}
  <1> DEFINE b == Heard(a, msg)
  <1>1. /\ msg \in Message /\ r # None /\ r # Clearing
        /\ msg.type \in {"MATCH_START", "MATCH_STATE", "GAME_OVER", "AUTHENTICATED"}
        /\ msg.type = "AUTHENTICATED" => msg.inMatch
        /\ msg.type \in {"MATCH_START", "MATCH_STATE"} =>
             msg.room \in RoomId /\ msg.room # None /\ msg.room # Clearing
    BY MessageFields, RoomAssumption, BrowserAssumption DEF Fit
  <1>2. a.ref \in RoomId \cup {None}
    BY DEF Steady, App
  <1> HIDE DEF b
  <1>3. CASE SameWay(a, b) /\ a.ref # None
    BY <1>3, SteadyStays DEF SameWay, Alike, b
  <1>4. CASE msg.type = "MATCH_START" /\ Begins(a, b, msg.room)
    <2>1. a.ref # None => a.ref = msg.room \/ a.ref \in RoomId \ {msg.room}
      BY <1>2
    <2>2. CASE a.ref = None \/ a.ref = msg.room
      BY <1>1, <1>4, <2>2 DEF Begins, Steady, b
    <2>3. CASE a.ref \in RoomId \ {msg.room}
      <3>1. SameWay(a, b) /\ a.ref # None
        BY <1>1, <1>4, <2>3, HeardStart, RoomAssumption DEF b
      <3> QED BY <3>1, <1>3
    <2> QED BY <2>1, <2>2, <2>3
  <1>5. CASE msg.type = "MATCH_STATE" /\ Updates(a, b, msg.room)
    <2>1. CASE a.ref = msg.room
      BY <1>1, <1>5, <2>1 DEF Updates, Steady, b
    <2>2. CASE a.ref \in RoomId \ {msg.room}
      <3>1. SameWay(a, b) /\ a.ref # None
        BY <1>1, <1>5, <2>2, HeardState, RoomAssumption DEF b
      <3> QED BY <3>1, <1>3
    <2> QED BY <1>2, <1>5, <2>1, <2>2
  <1>6. msg.type # "MATCH_START" => a.ref # None
    OBVIOUS
  <1>7. CASE msg.type \in {"AUTHENTICATED", "GAME_OVER"}
    BY <1>1, <1>3, <1>6, <1>7, HeardAuthenticated, HeardOver DEF b
  <1>8. CASE msg.type = "MATCH_START"
    <2>1. (SameWay(a, b) /\ a.ref \in RoomId) \/ Begins(a, b, msg.room)
      BY <1>1, <1>8, HeardStart DEF b
    <2>2. \A k \in RoomId : k # None
      BY RoomAssumption
    <2> QED BY <1>3, <1>4, <1>8, <2>1, <2>2
  <1>9. CASE msg.type = "MATCH_STATE"
    <2>1. SameWay(a, b) \/ Updates(a, b, msg.room)
      BY <1>1, <1>9, HeardState DEF b
    <2> QED BY <1>3, <1>5, <1>6, <1>9, <2>1
  <1> QED BY <1>1, <1>7, <1>8, <1>9

\* What the board makes of a message.
LEMMA BoardHears ==
  ASSUME NEW b \in Board \cup {None}, NEW msg \in Message
  PROVE  LET c == BoardHeard(b, msg) IN
         /\ c = None <=> b = None
         /\ b # None /\ b.room # None => c.room # None
         /\ b # None /\ msg.type = "MATCH_STATE" => c.room # None
  <1>1. CASE b = None
    BY <1>1 DEF BoardHeard
  <1>2. CASE b # None
    <2>1. b \in Board /\ BoardHeard(b, msg) # None
      BY <1>2, BoardStays, BoardIsMounted
    <2>2. msg.type = "MATCH_STATE" => msg.room # None
      BY MessageFields, RoomAssumption
    <2>3. BoardHeard(b, msg) = CASE msg.type = "MATCH_STATE" -> [b EXCEPT !.room = msg.room]
                                 [] msg.type = "GAME_OVER"   -> [b EXCEPT !.over = TRUE]
                                 [] OTHER                    -> b
      BY <1>2 DEF BoardHeard
    <2>4. CASE msg.type = "MATCH_STATE"
      BY <1>2, <2>1, <2>2, <2>3, <2>4 DEF Board
    <2>5. CASE msg.type # "MATCH_STATE"
      BY <1>2, <2>1, <2>3, <2>5 DEF Board
    <2> QED BY <2>4, <2>5
  <1> QED BY <1>1, <1>2

\* The first message brings the page on its way, or leaves it there.
LEMMA HeardOnItsWay ==
  ASSUME NEW r \in RoomId, NEW a \in App, NEW b \in Board \cup {None},
         NEW d \in Seq(Fit), d # <<>>, a.ref \in {None, r}, a.ref = None => StartsWith(r, d),
         OnItsWay(r, a, b, d)
  PROVE  OnItsWay(r, Heard(a, Head(d)), BoardHeard(b, Head(d)), Tail(d))
  <1> DEFINE msg == Head(d)
             v == Tail(d)
             n == Heard(a, msg)
             c == BoardHeard(b, msg)
  <1>1. /\ msg \in Fit /\ msg \in Message
        /\ StartsWith(r, d) => msg.type = "MATCH_START" /\ msg.room = r
        /\ Resumes(r, d) => StartsWith(r, d) /\ StateIn(r, v)
        /\ StateIn(r, d) => (msg.type = "MATCH_STATE" /\ msg.room = r) \/ StateIn(r, v)
    BY HeadAndTail DEF Fit
  <1>2. /\ c = None <=> b = None
        /\ b # None /\ b.room # None => c.room # None
        /\ b # None /\ msg.type = "MATCH_STATE" => c.room # None
    BY <1>1, BoardHears
  <1>3. /\ r # None /\ r # Clearing
        /\ msg.type \in {"MATCH_START", "MATCH_STATE", "GAME_OVER", "AUTHENTICATED"}
        /\ msg.type = "AUTHENTICATED" => msg.inMatch
        /\ msg.type \in {"MATCH_START", "MATCH_STATE"} => msg.room \in RoomId
    BY <1>1, MessageFields, RoomAssumption, BrowserAssumption DEF Fit
  <1>4. msg.type = "MATCH_START" =>
          IF a.ref \in RoomId \ {msg.room} THEN SameWay(a, n) ELSE Begins(a, n, msg.room)
    BY <1>1, HeardStart
  <1>5. msg.type = "MATCH_STATE" =>
          IF a.ref \in {Clearing} \cup (RoomId \ {msg.room}) THEN SameWay(a, n)
          ELSE Updates(a, n, msg.room)
    BY <1>1, HeardState
  <1>6. msg.type \in {"AUTHENTICATED", "GAME_OVER"} => SameWay(a, n)
    BY <1>1, <1>3, HeardAuthenticated, HeardOver
  <1> HIDE DEF msg, v, n, c
  <1>7. CASE Resumes(r, d)
    <2>1. Begins(a, n, r) /\ StateIn(r, v)
      BY <1>1, <1>4, <1>7, RoomAssumption
    <2> QED BY <2>1 DEF Begins, OnItsWay, msg, v, n, c
  <1>8. CASE a.phase = "playing" /\ a.ref = r /\ (Ready(a, b) \/ StateIn(r, d))
    <2>1. CASE SameWay(a, n)
      <3>1. n.phase = "playing" /\ n.ref = r /\ (Ready(a, b) => Ready(n, c))
        BY <1>2, <1>8, <2>1 DEF SameWay, Alike, Ready
      <3>2. CASE StateIn(r, d) /\ ~StateIn(r, v)
        <4>1. msg.type = "MATCH_STATE" /\ msg.room = r
          BY <1>1, <3>2
        <4>2. Updates(a, n, r)
          BY <1>3, <1>5, <1>8, <4>1
        <4>3. Ready(n, c)
          BY <4>2 DEF Updates, Ready
        <4> QED BY <3>1, <4>3 DEF OnItsWay, msg, v, n, c
      <3> QED BY <1>8, <3>1, <3>2 DEF OnItsWay, msg, v, n, c
    <2>2. CASE msg.type = "MATCH_START" /\ Begins(a, n, msg.room) /\ ~SameWay(a, n)
      <3>1. msg.room = r
        BY <1>3, <1>4, <1>8, <2>2
      <3>2. StateIn(r, d) => StateIn(r, v)
        BY <1>1, <2>2
      <3>3. Ready(a, b) => Ready(n, c)
        BY <1>2, <2>2 DEF Begins, Ready
      <3>4. n.phase = "playing" /\ n.ref = r
        BY <2>2, <3>1 DEF Begins
      <3> QED BY <1>8, <3>2, <3>3, <3>4 DEF OnItsWay, msg, v, n, c
    <2>3. CASE msg.type = "MATCH_STATE" /\ Updates(a, n, msg.room) /\ ~SameWay(a, n)
      <3>1. msg.room = r
        BY <1>3, <1>5, <1>8, <2>3
      <3>2. Ready(n, c) /\ n.phase = "playing" /\ n.ref = r
        BY <1>8, <2>3, <3>1 DEF Updates, Ready
      <3> QED BY <3>2 DEF OnItsWay, msg, v, n, c
    <2> QED BY <1>3, <1>4, <1>5, <1>6, <2>1, <2>2, <2>3
  <1> QED BY <1>7, <1>8 DEF OnItsWay

\* The page stays fine over its connection when it hears what comes first.
LEMMA FineHears ==
  ASSUME NEW r \in RoomId, NEW a \in App, NEW b \in Board \cup {None}, NEW se, NEW w, NEW d,
         d # <<>>, Steady(r, a), Fine(r, a, b, se, w, d)
  PROVE  /\ Steady(r, Heard(a, Head(d)))
         /\ Fine(r, Heard(a, Head(d)), BoardHeard(b, Head(d)), se, w, Tail(d))
  <1>1. d \in Seq(Fit) /\ (a.ref = None => StartsWith(r, d))
    BY DEF Fine
  <1>2. /\ Head(d) \in Fit /\ Tail(d) \in Seq(Fit)
        /\ StartsWith(r, d) => Head(d).type = "MATCH_START" /\ Head(d).room = r
    BY <1>1, HeadAndTail
  <1>3. /\ Steady(r, Heard(a, Head(d))) /\ Heard(a, Head(d)).ref # None
        /\ Heard(a, Head(d)).ref = r => a.ref \in {None, r}
    BY <1>1, <1>2, HeardSteady
  <1>4. Heard(a, Head(d)).ref = r /\ se = "open" /\ w # None =>
          OnItsWay(r, Heard(a, Head(d)), BoardHeard(b, Head(d)), Tail(d))
    BY <1>1, <1>3, HeardOnItsWay DEF Fine
  <1> QED BY <1>2, <1>3, <1>4 DEF Fine

-----------------------------------------------------------------------------
(* While the server works.                                                 *)

\* The connection s after a step of the server: nothing new for an open session, more
\* of what is fit, or the match from its start for a session that now knows its player.
Grows(r, s) ==
  \/ /\ down'[s] = down[s]
     /\ session'[s] # "open" \/ (session'[s] = session[s] /\ who'[s] = who[s])
  \/ /\ session'[s] = session[s] /\ session[s] = "open" /\ who'[s] = who[s] /\ who[s] # None
     /\ \E v \in Seq(Fit) : down'[s] = down[s] \o v
  \/ \E v \in Seq(Fit) : down'[s] = <<>> \o v /\ Resumes(r, v)

LEMMA ServerStepSafe ==
  ASSUME NEW r \in RoomId, Safe(r), Apart, \A s \in Socket : Harmless(up'[s]),
         \A s \in Socket : line[s] # "none" => Grows(r, s)
  PROVE  Safe(r)'
  <1>1. app' = app /\ board' = board /\ line' = line
    BY DEF Apart, browserVars
  <1>2. Steady(r, app')
    BY <1>1 DEF Safe
  <1>3. ASSUME NEW s \in Socket, line[s] # "none"
        PROVE  Fine(r, app, board, session'[s], who'[s], down'[s])
    <2>1. Fine(r, app, board, session[s], who[s], down[s]) /\ Grows(r, s)
      BY <1>3 DEF Safe
    <2>2. CASE /\ down'[s] = down[s]
               /\ session'[s] # "open" \/ (session'[s] = session[s] /\ who'[s] = who[s])
      BY <2>1, <2>2, FineUnheard
    <2>3. CASE /\ session'[s] = session[s] /\ session[s] = "open" /\ who'[s] = who[s] /\ who[s] # None
               /\ \E v \in Seq(Fit) : down'[s] = down[s] \o v
      BY <2>1, <2>3, FineAppended
    <2>4. CASE \E v \in Seq(Fit) : down'[s] = <<>> \o v /\ Resumes(r, v)
      BY <2>4, FineArrives
    <2> QED BY <2>1, <2>2, <2>3, <2>4 DEF Grows
  <1> QED BY <1>1, <1>2, <1>3 DEF Safe

\* What the registry sends the page is sent to its own player.
LEMMA DeliverGrows ==
  ASSUME Inv, Lines, NEW r, NEW reg, NEW out, Deliver(reg, out), FitFor(client.token, out),
         NEW s \in Socket, line[s] # "none",
         session'[s] = session[s], who'[s] = who[s],
         \A k \in Player : reg[k] = s => registry[k] = s
  PROVE  Grows(r, s)
  <1>1. CASE down'[s] = down[s]
    BY <1>1 DEF Grows
  <1>2. CASE down'[s] # down[s]
    <2>1. session[s] = "open" /\ Listeners(reg, s) # {}
      BY <1>2 DEF Deliver
    <2>2. PICK k \in Player :
            k = (CHOOSE p \in Listeners(reg, s) : TRUE) /\ k \in Listeners(reg, s)
      BY <2>1 DEF Listeners
    <2>3. down'[s] = down[s] \o out[k] /\ reg[k] = s
      BY <2>1, <2>2 DEF Deliver, Listeners
    <2>4. who[s] = k
      BY <2>3, NobodyIsNoPlayer DEF Inv, RegistrySound
    <2>5. Straight(line[s], session[s], who[s], up[s], down[s], client.token)
      BY DEF Lines
    <2>6. k = client.token /\ who[s] # None
      BY <2>4, <2>5, NobodyIsNoPlayer DEF Straight
    <2> QED BY <2>1, <2>3, <2>6 DEF Grows, FitFor
  <1> QED BY <1>1, <1>2

\* The other players, the games and the clock.
LEMMA ManagerStepSafe ==
  ASSUME Inv, Lines, NEW r \in RoomId, Safe(r), Apart, UNCHANGED <<registry, session, who, up>>,
         down' = down \/ \E out : FitFor(client.token, out) /\ Deliver(registry, out)
  PROVE  Safe(r)'
  <1>1. \A s \in Socket : Harmless(up'[s])
    BY DEF Safe
  <1>2. ASSUME NEW s \in Socket, line[s] # "none" PROVE Grows(r, s)
    <2>1. CASE down' = down
      BY <2>1 DEF Grows
    <2>2. ASSUME NEW out, FitFor(client.token, out), Deliver(registry, out) PROVE Grows(r, s)
      BY <1>2, <2>2, DeliverGrows
    <2> QED BY <2>1, <2>2
  <1> QED BY <1>1, <1>2, ServerStepSafe

LEMMA PeerActsSafe ==
  ASSUME Inv, Lines, NEW r \in RoomId, InMatch(mgr, r, client.token), Safe(r), Apart,
         NEW k \in Peer, PeerActs(k)
  PROVE  Safe(r)'
  <1> DEFINE t == client.token
  <1>1. k \in Player /\ t \in Player /\ k # t /\ Orderly(mgr)
    BY ServerAssumption DEF Inv, Client, Me
  <1>2. PICK d \in PeerAsks(k) : Deliver(registry, d.out)
    BY DEF PeerActs
  <1> HIDE DEF t
  <1>3. FitFor(t, d.out)
    <2>1. CASE d \in CreateMatch(mgr, k)
      BY <1>1, <2>1, CreateMatchFit
    <2>2. CASE d \in {JoinMatch(mgr, k, c) : c \in Code}
      BY <1>1, <2>2, JoinMatchFit
    <2>3. CASE d = AbortMatch(mgr, k)
      BY <1>1, <2>3, AbortMatchFit
    <2>4. CASE d = LeaveMatch(mgr, k)
      BY <1>1, <2>4, LeaveMatchFit
    <2>5. CASE Exists(mgr, mgr.links[k]) /\ d = Reconnect(mgr, mgr.links[k], k)
      BY <1>1, <2>5, ReconnectFit DEF Exists
    <2> QED BY <1>2, <2>1, <2>2, <2>3, <2>4, <2>5 DEF PeerAsks
  <1> QED BY <1>2, <1>3, ManagerStepSafe DEF PeerActs, t

LEMMA HarmlessTail ==
  ASSUME NEW u \in Seq(Request), u # <<>>, Harmless(u)
  PROVE  Harmless(Tail(u)) /\ Head(u).type \in {"AUTHENTICATE", "JOIN_MATCH"}
  <1>1. /\ Len(u) \in Nat /\ Len(u) >= 1 /\ Len(Tail(u)) = Len(u) - 1 /\ Head(u) = u[1]
        /\ \A i \in 1..Len(Tail(u)) : Tail(u)[i] = u[i + 1]
    OBVIOUS
  <1>2. \A i \in 1..Len(Tail(u)) : i + 1 \in 1..Len(u)
    BY <1>1
  <1>3. 1 \in 1..Len(u)
    BY <1>1
  <1> QED BY <1>1, <1>2, <1>3 DEF Harmless

LEMMA ServerReceivesSafe ==
  ASSUME Inv, Screen, Lines, NEW r \in RoomId, InMatch(mgr, r, client.token), Safe(r), Apart,
         NEW x \in Socket, ServerReceives(x)
  PROVE  Safe(r)'
  <1> DEFINE q == Head(up[x])
             first == q.type = "AUTHENTICATE"
             p == IF first THEN q.token ELSE who[x]
             here == [registry EXCEPT ![p] = x]
             t == client.token
  <1>1. /\ q \in Request /\ p \in Player /\ (first => q.token = p) /\ (first <=> who[x] = None)
        /\ t \in Player /\ Orderly(mgr)
    BY ReceivesWhat DEF Inv, Client, Me
  <1>2. /\ who' = [who EXCEPT ![x] = p] /\ session' = session
        /\ up' = [up EXCEPT ![x] = Tail(up[x])]
        /\ up[x] \in Seq(Request) /\ up[x] # <<>>
        /\ who \in [Socket -> Player \cup {None}] /\ up \in [Socket -> Seq(Request)]
        /\ registry \in [Player -> Socket \cup {None}]
    BY DEF ServerReceives, Inv, Sessions
  <1>3. Harmless(Tail(up[x])) /\ q.type \in {"AUTHENTICATE", "JOIN_MATCH"}
    BY <1>2, HarmlessTail DEF Safe
  <1>4. PICK d \in Handled(p, q) : Deliver(IF first THEN here ELSE registry, d.out)
    BY <1>3 DEF ServerReceives
  <1>5. \A s \in Socket : Harmless(up'[s])
    BY <1>2, <1>3 DEF Safe
  <1>6. ASSUME NEW s \in Socket, line[s] # "none" PROVE Grows(r, s)
    <2>1. Straight(line[s], session[s], who[s], up[s], down[s], t)
      BY DEF Lines
    <2>2. CASE ~first
      <3>1. who'[s] = who[s] /\ session'[s] = session[s] /\ Deliver(registry, d.out)
        BY <1>1, <1>2, <1>4, <2>2
      <3>2. d = JoinMatch(mgr, p, q.code) /\ q.code \in Code
        BY <1>1, <1>3, <1>4, <2>2, RequestFields DEF Handled
      <3> HIDE DEF p, q, first, here
      <3>3. FitFor(t, d.out)
        BY <1>1, <3>2, JoinMatchFit DEF t
      <3> QED BY <1>6, <3>1, <3>3, DeliverGrows DEF t
    <2>3. CASE first
      <3>1. d = Identified(p) /\ Deliver(here, d.out)
        BY <1>1, <1>4, <2>3 DEF Handled
      <3>2. who[x] = None
        BY <1>1, <2>3
      <3>3. \A k \in Player : registry[k] # x
        BY <3>2, NobodyIsNoPlayer DEF Inv, RegistrySound
      <3>4. \A k \in Player : here[k] = IF k = p THEN x ELSE registry[k]
        BY <1>1, <1>2
      <3>5. Lines'
        BY ServerReceivesLines
      <3> HIDE DEF p, q, first, here
      <3>6. FitFor(t, d.out)
        <4>1. CASE p # t
          BY <1>1, <3>1, <4>1, IdentifiedFit
        <4>2. CASE p = t
          BY <1>1, <3>1, <4>2, IdentifiedResumes, IdentifiedSent DEF FitFor, t
        <4> QED BY <4>1, <4>2
      <3>7. CASE s # x
        <4>1. who'[s] = who[s] /\ session'[s] = session[s]
          BY <1>2, <3>7
        <4>2. \A k \in Player : here[k] = s => registry[k] = s
          BY <3>4, <3>7
        <4> QED BY <1>6, <3>1, <3>6, <4>1, <4>2, DeliverGrows DEF t
      <3>8. CASE s = x
        <4>1. who'[s] = p /\ session'[s] = session[s] /\ p # None
          BY <1>1, <1>2, <3>8, NobodyIsNoPlayer
        <4>2. p = t
          <5>1. line'[s] = line[s] /\ client' = client
            BY DEF Apart, browserVars
          <5>2. Straight(line'[s], session'[s], who'[s], up'[s], down'[s], client'.token)
            BY <3>5 DEF Lines
          <5> QED BY <1>6, <4>1, <5>1, <5>2 DEF Straight, t
        <4>3. CASE session[s] = "open"
          <5>1. Listeners(here, s) = {p}
            BY <1>1, <3>3, <3>4, <3>8 DEF Listeners
          <5>2. down'[s] = down[s] \o d.out[p]
            <6> DEFINE out == d.out
            <6>1. Deliver(here, out)
              BY <3>1
            <6> HIDE DEF out
            <6>2. p = CHOOSE k \in Listeners(here, s) : TRUE
              BY <5>1
            <6>3. down'[s] = down[s] \o out[p]
              BY <4>3, <5>1, <6>1, <6>2 DEF Deliver
            <6> QED BY <6>3 DEF out
          <5>3. down[s] = <<>>
            BY <2>1, <3>2, <3>8, <4>3 DEF Straight
          <5>4. d.out[p] \in Seq(Fit) /\ Resumes(r, d.out[p])
            BY <1>1, <3>1, <4>2, IdentifiedResumes DEF t
          <5> QED BY <5>2, <5>3, <5>4 DEF Grows
        <4>4. CASE session[s] # "open"
          BY <3>1, <4>1, <4>4, DeliverOnly DEF Grows
        <4> QED BY <4>3, <4>4
      <3> QED BY <3>7, <3>8
    <2> QED BY <2>2, <2>3
  <1> QED BY <1>5, <1>6, ServerStepSafe

LEMMA ServerNoticesSafe ==
  ASSUME Inv, Lines, NEW r \in RoomId, Safe(r), Apart, NEW x \in Socket, ServerNotices(x)
  PROVE  Safe(r)'
  <1> DEFINE reg == [registry EXCEPT ![who[x]] = None]
             out == RemovePlayer(mgr, who[x]).out
  <1>1. /\ session[x] = "cut" /\ session' = [session EXCEPT ![x] = "free"]
        /\ who' = [who EXCEPT ![x] = None] /\ up' = up
        /\ session \in [Socket -> {"free", "open", "cut"}]
        /\ who \in [Socket -> Player \cup {None}] /\ registry \in [Player -> Socket \cup {None}]
        /\ down' = down \/ Deliver(reg, out)
    BY DEF ServerNotices, Inv, Sessions
  <1>2. \A s \in Socket : Harmless(up'[s])
    BY <1>1 DEF Safe
  <1>3. FitFor(client.token, out)
    BY LeaveMatchFit DEF Inv, Client, Me
  <1>4. \A s \in Socket, k \in Player : reg[k] = s => registry[k] = s
    BY <1>1, NobodyIsNoPlayer
  <1> HIDE DEF reg, out
  <1>5. ASSUME NEW s \in Socket, line[s] # "none" PROVE Grows(r, s)
    <2>1. CASE s = x
      BY <1>1, <2>1, DeliverOnly DEF Grows
    <2>2. CASE s # x
      <3>1. session'[s] = session[s] /\ who'[s] = who[s]
        BY <1>1, <2>2
      <3>2. CASE down' = down
        BY <3>1, <3>2 DEF Grows
      <3>3. CASE Deliver(reg, out)
        BY <1>3, <1>4, <1>5, <3>1, <3>3, DeliverGrows
      <3> QED BY <1>1, <3>2, <3>3
    <2> QED BY <2>1, <2>2
  <1> QED BY <1>2, <1>5, ServerStepSafe

LEMMA ServerNextSafe ==
  ASSUME Inv, Screen, Lines, NEW r \in RoomId, InMatch(mgr, r, client.token), Safe(r), Apart,
         ServerNext
  PROVE  Safe(r)'
  <1>1. client.token \in Player
    BY DEF Inv, Client, Me
  <1>2. ASSUME NEW k \in RoomId, Play(k) PROVE Safe(r)'
    <2>1. FitFor(client.token, Broadcast(Nothing, mgr.rooms[k], k))
      BY <1>1, NothingFit, BroadcastFit
    <2> QED BY <1>2, <2>1, ManagerStepSafe DEF Play
  <1>3. ASSUME NEW k \in RoomId, GameEnds(k) PROVE Safe(r)'
    <2>1. FitFor(client.token, Finish(mgr, k).out)
      BY <1>1, FinishFit
    <2> QED BY <1>3, <2>1, ManagerStepSafe DEF GameEnds
  <1>4. ASSUME NEW k \in RoomId, RoomExpires(k) PROVE Safe(r)'
    BY <1>4, ManagerStepSafe DEF RoomExpires
  <1> QED BY <1>2, <1>3, <1>4, PeerActsSafe, ServerReceivesSafe, ServerNoticesSafe DEF ServerNext


-----------------------------------------------------------------------------
(* While the page and the network work.                                    *)

\* Nothing is new over any connection, and the page goes on.
LEMMA AppStepSafe ==
  ASSUME NEW r, Safe(r), SameWay(app, app'), board' = board,
         \A s \in Socket : Harmless(up'[s]),
         \A s \in Socket : line'[s] # "none" =>
           /\ line[s] # "none" /\ down'[s] = down[s]
           /\ (session'[s] = session[s] /\ who'[s] = who[s]) \/ who'[s] = None
  PROVE  Safe(r)'
  <1>1. Steady(r, app')
    BY SteadyStays DEF Safe, SameWay
  <1>2. ASSUME NEW s \in Socket, line'[s] # "none"
        PROVE  Fine(r, app', board', session'[s], who'[s], down'[s])
    <2>1. Fine(r, app, board, session[s], who[s], down[s])
      BY <1>2 DEF Safe
    <2>2. Fine(r, app', board, session[s], who[s], down[s])
      BY <2>1, FineStays
    <2> QED BY <1>2, <2>2, FineUnheard
  <1> QED BY <1>1, <1>2 DEF Safe

\* A connection that is not open yet.
LEMMA FineAtFirst ==
  ASSUME NEW r, NEW a, NEW b, NEW se, NEW w, se # "open"
  PROVE  Fine(r, a, b, se, w, <<>>)
  BY DEF Fine

LEMMA OpensSafe ==
  ASSUME Inv, Screen, Lines, NEW r, Safe(r), NEW s \in Socket, Opens(s)
  PROVE  Safe(r)'
  <1> DEFINE u == <<Authenticate(client.token)>>
  <1>1. /\ line[s] = "connecting" /\ line' = [line EXCEPT ![s] = "open"]
        /\ session' = [session EXCEPT ![s] = "open"] /\ up' = [up EXCEPT ![s] = u]
        /\ app' = OnConnected(app) /\ UNCHANGED <<who, down, board>>
        /\ line \in [Socket -> {"none", "connecting", "open"}]
        /\ session \in [Socket -> {"free", "open", "cut"}] /\ up \in [Socket -> Seq(Request)]
    BY DEF Opens, Inv, Sessions
  <1>2. who[s] = None
    BY <1>1 DEF Inv, Sessions, InOrder
  <1>3. Harmless(u)
    BY DEF Harmless, Authenticate
  <1> HIDE DEF u
  <1>4. \A x \in Socket : Harmless(up'[x])
    BY <1>1, <1>3 DEF Safe
  <1>5. SameWay(app, app')
    BY <1>1 DEF OnConnected, Screen, App, SameWay, Alike
  <1>6. ASSUME NEW x \in Socket, line'[x] # "none"
        PROVE  /\ line[x] # "none" /\ down'[x] = down[x]
               /\ (session'[x] = session[x] /\ who'[x] = who[x]) \/ who'[x] = None
    <2>1. CASE x = s
      BY <1>1, <1>2, <2>1
    <2>2. CASE x # s
      BY <1>1, <1>6, <2>2
    <2> QED BY <2>1, <2>2
  <1> QED BY <1>1, <1>4, <1>5, <1>6, AppStepSafe

LEMMA ClosedSafe ==
  ASSUME Inv, NEW r, Safe(r), NEW s \in Socket, line[s] # "none",
         NEW a \in App, Alike(app, a), Closed(s, a), up' = up
  PROVE  Safe(r)'
  <1> DEFINE b == OnDisconnected(a)
  <1>0. Alike(a, b)
    BY DEF OnDisconnected, App, Alike
  <1>1. b \in App /\ Alike(a, b)
    BY <1>0, OnDisconnectedFollows DEF Follows
  <1>2. app' = Timed(b) /\ line' = [line EXCEPT ![s] = "none"]
    BY DEF Closed
  <1> HIDE DEF b
  <1>3. Alike(app, app')
    BY <1>1, <1>2, TimedSame DEF SameWay, Alike
  <1>4. \A x \in Socket : line'[x] = "none"
    BY <1>2 DEF Inv, Sessions, OneLine
  <1> QED BY <1>3, <1>4, SteadyStays DEF Safe

LEMMA OnErrorAlike == \A a \in App : OnError(a) \in App /\ Alike(a, OnError(a))
  BY OnErrorFollows DEF Follows, OnError, App, Alike

LEMMA LinkBreaksSafe ==
  ASSUME Inv, Screen, NEW r, Safe(r), NEW s \in Socket, LinkBreaks(s)
  PROVE  Safe(r)'
  <1>1. PICK n \in 0..Len(up[s]) : up' = [up EXCEPT ![s] = SubSeq(up[s], 1, n)]
    BY DEF LinkBreaks
  <1>2. PICK k \in 0..Len(down[s]) : down' = [down EXCEPT ![s] = SubSeq(down[s], 1, k)]
    BY DEF LinkBreaks
  <1>3. /\ session' = [session EXCEPT ![s] = "cut"] /\ UNCHANGED <<who, line, app, board>>
        /\ session \in [Socket -> {"free", "open", "cut"}] /\ up \in [Socket -> Seq(Request)]
        /\ down \in [Socket -> Seq(Message)]
    BY DEF LinkBreaks, Inv, Sessions, Screen, Wires
  <1>4. Harmless(SubSeq(up[s], 1, n))
    <2>1. up[s] \in Seq(Request) /\ Harmless(up[s])
      BY <1>3 DEF Safe
    <2>2. /\ Len(SubSeq(up[s], 1, n)) = n
          /\ \A i \in 1..n : SubSeq(up[s], 1, n)[i] = up[s][i] /\ i \in 1..Len(up[s])
      BY <2>1
    <2> QED BY <2>1, <2>2 DEF Harmless
  <1>5. \A x \in Socket : Harmless(up'[x])
    BY <1>1, <1>3, <1>4 DEF Safe
  <1>6. ASSUME NEW x \in Socket, line'[x] # "none"
        PROVE  Fine(r, app', board', session'[x], who'[x], down'[x])
    <2>1. Fine(r, app, board, session[x], who[x], down[x])
      BY <1>3, <1>6 DEF Safe
    <2>2. CASE x # s
      BY <1>2, <1>3, <2>1, <2>2
    <2>3. CASE x = s
      <3>1. Fine(r, app, board, "cut", who[x], SubSeq(down[x], 1, k))
        BY <2>1, <2>3, FineCut
      <3>2. down'[x] = SubSeq(down[x], 1, k) /\ session'[x] = "cut"
        BY <1>2, <1>3, <2>3
      <3> QED BY <1>3, <3>1, <3>2
    <2> QED BY <2>2, <2>3
  <1> QED BY <1>3, <1>5, <1>6 DEF Safe

LEMMA RedialsSafe ==
  ASSUME Inv, Lines, NEW r, Safe(r), Redials
  PROVE  Safe(r)'
  <1>1. Slot \in Socket /\ line[Slot] = "none" /\ session[Slot] = "free"
    BY DEF Redials, Slot, Unused
  <1>2. /\ line' = [line EXCEPT ![Slot] = "connecting"]
        /\ UNCHANGED <<session, who, up, down, app, board>>
        /\ line \in [Socket -> {"none", "connecting", "open"}]
    BY DEF Redials, serverVars, Inv, Sessions
  <1> HIDE DEF Slot
  <1>3. down[Slot] = <<>>
    BY <1>1 DEF Lines, Straight
  <1>4. ASSUME NEW x \in Socket, line'[x] # "none"
        PROVE  Fine(r, app, board, session[x], who[x], down[x])
    <2>1. CASE x = Slot
      BY <1>1, <1>3, <2>1, FineAtFirst
    <2>2. CASE x # Slot
      BY <1>2, <1>4, <2>2 DEF Safe
    <2> QED BY <2>1, <2>2
  <1> QED BY <1>2, <1>4 DEF Safe

LEMMA HearsSafe ==
  ASSUME Inv, Screen, NEW r \in RoomId, Safe(r), NEW s \in Socket, Hears(s)
  PROVE  Safe(r)'
  <1>1. /\ app' = Heard(app, Head(down[s])) /\ board' = BoardHeard(board, Head(down[s]))
        /\ down' = [down EXCEPT ![s] = Tail(down[s])] /\ down[s] # <<>> /\ line[s] = "open"
        /\ UNCHANGED <<session, who, up, line>> /\ down \in Wires
        /\ app \in App /\ board \in Board \cup {None}
    BY DEF Hears, Screen
  <1>2. Steady(r, app) /\ Fine(r, app, board, session[s], who[s], down[s])
    BY <1>1 DEF Safe
  <1>3. Steady(r, app') /\ Fine(r, app', board', session[s], who[s], Tail(down[s]))
    BY <1>1, <1>2, FineHears
  <1>4. \A x \in Socket : line[x] # "none" => x = s
    BY <1>1 DEF Inv, OneLine
  <1>5. down'[s] = Tail(down[s])
    BY <1>1 DEF Wires
  <1> QED BY <1>1, <1>3, <1>4, <1>5 DEF Safe

\* What a render leaves of the page.
Rendered(a, b) == Alike(a, b) /\ b.phase = a.phase /\ b.state = a.state

LEMMA RendersPage ==
  ASSUME Screen, Renders
  PROVE  Rendered(app, app') /\ (up' = up \/ \E c : Send(Join(c)))
  <1>1. CASE JoinsByURL
    <2> DEFINE l == Linking(app)
               b == [l EXCEPT !.fresh = FALSE, !.joined = TRUE]
    <2>1. app' = b /\ Send(Join(app.urlCode))
      BY <1>1 DEF Renders
    <2>2. Rendered(app, l)
      BY DEF Linking, Screen, App, Rendered, Alike
    <2>3. l \in App
      BY LinkingKeeps DEF Screen, LinkingFollows, Follows
    <2> HIDE DEF l
    <2>4. Rendered(l, b)
      BY <2>3 DEF App, Rendered, Alike
    <2> HIDE DEF b
    <2> QED BY <2>1, <2>2, <2>4 DEF Rendered, Alike
  <1>2. CASE ~JoinsByURL
    BY <1>2 DEF Renders, Screen, App, Rendered, Alike
  <1> QED BY <1>1, <1>2

\* A request to join is harmless.
LEMMA JoinIsHarmless ==
  ASSUME Inv, NEW r, Safe(r), NEW c, Send(Join(c))
  PROVE  \A s \in Socket : Harmless(up'[s])
  <1>1. up \in [Socket -> Seq(Request)] /\ \A s \in Socket : Harmless(up[s])
    BY DEF Inv, Sessions, Safe
  <1> SUFFICES ASSUME NEW s \in Socket PROVE Harmless(up'[s])
    OBVIOUS
  <1> DEFINE q == Join(c)
  <1>2. q.type = "JOIN_MATCH"
    BY DEF Join
  <1>3. up' = up \/ up' = [up EXCEPT ![client.ws] = Append(up[client.ws], q)]
    BY DEF Send
  <1> HIDE DEF q
  <1>4. up'[s] = up[s] \/ up'[s] = Append(up[s], q)
    BY <1>1, <1>3
  <1>5. CASE up'[s] = Append(up[s], q)
    <2>1. up[s] \in Seq(Request)
      BY <1>1
    <2>2. \A i \in 1..Len(up'[s]) : up'[s][i] = q \/ (i \in 1..Len(up[s]) /\ up'[s][i] = up[s][i])
      BY <1>5, <2>1
    <2> QED BY <1>1, <1>2, <2>2 DEF Harmless
  <1> QED BY <1>1, <1>4, <1>5

LEMMA RendersSafe ==
  ASSUME Inv, Screen, NEW r \in RoomId, Safe(r), Renders
  PROVE  Safe(r)'
  <1>1. UNCHANGED <<session, who, down, line>>
    BY DEF Renders
  <1>2. Rendered(app, app')
    BY RendersPage
  <1>3. \A s \in Socket : Harmless(up'[s])
    BY RendersPage, JoinIsHarmless DEF Safe
  <1>4. Steady(r, app')
    BY <1>2, SteadyStays DEF Safe, Rendered
  <1>5. app.phase = "playing" /\ Ready(app, board) => Ready(app', board')
    BY RendersBoard, BoardIsMounted DEF Ready
  <1>6. ASSUME NEW s \in Socket, line[s] # "none"
        PROVE  Fine(r, app', board', session[s], who[s], down[s])
    <2>1. Fine(r, app, board, session[s], who[s], down[s])
      BY <1>6 DEF Safe
    <2> QED BY <1>2, <1>5, <2>1 DEF Fine, OnItsWay, Rendered, Alike
  <1> QED BY <1>1, <1>3, <1>4, <1>6 DEF Safe

LEMMA FallsBackSafe ==
  ASSUME Screen, NEW r, Safe(r), FallsBack
  PROVE  Safe(r)'
  <1>1. SameWay(app, app')
    BY DEF FallsBack, Screen, App, SameWay, Alike
  <1>2. UNCHANGED <<session, who, up, down, line, board>>
    BY DEF FallsBack, serverVars
  <1>3. \A s \in Socket : Harmless(up'[s])
    BY <1>2 DEF Safe
  <1> QED BY <1>1, <1>2, <1>3, AppStepSafe

LEMMA ReloadsSafe ==
  ASSUME Inv, Lines, NEW r \in RoomId, Safe(r), Reloads(app.url)
  PROVE  Safe(r)'
  <1>1. Slot \in Socket /\ line[Slot] = "none" /\ session[Slot] = "free"
    BY DEF Reloads, Slot, Unused
  <1>2. /\ line' = [x \in Socket |-> IF x = Slot THEN "connecting" ELSE "none"]
        /\ session' = [x \in Socket |->
                         IF x = client.ws /\ session[x] = "open" THEN "cut" ELSE session[x]]
        /\ down' = [x \in Socket |-> IF x = client.ws THEN <<>> ELSE down[x]]
        /\ UNCHANGED <<who, up>>
        /\ \E t \in Tokens : app' = Loaded(app.url, app.named, t)
    BY DEF Reloads
  <1> HIDE DEF Slot
  <1>3. down[Slot] = <<>>
    BY <1>1 DEF Lines, Straight
  <1>4. /\ ~app'.naming /\ app'.url = app.url
        /\ app'.ref = IF app.url \in Link THEN app.url.room ELSE None
    BY <1>2 DEF Loaded
  <1>5. /\ None # Clearing /\ \A k \in RoomId : k # Clearing
        /\ app.url \in Link => app.url # None /\ app.url.room \in RoomId
    BY BrowserAssumption DEF Link
  <1>6. Steady(r, app')
    BY <1>4, <1>5 DEF Steady
  <1>7. session'[Slot] # "open" /\ down'[Slot] = <<>>
    BY <1>1, <1>2, <1>3
  <1>8. \A x \in Socket : line'[x] # "none" => x = Slot
    BY <1>2
  <1>9. Fine(r, app', board', session'[Slot], who'[Slot], down'[Slot])
    BY <1>7, FineAtFirst
  <1> QED BY <1>2, <1>6, <1>8, <1>9 DEF Safe

-----------------------------------------------------------------------------
(* The player that clicks nothing but the reload button.                   *)

\* A player that rests on the board of its match.
LEMMA SettledSafe ==
  Inv /\ Screen /\ Wired /\ (\E r \in RoomId : Settled(r)) =>
    Safe(app.ref) /\ Begun(mgr, app.ref)
  <1> SUFFICES ASSUME Inv, Screen, Wired, NEW r \in RoomId, Settled(r)
               PROVE  Safe(r) /\ Begun(mgr, r) /\ app.ref = r
    BY DEF Settled, OnBoard
  <1>1. /\ app.phase = "playing" /\ app.ref = r /\ board.room # None
        /\ View(app) = shown /\ ~app.naming
        /\ \A s \in Socket : up[s] = <<>> /\ down[s] = <<>>
        /\ mgr.rooms[r] # None /\ mgr.rooms[r].life = "running"
    BY DEF Settled, AtRest, OnBoard, Plays, Exists
  <1>2. r <= mgr.issued
    BY <1>1 DEF Inv, Orderly, Unissued, Manager, RoomId
  <1>3. Ready(app, board)
    BY <1>1 DEF Wired, Mounting, View, Ready
  <1>4. Steady(r, app)
    BY <1>1, RoomAssumption, BrowserAssumption DEF Steady
  <1>5. \A s \in Socket : Harmless(up[s])
    BY <1>1 DEF Harmless
  <1>6. \A s \in Socket : Fine(r, app, board, session[s], who[s], down[s])
    <2>1. <<>> \in Seq(Fit) /\ app.ref # None
      BY <1>1, RoomAssumption
    <2> QED BY <1>1, <1>3, <2>1 DEF Fine, OnItsWay
  <1> QED BY <1>1, <1>2, <1>4, <1>5, <1>6 DEF Safe, Begun

\* As long as home is kept: its match has begun, and while it lasts nothing takes the
\* page away from it.
Tracked == home # None => Begun(mgr, home) /\ (Plays(home) => Safe(home))

\* The steps that neither the person takes, except for reloading, nor unlink it.
LEMMA StaysSafe ==
  ASSUME Inv, Screen, Wired, NEW r \in RoomId, InMatch(mgr, r, client.token), Safe(r),
         [Next]_vars, ~Person \/ Reloads(app.url)
  PROVE  Safe(r)'
  <1>0. Lines
    BY DEF Wired
  <1>1. CASE UNCHANGED vars
    BY <1>1 DEF vars, serverVars, browserVars, Safe
  <1>2. CASE Reloads(app.url)
    BY <1>0, <1>2, ReloadsSafe
  <1>3. CASE Proceeds
    <2>1. ~Enters
      BY DEF Enters, Safe, Steady
    <2>2. CASE Renders
      BY <2>2, RendersSafe
    <2>3. CASE FallsBack
      BY <2>3, FallsBackSafe
    <2>4. CASE Redials
      BY <1>0, <2>4, RedialsSafe
    <2>5. ASSUME NEW s \in Socket, Opens(s) PROVE Safe(r)'
      BY <1>0, <2>5, OpensSafe
    <2>6. ASSUME NEW s \in Socket, Drops(s) PROVE Safe(r)'
      <3>1. app \in App /\ Alike(app, app)
        BY DEF Screen, Alike
      <3>2. line[s] # "none" /\ up' = up /\ (Closed(s, app) \/ Closed(s, OnError(app)))
        BY <2>6 DEF Drops, serverVars
      <3> QED BY <3>1, <3>2, OnErrorAlike, ClosedSafe
    <2>7. ASSUME NEW s \in Socket, Hears(s) PROVE Safe(r)'
      BY <2>7, HearsSafe
    <2> QED BY <1>3, <2>1, <2>2, <2>3, <2>4, <2>5, <2>6, <2>7 DEF Proceeds
  <1>4. ASSUME NEW s \in Socket, Fails(s) PROVE Safe(r)'
    <2>1. line[s] # "none" /\ up' = up /\ Closed(s, OnError(app)) /\ app \in App
      BY <1>4 DEF Fails, Screen
    <2> QED BY <2>1, OnErrorAlike, ClosedSafe
  <1>5. ASSUME NEW s \in Socket, LinkBreaks(s) PROVE Safe(r)'
    BY <1>5, LinkBreaksSafe
  <1>6. CASE ServerNext /\ Apart
    BY <1>0, <1>6, ServerNextSafe
  <1> QED BY <1>1, <1>2, <1>3, <1>4, <1>5, <1>6 DEF Next, Apart

\* A page that has lost its token takes one that is in no room.
LEMMA SameToken ==
  ASSUME Inv, Linked(mgr), Wired, [Next]_vars, NEW r, InMatch(mgr', r, client'.token)
  PROVE  client'.token = client.token
  <1>1. CASE UNCHANGED vars
    BY <1>1 DEF vars, browserVars
  <1>2. ASSUME NEW u, Reloads(u) PROVE client'.token = client.token
    <2>1. PICK t \in Tokens : client'.token = t
      BY <1>2 DEF Reloads
    <2>2. CASE app.token # None
      BY <2>1, <2>2 DEF Tokens, Wired, TokenKept
    <2>3. CASE app.token = None
      <3>1. t \in Me /\ \A k \in RoomId : Exists(mgr, k) => t \notin Members(mgr.rooms[k])
        BY <2>3 DEF Tokens
      <3>2. t \in Player /\ r # None /\ mgr.links[t] = r
        BY <1>2, <2>1, <3>1, RoomAssumption DEF Reloads, InMatch, Me
      <3> QED BY <3>1, <3>2 DEF Linked, Exists
    <2> QED BY <2>2, <2>3
  <1>3. CASE Proceeds
    <2>1. client'.token = client.token
      BY <1>3 DEF Proceeds, Renders, FallsBack, Enters, Redials, Opens, Drops, Closed, Hears,
                  Inv, Client
    <2> QED BY <2>1
  <1>4. CASE \/ SubmitsName \/ InitiatesOperation \/ TerminatesLink \/ Abandons \/ Returns
             \/ \E c \in Code : LinksToNetwork(c)
    BY <1>4 DEF SubmitsName, InitiatesOperation, TerminatesLink, Abandons, Returns,
                LinksToNetwork, Clicks
  <1>5. CASE \E s \in Socket : Fails(s) \/ LinkBreaks(s)
    BY <1>5 DEF Fails, Closed, LinkBreaks, Inv, Client
  <1>6. CASE UNCHANGED browserVars
    BY <1>6 DEF browserVars
  <1> QED BY <1>1, <1>2, <1>3, <1>4, <1>5, <1>6 DEF Next, Person

LEMMA NextTracked ==
  Inv /\ Screen /\ Wired /\ Linked(mgr) /\ Tracked /\ [WatchedNext]_watchedVars => Tracked'
  <1> SUFFICES ASSUME Inv, Screen, Wired, Linked(mgr), Tracked, [WatchedNext]_watchedVars
               PROVE  Tracked'
    OBVIOUS
  <1>1. [Next]_vars
    BY DEF WatchedNext, watchedVars
  <1>2. Inv' /\ Screen' /\ Wired'
    BY <1>1, NextInv, NextScreen, NextWired
  <1>3. CASE /\ \E r \in RoomId : Settled(r)'
             /\ home' = app'.ref
    <2>1. (Inv /\ Screen /\ Wired /\ (\E r \in RoomId : Settled(r)))' =>
            (Safe(app.ref) /\ Begun(mgr, app.ref))'
      BY SettledSafe, PTL
    <2> QED BY <1>2, <1>3, <2>1 DEF Tracked
  <1>4. CASE home' = None
    BY <1>4 DEF Tracked
  <1>5. CASE home' = home /\ home # None /\ (~Person \/ Reloads(app.url))
    <2>1. Begun(mgr, home) /\ home \in RoomId /\ (Plays(home) => Safe(home))
      BY <1>5 DEF Tracked, Begun
    <2>2. Begun(mgr', home)
      BY <1>1, <1>2, <2>1, NextSteps, StepsBegun DEF Inv
    <2>3. ASSUME InMatch(mgr', home, client'.token) PROVE Safe(home)'
      <3>1. client'.token = client.token /\ client.token \in Player
        BY <1>1, <2>3, SameToken DEF Inv, Client, Me
      <3>2. InMatch(mgr, home, client.token)
        BY <1>1, <2>1, <2>3, <3>1, NextSteps, StepsInMatch DEF Inv
      <3>3. Safe(home)
        BY <2>1, <3>2 DEF Plays, InMatch, Exists
      <3> QED BY <1>1, <1>5, <2>1, <3>2, <3>3, StaysSafe
    <2> QED BY <1>5, <2>2, <2>3 DEF Tracked, Plays, InMatch, Exists
  <1>6. CASE UNCHANGED watchedVars
    <2>1. home' = home /\ UNCHANGED vars
      BY <1>6 DEF watchedVars
    <2> QED BY <2>1 DEF vars, serverVars, browserVars, Tracked, Begun, Plays, Exists, Safe
  <1> QED BY <1>3, <1>4, <1>5, <1>6 DEF WatchedNext, Tracked

\* The way back: whatever befalls the connection, and whether the page is reloaded
\* before, between or after the messages that bring it back, a player that clicks nothing
\* else is never led away from the match it is in, and once all is quiet is on its board,
\* unless the URL leads to another room.  For any numbers of players, sockets, rooms,
\* codes and faults.
THEOREM PlayersRecover == WatchedSpec => []Recovered
  <1>1. WatchedInit => Tracked
    BY DEF WatchedInit, Tracked
  <1>2. Inv /\ Screen /\ Wired /\ Tracked => Recovered
    <2> SUFFICES ASSUME Inv, Screen, Wired, Tracked,
                        AtRest, home # None, Plays(home), Leads(home)
                 PROVE  OnBoard(home)
      BY DEF Recovered
    <2> DEFINE s == client.ws
    <2>1. /\ s \in Socket /\ line[s] = "open" /\ session[s] = "open"
          /\ up[s] = <<>> /\ down[s] = <<>> /\ View(app) = shown /\ ~app.fresh
      BY DEF AtRest, Online, NoLine, Inv, Client
    <2>2. Steady(home, app) /\ Fine(home, app, board, session[s], who[s], down[s])
      BY <2>1 DEF Tracked, Safe
    <2>3. who[s] # None
      BY <2>1 DEF Inv, Sessions, InOrder
    <2>4. app.ref \in {None, home}
      BY <2>2 DEF Steady, Leads
    <2>5. OnItsWay(home, app, board, <<>>)
      BY <2>1, <2>2, <2>3, <2>4 DEF Fine
    <2>6. app.phase = "playing" /\ app.ref = home /\ Ready(app, board)
      BY <2>5 DEF OnItsWay, Resumes, StartsWith, StateIn
    <2>7. board # None
      BY <2>1, <2>6 DEF Wired, Mounting, View
    <2> QED BY <2>1, <2>6, <2>7 DEF Ready, OnBoard
  <1> QED BY <1>1, <1>2, NextTracked, WatchingIsHarmless, SpecInv, ScreenAlways, WiredAlways,
             LinksAlwaysLead, PTL DEF WatchedSpec

=============================================================================
