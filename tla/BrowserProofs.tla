--------------------------- MODULE BrowserProofs ---------------------------
(***************************************************************************)
(* Proofs about Browser, for any numbers of players, sockets, codes, rooms *)
(* and events.                                                             *)
(*                                                                         *)
(* First the match manager: every method keeps it orderly, whoever calls   *)
(* it and whenever.  Then Inv, the connections: codes lead to open rooms,  *)
(* the registry to sessions that speak for the player, and the browser has *)
(* one socket or one timer.  They rest on the order of a session, which    *)
(* begins with AUTHENTICATE, sees none afterwards, and speaks for nobody   *)
(* before.  Last Screen, the messages and the page: a page reconnects only *)
(* as long as something under way will end that.                           *)
(***************************************************************************)
EXTENDS BrowserProps, TLAPS

\* CodesOpenRooms of BrowserProps, of any manager.
CodesOpen(m) ==
  \A c \in Code : m.codes[c] # None =>
    /\ Exists(m, m.codes[c])
    /\ m.rooms[m.codes[c]].life = "waiting"
    /\ m.rooms[m.codes[c]].code = c

\* Nothing is known under an id that has not been given out.
Unissued(m) == \A r \in RoomId : r > m.issued => m.rooms[r] = None

\* The inductive invariant of a manager.
Orderly(m) == m \in Manager /\ Unissued(m) /\ CodesOpen(m)

-----------------------------------------------------------------------------

LEMMA RoomIsNotNone == \A x \in Room : x # None
  BY RoomAssumption

\* Where a code leads is a room, or nothing.
LEMMA OpenCode ==
  ASSUME NEW m, Orderly(m), NEW c \in Code, m.codes[c] # None
  PROVE  /\ m.codes[c] \in RoomId
         /\ m.rooms[m.codes[c]] \in Room
         /\ m.rooms[m.codes[c]].life = "waiting"
         /\ m.rooms[m.codes[c]].code = c
  BY DEF Orderly, Manager, CodesOpen, Exists

\* So a room has no code but its own, and that only as long as it waits.
LEMMA OwnCode ==
  ASSUME NEW m, Orderly(m), NEW c \in Code, NEW r \in RoomId, m.codes[c] = r
  PROVE  m.rooms[r] \in Room /\ m.rooms[r].life = "waiting" /\ m.rooms[r].code = c
  <1>1. m.codes[c] # None
    BY RoomAssumption
  <1> QED BY <1>1, OpenCode

\* A manager before any room.
LEMMA NoRoomsOrderly == Orderly(NoRooms)
  <1>1. NoRooms \in Manager
    BY RoomAssumption DEF NoRooms, Manager
  <1> QED
    BY <1>1 DEF Orderly, NoRooms, Unissued, CodesOpen

\* Changing a room keeps order when the codes that lead to it still may.
LEMMA RoomChanged ==
  ASSUME NEW m, Orderly(m), NEW r \in RoomId, m.rooms[r] # None, NEW x \in Room,
         x.code = m.rooms[r].code,
         x.life = m.rooms[r].life \/ \A c \in Code : m.codes[c] # r
  PROVE  Orderly([m EXCEPT !.rooms[r] = x])
  <1> DEFINE n == [m EXCEPT !.rooms[r] = x]
  <1>1. n \in Manager /\ n.codes = m.codes /\ n.issued = m.issued
    BY DEF Orderly, Manager
  <1>2. n.rooms = [m.rooms EXCEPT ![r] = x] /\ m.rooms \in [RoomId -> Room \cup {None}]
    BY DEF Orderly, Manager
  <1>3. Unissued(n)
    BY <1>1, <1>2, RoomIsNotNone DEF Orderly, Unissued
  <1>4. CodesOpen(n)
    <2> SUFFICES ASSUME NEW c \in Code, n.codes[c] # None
                 PROVE  /\ Exists(n, n.codes[c])
                        /\ n.rooms[n.codes[c]].life = "waiting"
                        /\ n.rooms[n.codes[c]].code = c
      BY DEF CodesOpen
    <2>1. /\ m.codes[c] \in RoomId /\ m.rooms[m.codes[c]] \in Room
          /\ m.rooms[m.codes[c]].life = "waiting" /\ m.rooms[m.codes[c]].code = c
      BY <1>1, OpenCode
    <2>2. CASE m.codes[c] = r
      BY <2>1, <2>2, <1>1, <1>2, RoomIsNotNone DEF Exists
    <2>3. CASE m.codes[c] # r
      BY <2>1, <2>3, <1>1, <1>2, RoomIsNotNone DEF Exists
    <2> QED BY <2>2, <2>3
  <1> QED BY <1>1, <1>3, <1>4 DEF Orderly

\* Unlinking players does not touch rooms or codes.
LEMMA UnlinkOrderly ==
  ASSUME NEW m, Orderly(m), NEW P
  PROVE  /\ Orderly(Unlink(m, P))
         /\ Unlink(m, P).rooms = m.rooms /\ Unlink(m, P).codes = m.codes
         /\ Unlink(m, P).issued = m.issued
  <1> DEFINE n == Unlink(m, P)
  <1>1. n \in Manager /\ n.rooms = m.rooms /\ n.codes = m.codes /\ n.issued = m.issued
    BY DEF Orderly, Manager, Unlink
  <1> QED BY <1>1 DEF Orderly, Unissued, CodesOpen, Exists

\* Taking away a room, and with it every code that leads there.
Removes(m, r, n) ==
  /\ r \in RoomId /\ n \in Manager
  /\ n.issued = m.issued
  /\ \A k \in RoomId : n.rooms[k] = IF k = r THEN None ELSE m.rooms[k]
  /\ \A c \in Code : n.codes[c] = None \/ (n.codes[c] = m.codes[c] /\ m.codes[c] # r)

LEMMA RoomRemoved ==
  ASSUME NEW m, NEW r, NEW n, Orderly(m), Removes(m, r, n)
  PROVE  Orderly(n)
  <1>1. m.rooms \in [RoomId -> Room \cup {None}]
    BY DEF Orderly, Manager
  <1>2. Unissued(n)
    BY <1>1 DEF Orderly, Unissued, Removes
  <1>3. CodesOpen(n)
    BY <1>1, OpenCode, RoomIsNotNone DEF CodesOpen, Exists, Removes
  <1>4. n \in Manager
    BY DEF Removes
  <1> QED BY <1>2, <1>3, <1>4 DEF Orderly

\* Giving up a code.
LEMMA CodeErased ==
  ASSUME NEW m, Orderly(m), NEW c \in Code
  PROVE  Orderly([m EXCEPT !.codes[c] = None])
  <1> DEFINE n == [m EXCEPT !.codes[c] = None]
  <1>1. n \in Manager /\ n.rooms = m.rooms /\ n.issued = m.issued
    BY DEF Orderly, Manager
  <1>2. \A x \in Code : n.codes[x] = IF x = c THEN None ELSE m.codes[x]
    BY DEF Orderly, Manager
  <1>3. CodesOpen(n)
    BY <1>1, <1>2 DEF Orderly, CodesOpen, Exists
  <1> QED BY <1>1, <1>3 DEF Orderly, Unissued


-----------------------------------------------------------------------------
(* class Match.                                                            *)

LEMMA FinishOrderly ==
  ASSUME NEW m, Orderly(m), NEW r \in RoomId, m.rooms[r] # None,
         m.rooms[r].life = "running"
  PROVE  /\ Orderly(Finish(m, r).mgr)
         /\ Finish(m, r).mgr.rooms = [m.rooms EXCEPT ![r] = [m.rooms[r] EXCEPT !.life = "over"]]
         /\ Finish(m, r).mgr.codes = m.codes
  <1> DEFINE x == [m.rooms[r] EXCEPT !.life = "over"]
  <1>1. m.rooms[r] \in Room
    BY DEF Orderly, Manager
  <1>2. x \in Room /\ x.code = m.rooms[r].code
    BY <1>1 DEF Room
  <1>3. \A c \in Code : m.codes[c] # r
    BY OwnCode
  <1>4. Orderly([m EXCEPT !.rooms[r] = x])
    BY <1>2, <1>3, RoomChanged
  <1>5. Finish(m, r).mgr = [m EXCEPT !.rooms[r] = x]
    BY DEF Finish, Done
  <1>6. /\ [m EXCEPT !.rooms[r] = x].rooms = [m.rooms EXCEPT ![r] = x]
        /\ [m EXCEPT !.rooms[r] = x].codes = m.codes
    BY DEF Orderly, Manager
  <1> QED BY <1>4, <1>5, <1>6

LEMMA DisconnectOrderly ==
  ASSUME NEW m, Orderly(m), NEW r \in RoomId, m.rooms[r] # None, NEW p \in Player
  PROVE  Orderly(Disconnect(m, r, p).mgr)
  <1> DEFINE x == [m.rooms[r] EXCEPT !.away = m.rooms[r].away \cup {p}]
  <1>1. m.rooms[r] \in Room
    BY DEF Orderly, Manager
  <1>2. x \in Room /\ x.code = m.rooms[r].code /\ x.life = m.rooms[r].life
    BY <1>1 DEF Room
  <1>3. Orderly([m EXCEPT !.rooms[r] = x])
    BY <1>2, RoomChanged
  <1>4. Disconnect(m, r, p).mgr = [m EXCEPT !.rooms[r] = x]
    BY DEF Disconnect, Silently, Done, Orderly, Manager
  <1> QED BY <1>3, <1>4

LEMMA ReconnectOrderly ==
  ASSUME NEW m, Orderly(m), NEW r \in RoomId, m.rooms[r] # None, NEW p \in Player
  PROVE  Orderly(Reconnect(m, r, p).mgr)
  <1> DEFINE x == [m.rooms[r] EXCEPT !.away = m.rooms[r].away \ {p}]
  <1>1. m.rooms[r] \in Room
    BY DEF Orderly, Manager
  <1>2. x \in Room /\ x.code = m.rooms[r].code /\ x.life = m.rooms[r].life
    BY <1>1 DEF Room
  <1>3. Orderly([m EXCEPT !.rooms[r] = x])
    BY <1>2, RoomChanged
  <1>4. Reconnect(m, r, p).mgr = [m EXCEPT !.rooms[r] = x]
    BY DEF Reconnect, Done, Orderly, Manager
  <1> QED BY <1>3, <1>4

-----------------------------------------------------------------------------
(* class MatchManager.                                                     *)

LEMMA NewRoomOrderly ==
  ASSUME NEW m, Orderly(m), NEW p \in Player, NEW c \in Code,
         m.issued < MaxRooms, m.codes[c] = None
  PROVE  /\ Orderly(NewRoom(m, p, c).mgr)
         /\ NewRoom(m, p, c).mgr.codes[c] = m.issued + 1
         /\ NewRoom(m, p, c).mgr.issued = m.issued + 1
  <1> DEFINE r == m.issued + 1
             x == [code |-> c, alpha |-> p, beta |-> None, life |-> "waiting", away |-> {}]
             n == NewRoom(m, p, c).mgr
  <1>1. r \in RoomId /\ r \in 0..MaxRooms /\ r > m.issued
    BY RoomAssumption DEF Orderly, Manager, RoomId
  <1>2. x \in Room /\ x # None
    BY RoomIsNotNone DEF Room
  <1>3. n = [m EXCEPT !.issued = r, !.rooms[r] = x, !.codes[c] = r, !.links[p] = r]
    BY DEF NewRoom, Done
  <1>4. /\ n \in Manager /\ n.issued = r
        /\ n.rooms = [m.rooms EXCEPT ![r] = x] /\ n.codes = [m.codes EXCEPT ![c] = r]
    <2>1. n = [issued |-> r, rooms |-> [m.rooms EXCEPT ![r] = x],
               codes |-> [m.codes EXCEPT ![c] = r], links |-> [m.links EXCEPT ![p] = r]]
      BY <1>3 DEF Orderly, Manager
    <2> HIDE DEF r, x, n
    <2> QED BY <1>1, <1>2, <2>1 DEF Orderly, Manager
  <1>5. Unissued(n)
    BY <1>1, <1>4 DEF Orderly, Unissued, Manager, RoomId
  <1>6. \A k \in Code : m.codes[k] # r
    <2> HIDE DEF r
    <2> QED BY <1>1, RoomIsNotNone, OwnCode DEF Orderly, Unissued
  <1>7. CodesOpen(n)
    <2> SUFFICES ASSUME NEW k \in Code, n.codes[k] # None
                 PROVE  /\ Exists(n, n.codes[k])
                        /\ n.rooms[n.codes[k]].life = "waiting"
                        /\ n.rooms[n.codes[k]].code = k
      BY DEF CodesOpen
    <2>1. CASE k = c
      BY <1>1, <1>2, <1>4, <2>1 DEF Exists, Orderly, Manager
    <2>2. CASE k # c
      BY <1>4, <1>6, <2>2, OpenCode, RoomIsNotNone DEF Exists, Orderly, Manager
    <2> QED BY <2>1, <2>2
  <1>8. n.codes[c] = r
    <2> HIDE DEF r, n
    <2> QED BY <1>4 DEF Orderly, Manager
  <1> QED BY <1>4, <1>5, <1>7, <1>8 DEF Orderly

LEMMA CreateMatchOrderly ==
  ASSUME NEW m, Orderly(m), NEW p \in Player, NEW d \in CreateMatch(m, p)
  PROVE  Orderly(d.mgr)
  <1>1. CASE InActiveRoom(m, p)
    BY <1>1 DEF CreateMatch, Done
  <1>2. CASE ~InActiveRoom(m, p)
    BY <1>2, NewRoomOrderly DEF CreateMatch
  <1> QED BY <1>1, <1>2

LEMMA EnterOrderly ==
  ASSUME NEW m, Orderly(m), NEW p \in Player, NEW c \in Code, m.codes[c] # None
  PROVE  Orderly(Enter(m, m.codes[c], p, c).mgr)
  <1> DEFINE r == m.codes[c]
             x == [m.rooms[r] EXCEPT !.beta = p, !.life = "running"]
             k == [m EXCEPT !.codes[c] = None]
             l == [k EXCEPT !.rooms[r] = x]
             n == Enter(m, r, p, c).mgr
  <1>1. r \in RoomId /\ m.rooms[r] \in Room /\ m.rooms[r].code = c
    BY OpenCode
  <1>2. x \in Room /\ x.code = m.rooms[r].code
    BY <1>1 DEF Room
  <1>3. Orderly(k)
    BY CodeErased
  <1>4. k.rooms = m.rooms /\ k.codes = [m.codes EXCEPT ![c] = None]
    BY DEF Orderly, Manager
  <1>5. \A y \in Code : k.codes[y] # r
    BY <1>1, <1>4, OpenCode, RoomAssumption DEF Orderly, Manager
  <1>6. Orderly(l)
    BY <1>1, <1>2, <1>3, <1>4, <1>5, RoomIsNotNone, RoomChanged
  <1>7. n = [m EXCEPT !.rooms[r] = x, !.codes[c] = None, !.links[p] = r]
    BY DEF Enter, Done
  <1>8. /\ n \in Manager /\ n.rooms = l.rooms /\ n.codes = l.codes /\ n.issued = l.issued
    <2>1. n = [issued |-> m.issued, rooms |-> [m.rooms EXCEPT ![r] = x],
               codes |-> [m.codes EXCEPT ![c] = None], links |-> [m.links EXCEPT ![p] = r]]
      BY <1>7 DEF Orderly, Manager
    <2>2. l = [issued |-> m.issued, rooms |-> [m.rooms EXCEPT ![r] = x],
               codes |-> [m.codes EXCEPT ![c] = None], links |-> m.links]
      <3>1. k = [issued |-> m.issued, rooms |-> m.rooms,
                 codes |-> [m.codes EXCEPT ![c] = None], links |-> m.links]
        BY DEF Orderly, Manager
      <3> HIDE DEF k, x, r
      <3> QED BY <3>1
    <2> HIDE DEF r, x, n, l
    <2> QED BY <1>1, <1>2, <2>1, <2>2 DEF Orderly, Manager
  <1> QED BY <1>6, <1>8 DEF Orderly, Unissued, CodesOpen, Exists

LEMMA JoinMatchOrderly ==
  ASSUME NEW m, Orderly(m), NEW p \in Player, NEW c \in Code
  PROVE  Orderly(JoinMatch(m, p, c).mgr)
  <1> DEFINE r == m.codes[c]
             free == Unlink(m, {p})
  <1>1. Orderly(free) /\ free.codes = m.codes
    BY UnlinkOrderly
  <1>2. CASE m.links[p] # None /\ r = m.links[p]
    <2>1. CASE Exists(m, r)
      BY <1>2, <2>1, ReconnectOrderly DEF JoinMatch, Exists
    <2>2. CASE ~Exists(m, r)
      BY <1>2, <2>2 DEF JoinMatch, Silently, Done
    <2> QED BY <2>1, <2>2
  <1>3. CASE ~(m.links[p] # None /\ r = m.links[p]) /\ InActiveRoom(m, p)
    BY <1>3 DEF JoinMatch, Silently, Done
  <1>4. CASE /\ ~(m.links[p] # None /\ r = m.links[p]) /\ ~InActiveRoom(m, p)
             /\ Exists(m, r) /\ m.rooms[r].beta = None
    <2>1. r # None
      BY <1>4, RoomAssumption DEF Exists
    <2>2. Orderly(Enter(free, r, p, c).mgr)
      BY <1>1, <2>1, EnterOrderly
    <2> QED BY <1>4, <2>2 DEF JoinMatch
  <1>5. CASE /\ ~(m.links[p] # None /\ r = m.links[p]) /\ ~InActiveRoom(m, p)
             /\ ~(Exists(m, r) /\ m.rooms[r].beta = None)
    BY <1>1, <1>5 DEF JoinMatch, Silently, Done
  <1> QED BY <1>2, <1>3, <1>4, <1>5

LEMMA RemovePlayerOrderly ==
  ASSUME NEW m, Orderly(m), NEW p \in Player
  PROVE  Orderly(RemovePlayer(m, p).mgr)
  BY DisconnectOrderly DEF RemovePlayer, Exists, Silently, Done

\* What abort_match does last: the code is given up.
LEMMA CodeGivenUp ==
  ASSUME NEW m, Orderly(m), NEW c \in Code, NEW n \in Manager,
         n.issued = m.issued, n.rooms = m.rooms, n.codes = [m.codes EXCEPT ![c] = None]
  PROVE  Orderly(n)
  BY DEF Orderly, Manager, Unissued, CodesOpen, Exists

LEMMA AbortMatchOrderly ==
  ASSUME NEW m, Orderly(m), NEW p \in Player
  PROVE  Orderly(AbortMatch(m, p).mgr)
  <1> DEFINE r == m.links[p]
             room == m.rooms[r]
             ended == IF room.life = "over" THEN Silently(m) ELSE Finish(m, r)
             left == Unlink(ended.mgr, Members(room))
  <1>1. CASE r = None
    BY <1>1 DEF AbortMatch, Silently, Done
  <1>2. CASE r # None /\ ~Exists(m, r)
    BY <1>2, UnlinkOrderly DEF AbortMatch, Silently, Done
  <1>3. CASE r # None /\ Exists(m, r)
    <2>1. r \in RoomId /\ room \in Room /\ room # None
      BY <1>3 DEF Exists, Orderly, Manager
    <2> DEFINE n == AbortMatch(m, p).mgr
    <2>2. n = [left EXCEPT !.codes[room.code] = None,
                           !.rooms[r] = IF room.life = "waiting" THEN None ELSE @]
      BY <1>3 DEF AbortMatch, Done
    <2>3. room.code \in Code
      BY <2>1 DEF Room
    <2>4. room.life = "over" => ended.mgr = m
      BY DEF Silently, Done
    <2>5. room.life = "running" => Orderly(ended.mgr)
      BY <2>1, FinishOrderly
    <2>6. room.life = "waiting" => ended.mgr = Finish(m, r).mgr
      OBVIOUS
    <2>7. room.life \in {"waiting", "running", "over"}
      BY <2>1 DEF Room
    <2>8. left \in Manager =>
            n = [issued |-> left.issued,
                 rooms |-> [left.rooms EXCEPT ![r] = IF room.life = "waiting" THEN None ELSE @],
                 codes |-> [left.codes EXCEPT ![room.code] = None],
                 links |-> left.links]
      <3> HIDE DEF left, n, room
      <3> QED BY <2>2 DEF Manager
    <2> HIDE DEF ended, n
    <2>9. CASE room.life # "waiting"
      <3>1. Orderly(left)
        BY <2>4, <2>5, <2>7, <2>9, UnlinkOrderly
      <3> HIDE DEF left, room
      <3>2. /\ n \in Manager /\ n.issued = left.issued /\ n.rooms = left.rooms
            /\ n.codes = [left.codes EXCEPT ![room.code] = None]
        BY <2>1, <2>3, <2>8, <2>9, <3>1 DEF Orderly, Manager
      <3>3. Orderly(n)
        BY <2>3, <3>1, <3>2, CodeGivenUp
      <3> QED BY <3>3 DEF n
    <2>10. CASE room.life = "waiting"
      <3> DEFINE x == [room EXCEPT !.life = "over"]
                 f == [m EXCEPT !.rooms[r] = x]
      <3>1. ended.mgr = f
        BY <2>6, <2>10 DEF Finish, Done
      <3>2. /\ f \in Manager /\ f.rooms = [m.rooms EXCEPT ![r] = x]
            /\ f.codes = m.codes /\ f.issued = m.issued
        BY <2>1 DEF Orderly, Manager, Room
      <3>3. /\ left \in Manager /\ left.rooms = f.rooms
            /\ left.codes = m.codes /\ left.issued = m.issued
        <4> HIDE DEF f
        <4> QED BY <3>1, <3>2 DEF Unlink, Manager
      <3> HIDE DEF left, x, f
      <3>4. /\ n \in Manager /\ n.issued = m.issued
            /\ n.rooms = [left.rooms EXCEPT ![r] = None]
            /\ n.codes = [m.codes EXCEPT ![room.code] = None]
        BY <2>1, <2>3, <2>8, <2>10, <3>3 DEF Manager
      <3>5. \A k \in RoomId : n.rooms[k] = IF k = r THEN None ELSE m.rooms[k]
        BY <3>2, <3>3, <3>4 DEF Orderly, Manager
      <3>6. \A k \in Code : n.codes[k] = None \/ (n.codes[k] = m.codes[k] /\ m.codes[k] # r)
        BY <2>1, <3>4, OwnCode DEF Manager, Orderly
      <3>7. Removes(m, r, n)
        BY <2>1, <3>4, <3>5, <3>6 DEF Removes
      <3>8. Orderly(n)
        BY <3>7, RoomRemoved
      <3> QED BY <3>8 DEF n
    <2> QED BY <2>9, <2>10
  <1> QED BY <1>1, <1>2, <1>3

LEMMA LeaveMatchOrderly ==
  ASSUME NEW m, Orderly(m), NEW p \in Player
  PROVE  Orderly(LeaveMatch(m, p).mgr)
  BY DisconnectOrderly, UnlinkOrderly DEF LeaveMatch, Exists, Silently, Done

LEMMA PurgeOrderly ==
  ASSUME NEW m, Orderly(m), NEW r \in RoomId
  PROVE  Orderly(Purge(m, r).mgr)
  <1> DEFINE n == Purge(m, r).mgr
             rs == [m.rooms EXCEPT ![r] = None]
             cs == [c \in Code |-> IF m.codes[c] = r THEN None ELSE m.codes[c]]
             ls == [p \in Player |-> IF m.links[p] = r THEN None ELSE m.links[p]]
  <1>1. n = [issued |-> m.issued, rooms |-> rs, codes |-> cs, links |-> ls]
    BY DEF Purge, Silently, Done, Orderly, Manager
  <1>2. /\ rs \in [RoomId -> Room \cup {None}] /\ cs \in [Code -> RoomId \cup {None}]
        /\ ls \in [Player -> RoomId \cup {None}] /\ m.issued \in 0..MaxRooms
        /\ \A k \in RoomId : rs[k] = IF k = r THEN None ELSE m.rooms[k]
    BY DEF Orderly, Manager
  <1> HIDE DEF n, rs, ls
  <1>3. /\ n \in Manager /\ n.issued = m.issued
        /\ \A k \in RoomId : n.rooms[k] = IF k = r THEN None ELSE m.rooms[k]
        /\ n.codes = [c \in Code |-> IF m.codes[c] = r THEN None ELSE m.codes[c]]
    BY <1>1, <1>2 DEF Manager
  <1>4. Removes(m, r, n)
    BY <1>3 DEF Removes, Orderly, Manager
  <1>5. Orderly(n)
    BY <1>4, RoomRemoved
  <1> QED BY <1>5 DEF n

-----------------------------------------------------------------------------
(* The browser and the sessions.                                           *)

\* A session, its player, what is under way to it, and the browser's end of it.
InOrder(se, w, u, l) ==
  /\ l = "connecting" => se = "free"
  /\ se = "free" => w = None /\ u = <<>>
  /\ w = None /\ se # "free" =>
       IF u = <<>> THEN se = "cut" ELSE u[1].type = "AUTHENTICATE"
  /\ \A i \in 1..Len(u) : u[i].type = "AUTHENTICATE" => i = 1 /\ w = None

Sessions ==
  /\ registry \in [Player -> Socket \cup {None}]
  /\ session \in [Socket -> {"free", "open", "cut"}]
  /\ who \in [Socket -> Player \cup {None}]
  /\ up \in [Socket -> Seq(Request)]
  /\ line \in [Socket -> {"none", "connecting", "open"}]
  /\ \A s \in Socket : InOrder(session[s], who[s], up[s], line[s])

\* What every handler of the App keeps, besides connected.
Keeps(a) ==
  /\ {"urlCode", "token", "connected"} \subseteq DOMAIN a
  /\ a.urlCode \in Code \cup {None}
  /\ a.token \in Me \cup {None}

Client == [ws : Socket \cup {None}, timer : BOOLEAN, token : Me]

Inv ==
  /\ Orderly(mgr)
  /\ Sessions
  /\ RegistrySound
  /\ Keeps(app) /\ app.connected \in BOOLEAN /\ client \in Client
  /\ OneLine

-----------------------------------------------------------------------------
(* The App.                                                                *)

LEMMA LoadedKeeps ==
  ASSUME NEW u, NEW named, NEW t \in Me
  PROVE  Keeps(Loaded(u, named, t)) /\ Loaded(u, named, t).connected = FALSE
  BY DEF Keeps, Loaded, Link

LEMMA ResetKeeps ==
  ASSUME NEW a, Keeps(a), NEW phase
  PROVE  Keeps(Reset(a, phase)) /\ Reset(a, phase).connected = a.connected
  BY DEF Keeps, Reset

LEMMA TimedKeeps ==
  ASSUME NEW a, Keeps(a)
  PROVE  Keeps(Timed(a)) /\ Timed(a).connected = a.connected
  BY DEF Keeps, Timed

LEMMA OnErrorKeeps ==
  ASSUME NEW a, Keeps(a)
  PROVE  Keeps(OnError(a)) /\ OnError(a).connected = a.connected
  BY DEF Keeps, OnError

LEMMA OnDisconnectedKeeps ==
  ASSUME NEW a, Keeps(a)
  PROVE  Keeps(OnDisconnected(a)) /\ OnDisconnected(a).connected = FALSE
  BY DEF Keeps, OnDisconnected

LEMMA OnConnectedKeeps ==
  ASSUME NEW a, Keeps(a)
  PROVE  Keeps(OnConnected(a)) /\ OnConnected(a).connected = TRUE
  BY DEF Keeps, OnConnected

LEMMA HeardKeeps ==
  ASSUME NEW a, Keeps(a), NEW msg
  PROVE  Keeps(Heard(a, msg)) /\ Heard(a, msg).connected = a.connected
  <1> DEFINE Same(b) == Keeps(b) /\ b.connected = a.connected
  <1>1. Same(OnAuthenticated(a, msg.inMatch))
    BY DEF OnAuthenticated, Keeps
  <1>2. Same(OnCreated(a, msg.room, msg.code))
    BY DEF OnCreated, Keeps
  <1>3. Same(OnStart(a, msg.room, msg.code))
    BY DEF OnStart, Keeps
  <1>4. Same(OnState(a, msg.room, msg.over))
    BY DEF OnState, Keeps
  <1>5. Same(OnRefused(a))
    <2>1. Same([a EXCEPT !.loading = FALSE])
      BY DEF Keeps
    <2>2. Same(Reset(a, Entry(a)))
      BY ResetKeeps
    <2> QED BY <2>1, <2>2 DEF OnRefused
  <1>6. Same(a)
    OBVIOUS
  <1> HIDE DEF Same
  <1>7. ASSUME NEW b, Same(b) PROVE Same(Timed(b))
    BY <1>7, TimedKeeps DEF Same
  <1>8. Same(Heard(a, msg))
    BY <1>1, <1>2, <1>3, <1>4, <1>5, <1>6, <1>7 DEF Heard
  <1> QED BY <1>8 DEF Same

-----------------------------------------------------------------------------
(* What is sent.                                                           *)

LEMMA NobodyIsNoPlayer == None \notin Player /\ None \notin Socket
  BY RoomAssumption, ServerAssumption

LEMMA RequestFields ==
  ASSUME NEW q \in Request
  PROVE  /\ q.type = "AUTHENTICATE" => q.token \in Player
         /\ q.type = "JOIN_MATCH" => q.code \in Code
         /\ q.type \in {"AUTHENTICATE", "CREATE_MATCH", "ABORT_MATCH", "LEAVE_MATCH", "JOIN_MATCH"}
  BY DEF Request

LEMMA Requests ==
  /\ \A t \in Player : Authenticate(t) \in Request /\ Authenticate(t).type = "AUTHENTICATE"
  /\ \A c \in Code : Join(c) \in Request /\ Join(c).type # "AUTHENTICATE"
  /\ \A k \in {"CREATE_MATCH", "ABORT_MATCH", "LEAVE_MATCH"} :
       Ask(k) \in Request /\ Ask(k).type # "AUTHENTICATE"
  BY DEF Authenticate, Join, Ask, Request

\* What follows AUTHENTICATE leaves a session in order.
LEMMA MoreInOrder ==
  ASSUME NEW w, NEW u \in Seq(Request), NEW l, NEW q \in Request,
         InOrder("open", w, u, l), q.type # "AUTHENTICATE"
  PROVE  InOrder("open", w, Append(u, q), l)
  BY DEF InOrder

LEMMA SendKeeps ==
  ASSUME Sessions, client \in Client, NEW q \in Request, q.type # "AUTHENTICATE",
         Send(q), UNCHANGED <<registry, session, who, line>>
  PROVE  Sessions'
  <1>1. CASE Online /\ session[client.ws] = "open"
    <2> DEFINE w == client.ws
    <2>1. w \in Socket
      BY <1>1 DEF Online, NoLine, Client
    <2>2. up' = [up EXCEPT ![w] = Append(@, q)]
      BY <1>1 DEF Send
    <2>3. up' \in [Socket -> Seq(Request)]
      BY <2>1, <2>2 DEF Sessions
    <2>4. InOrder(session[w], who[w], Append(up[w], q), line[w])
      BY <1>1, <2>1, MoreInOrder DEF Sessions
    <2>5. \A s \in Socket : InOrder(session[s], who[s], up'[s], line[s])
      BY <2>1, <2>2, <2>4 DEF Sessions
    <2> QED BY <2>3, <2>5 DEF Sessions
  <1>2. CASE ~(Online /\ session[client.ws] = "open")
    BY <1>2 DEF Send, Sessions
  <1> QED BY <1>1, <1>2

-----------------------------------------------------------------------------
(* The server.                                                             *)

LEMMA HandledOrderly ==
  ASSUME Orderly(mgr), NEW q \in Request, NEW p \in Player,
         q.type = "AUTHENTICATE" => q.token = p,
         NEW d \in Handled(p, q)
  PROVE  Orderly(d.mgr)
  <1>1. Orderly(Identified(p).mgr)
    <2>1. CASE Exists(mgr, mgr.links[p])
      BY <2>1, ReconnectOrderly DEF Identified, Silently, Done, Exists
    <2>2. CASE ~Exists(mgr, mgr.links[p])
      BY <2>2 DEF Identified, Silently, Done
    <2> QED BY <2>1, <2>2
  <1>2. CASE q.type = "AUTHENTICATE"
    BY <1>1, <1>2 DEF Handled
  <1>3. CASE q.type = "CREATE_MATCH"
    BY <1>3, CreateMatchOrderly DEF Handled
  <1>4. CASE q.type = "JOIN_MATCH"
    BY <1>4, RequestFields, JoinMatchOrderly DEF Handled
  <1>5. CASE q.type = "ABORT_MATCH"
    BY <1>5, AbortMatchOrderly DEF Handled
  <1>6. CASE q.type = "LEAVE_MATCH"
    BY <1>6, LeaveMatchOrderly DEF Handled
  <1> QED BY <1>2, <1>3, <1>4, <1>5, <1>6, RequestFields

\* Whom a session speaks for once it has handled the first message under way to it.
LEMMA HeadInOrder ==
  ASSUME NEW w \in Player \cup {None}, NEW u \in Seq(Request), u # <<>>, NEW se, NEW l,
         se # "free", InOrder(se, w, u, l)
  PROVE  LET q == Head(u)
             p == IF q.type = "AUTHENTICATE" THEN q.token ELSE w
         IN  /\ q \in Request
             /\ p \in Player
             /\ q.type = "AUTHENTICATE" <=> w = None
             /\ Tail(u) \in Seq(Request)
             /\ InOrder(se, p, Tail(u), l)
  <1>1. Head(u) \in Request /\ Head(u) = u[1] /\ Len(u) \in Nat \ {0}
    OBVIOUS
  <1>2. (Head(u).type = "AUTHENTICATE") <=> (w = None)
    BY <1>1 DEF InOrder
  <1>3. \A i \in 1..Len(u) : u[i].type = "AUTHENTICATE" => i = 1
    BY DEF InOrder
  <1>4. Tail(u) \in Seq(Request) /\ Len(Tail(u)) = Len(u) - 1
    OBVIOUS
  <1>5. \A i \in 1..Len(Tail(u)) : Tail(u)[i] = u[i + 1]
    OBVIOUS
  <1>6. \A i \in 1..Len(Tail(u)) : Tail(u)[i].type # "AUTHENTICATE"
    <2> SUFFICES ASSUME NEW i \in 1..Len(Tail(u)) PROVE Tail(u)[i].type # "AUTHENTICATE"
      OBVIOUS
    <2>1. i + 1 \in 1..Len(u) /\ i + 1 # 1
      BY <1>1, <1>4
    <2> QED BY <1>3, <1>5, <2>1
  <1> DEFINE p == IF Head(u).type = "AUTHENTICATE" THEN Head(u).token ELSE w
  <1>7. p \in Player
    BY <1>1, <1>2, RequestFields
  <1>8. InOrder(se, p, Tail(u), l)
    BY <1>6, <1>7, NobodyIsNoPlayer DEF InOrder
  <1> QED BY <1>1, <1>2, <1>4, <1>7, <1>8

\* Nothing of the browser changes.
Apart == UNCHANGED browserVars

LEMMA ApartKeeps ==
  ASSUME Inv, Apart
  PROVE  Keeps(app') /\ app'.connected \in BOOLEAN /\ client' \in Client /\ OneLine'
  BY DEF Inv, Apart, browserVars, OneLine, Online, NoLine

LEMMA ServerReceivesInv ==
  ASSUME Inv, NEW s \in Socket, ServerReceives(s), Apart
  PROVE  Inv'
  <1> DEFINE q == Head(up[s])
             first == q.type = "AUTHENTICATE"
             p == IF first THEN q.token ELSE who[s]
  <1>1. /\ who[s] \in Player \cup {None} /\ up[s] \in Seq(Request) /\ up[s] # <<>>
        /\ session[s] # "free" /\ InOrder(session[s], who[s], up[s], line[s])
    BY DEF Inv, Sessions, ServerReceives
  <1>2. /\ q \in Request /\ p \in Player /\ (first <=> who[s] = None)
        /\ Tail(up[s]) \in Seq(Request)
        /\ InOrder(session[s], p, Tail(up[s]), line[s])
    BY <1>1, HeadInOrder
  <1>3. /\ who' = [who EXCEPT ![s] = p]
        /\ registry' = IF first THEN [registry EXCEPT ![p] = s] ELSE registry
        /\ up' = [up EXCEPT ![s] = Tail(up[s])]
        /\ session' = session /\ line' = line
        /\ \E d \in Handled(p, q) : mgr' = d.mgr
    BY DEF ServerReceives, Apart, browserVars
  <1> HIDE DEF q, first, p
  <1>4. Orderly(mgr')
    <2>1. PICK d \in Handled(p, q) : mgr' = d.mgr
      BY <1>3
    <2>2. q.type = "AUTHENTICATE" => q.token = p
      BY DEF p, first
    <2> QED BY <1>2, <2>1, <2>2, HandledOrderly DEF Inv
  <1>5. Sessions'
    BY <1>2, <1>3 DEF Inv, Sessions
  <1>6. RegistrySound'
    <2> SUFFICES ASSUME NEW k \in Player, registry'[k] # None
                 PROVE  session'[registry'[k]] # "free" /\ who'[registry'[k]] = k
      BY DEF RegistrySound
    <2>1. CASE first /\ k = p
      BY <1>1, <1>2, <1>3, <2>1 DEF Inv, Sessions
    <2>2. CASE first /\ k # p
      <3>1. registry'[k] = registry[k] /\ registry[k] # None
        BY <1>3, <2>2 DEF Inv, Sessions
      <3>2. session[registry[k]] # "free" /\ who[registry[k]] = k
        BY <3>1 DEF Inv, RegistrySound
      <3>3. registry[k] # s
        BY <1>2, <2>2, <3>2, NobodyIsNoPlayer
      <3> QED BY <1>3, <3>1, <3>2, <3>3 DEF Inv, Sessions
    <2>3. CASE ~first
      <3>1. p = who[s] /\ who' = who
        BY <1>3, <2>3 DEF p, Inv, Sessions
      <3> QED BY <1>3, <2>3, <3>1 DEF Inv, RegistrySound
    <2> QED BY <2>1, <2>2, <2>3
  <1> QED BY <1>4, <1>5, <1>6, ApartKeeps DEF Inv

LEMMA ServerNoticesInv ==
  ASSUME Inv, NEW s \in Socket, ServerNotices(s), Apart
  PROVE  Inv'
  <1>1. /\ session[s] = "cut" /\ up[s] = <<>> /\ up' = up /\ line' = line
        /\ session' = [session EXCEPT ![s] = "free"] /\ who' = [who EXCEPT ![s] = None]
    BY DEF ServerNotices, Apart, browserVars
  <1>2. line[s] \in {"none", "connecting", "open"} /\ who[s] \in Player \cup {None}
    BY DEF Inv, Sessions
  <1>3. IF who[s] = None
        THEN registry' = registry /\ mgr' = mgr
        ELSE /\ registry' = [registry EXCEPT ![who[s]] = None]
             /\ mgr' = RemovePlayer(mgr, who[s]).mgr
    BY DEF ServerNotices
  <1>4. Orderly(mgr')
    BY <1>2, <1>3, RemovePlayerOrderly DEF Inv
  <1>5. Sessions'
    <2>1. registry' \in [Player -> Socket \cup {None}]
      BY <1>2, <1>3 DEF Inv, Sessions
    <2>2. InOrder("free", None, up[s], line[s])
      BY <1>1 DEF InOrder
    <2> QED BY <1>1, <2>1, <2>2 DEF Inv, Sessions
  <1>6. RegistrySound'
    <2> SUFFICES ASSUME NEW k \in Player, registry'[k] # None
                 PROVE  session'[registry'[k]] # "free" /\ who'[registry'[k]] = k
      BY DEF RegistrySound
    <2>1. registry'[k] = registry[k] /\ k # who[s]
      BY <1>2, <1>3, NobodyIsNoPlayer DEF Inv, Sessions
    <2>2. registry[k] # s
      BY <2>1 DEF Inv, RegistrySound
    <2>3. registry[k] \in Socket
      BY <2>1 DEF Inv, Sessions
    <2> QED BY <1>1, <2>1, <2>2, <2>3 DEF Inv, Sessions, RegistrySound
  <1> QED BY <1>4, <1>5, <1>6, ApartKeeps DEF Inv

\* A step that leaves the sessions and the browser alone.
LEMMA ManagerStepInv ==
  ASSUME Inv, Apart, UNCHANGED <<registry, session, who, up>>, Orderly(mgr')
  PROVE  Inv'
  <1>1. Sessions' /\ RegistrySound'
    BY DEF Inv, Sessions, RegistrySound, Apart, browserVars
  <1> QED BY <1>1, ApartKeeps DEF Inv

LEMMA PeerActsInv ==
  ASSUME Inv, NEW k \in Peer, PeerActs(k), Apart
  PROVE  Inv'
  <1>1. k \in Player
    BY ServerAssumption
  <1>2. PICK d \in PeerAsks(k) : mgr' = d.mgr
    BY DEF PeerActs
  <1>3. Orderly(mgr)
    BY DEF Inv
  <1>4. Orderly(mgr')
    <2>1. CASE d \in CreateMatch(mgr, k)
      BY <1>1, <1>2, <1>3, <2>1, CreateMatchOrderly
    <2>2. CASE d \in {JoinMatch(mgr, k, c) : c \in Code}
      BY <1>1, <1>2, <1>3, <2>2, JoinMatchOrderly
    <2>3. CASE d = AbortMatch(mgr, k)
      BY <1>1, <1>2, <1>3, <2>3, AbortMatchOrderly
    <2>4. CASE d = LeaveMatch(mgr, k)
      BY <1>1, <1>2, <1>3, <2>4, LeaveMatchOrderly
    <2>5. CASE Exists(mgr, mgr.links[k]) /\ d = Reconnect(mgr, mgr.links[k], k)
      BY <1>1, <1>2, <1>3, <2>5, ReconnectOrderly DEF Exists
    <2> QED BY <1>2, <2>1, <2>2, <2>3, <2>4, <2>5 DEF PeerAsks
  <1> QED BY <1>4, ManagerStepInv DEF PeerActs

LEMMA ServerNextInv ==
  ASSUME Inv, ServerNext, Apart
  PROVE  Inv'
  <1>1. ASSUME NEW s \in Socket, ServerReceives(s) \/ ServerNotices(s) PROVE Inv'
    BY <1>1, ServerReceivesInv, ServerNoticesInv
  <1>2. ASSUME NEW k \in Peer, PeerActs(k) PROVE Inv'
    BY <1>2, PeerActsInv
  <1>3. ASSUME NEW r \in RoomId, Play(r) PROVE Inv'
    BY <1>3, ManagerStepInv DEF Play, Inv
  <1>4. ASSUME NEW r \in RoomId, GameEnds(r) PROVE Inv'
    BY <1>4, FinishOrderly, ManagerStepInv DEF GameEnds, Exists, Inv
  <1>5. ASSUME NEW r \in RoomId, RoomExpires(r) PROVE Inv'
    BY <1>5, PurgeOrderly, ManagerStepInv DEF RoomExpires, Inv
  <1> QED BY <1>1, <1>2, <1>3, <1>4, <1>5 DEF ServerNext

-----------------------------------------------------------------------------
(* The connection.                                                         *)

LEMMA OpensInv ==
  ASSUME Inv, NEW s \in Socket, Opens(s)
  PROVE  Inv'
  <1>1. /\ line[s] = "connecting" /\ line' = [line EXCEPT ![s] = "open"]
        /\ session' = [session EXCEPT ![s] = "open"]
        /\ up' = [up EXCEPT ![s] = <<Authenticate(client.token)>>]
        /\ mgr' = mgr /\ registry' = registry /\ who' = who /\ client' = client
        /\ app' = OnConnected(app)
    BY DEF Opens
  <1>2. session[s] = "free" /\ who[s] = None
    BY <1>1 DEF Inv, Sessions, InOrder
  <1> DEFINE u == <<Authenticate(client.token)>>
  <1>3. client.token \in Player
    BY DEF Inv, Client, Me
  <1>4. u \in Seq(Request) /\ u # <<>> /\ Len(u) = 1 /\ u[1].type = "AUTHENTICATE"
    BY <1>3, Requests
  <1> HIDE DEF u
  <1>5. InOrder("open", None, u, "open")
    BY <1>4 DEF InOrder
  <1>6. Sessions'
    BY <1>1, <1>2, <1>4, <1>5 DEF Inv, Sessions, u
  <1>7. RegistrySound'
    BY <1>1 DEF Inv, Sessions, RegistrySound
  <1>8. Keeps(app') /\ app'.connected = TRUE
    BY <1>1, OnConnectedKeeps DEF Inv
  <1>9. client.ws = s
    BY <1>1 DEF Inv, OneLine
  <1>10. OneLine'
    BY <1>1, <1>8, <1>9, NobodyIsNoPlayer DEF Inv, Sessions, OneLine, Online, NoLine
  <1> QED BY <1>1, <1>6, <1>7, <1>8, <1>10 DEF Inv

\* The socket closes while the sessions stay as they are.
LEMMA ClosedInv ==
  ASSUME Inv, NEW s \in Socket, line[s] # "none", NEW a, Keeps(a), Closed(s, a),
         UNCHANGED <<mgr, registry, session, who, up>>
  PROVE  Inv'
  <1>1. /\ line' = [line EXCEPT ![s] = "none"] /\ app' = Timed(OnDisconnected(a))
        /\ client' = [client EXCEPT !.ws = None, !.timer = TRUE]
    BY DEF Closed
  <1>2. Keeps(app') /\ app'.connected = FALSE
    BY <1>1, OnDisconnectedKeeps, TimedKeeps
  <1>3. client' \in Client /\ client'.ws = None /\ client'.timer = TRUE
    BY <1>1 DEF Inv, Client
  <1>4. client.ws = s
    BY DEF Inv, OneLine
  <1>5. OneLine'
    BY <1>1, <1>2, <1>3, <1>4, NobodyIsNoPlayer DEF Inv, Sessions, OneLine, Online, NoLine
  <1>6. InOrder(session[s], who[s], up[s], "none")
    BY DEF Inv, Sessions, InOrder
  <1>7. Sessions' /\ RegistrySound'
    BY <1>1, <1>6 DEF Inv, Sessions, RegistrySound
  <1> QED BY <1>2, <1>3, <1>5, <1>7 DEF Inv

LEMMA FailsInv ==
  ASSUME Inv, NEW s \in Socket, Fails(s)
  PROVE  Inv'
  <1>1. Keeps(OnError(app))
    BY OnErrorKeeps DEF Inv
  <1> QED BY <1>1, ClosedInv DEF Fails

LEMMA DropsInv ==
  ASSUME Inv, NEW s \in Socket, Drops(s)
  PROVE  Inv'
  <1>1. Keeps(app) /\ Keeps(OnError(app))
    BY OnErrorKeeps DEF Inv
  <1> QED BY <1>1, ClosedInv DEF Drops, serverVars

LEMMA LinkBreaksInv ==
  ASSUME Inv, NEW s \in Socket, LinkBreaks(s)
  PROVE  Inv'
  <1>1. PICK n \in 0..Len(up[s]) : up' = [up EXCEPT ![s] = SubSeq(up[s], 1, n)]
    BY DEF LinkBreaks
  <1>2. /\ session[s] = "open" /\ session' = [session EXCEPT ![s] = "cut"]
        /\ mgr' = mgr /\ registry' = registry /\ who' = who /\ line' = line
        /\ client' = client /\ app' = app
    BY DEF LinkBreaks
  <1> DEFINE u == SubSeq(up[s], 1, n)
  <1>3. up[s] \in Seq(Request) /\ InOrder("open", who[s], up[s], line[s])
    BY <1>2 DEF Inv, Sessions
  <1>4. u \in Seq(Request) /\ Len(u) = n /\ \A i \in 1..n : u[i] = up[s][i]
    BY <1>3
  <1>5. Len(up[s]) \in Nat /\ n \in Nat /\ n <= Len(up[s]) /\ (u # <<>> => n >= 1 /\ up[s] # <<>>)
    BY <1>3, <1>4
  <1> HIDE DEF u
  <1>6. InOrder("cut", who[s], u, line[s])
    BY <1>3, <1>4, <1>5 DEF InOrder
  <1>7. Sessions'
    BY <1>1, <1>2, <1>4, <1>6 DEF Inv, Sessions, u
  <1>8. RegistrySound'
    BY <1>2 DEF Inv, Sessions, RegistrySound
  <1>9. OneLine'
    BY <1>2 DEF Inv, OneLine, Online, NoLine
  <1> QED BY <1>2, <1>7, <1>8, <1>9 DEF Inv

LEMMA RedialsInv ==
  ASSUME Inv, Redials
  PROVE  Inv'
  <1>1. Slot \in Unused
    BY DEF Redials, Slot
  <1>2. /\ client.timer
        /\ line' = [line EXCEPT ![Slot] = "connecting"]
        /\ client' = [client EXCEPT !.ws = Slot, !.timer = FALSE]
        /\ mgr' = mgr /\ registry' = registry /\ session' = session /\ who' = who
        /\ up' = up /\ app' = app
    BY DEF Redials, serverVars
  <1>3. Slot \in Socket /\ line[Slot] = "none" /\ session[Slot] = "free"
    BY <1>1 DEF Unused
  <1> HIDE DEF Slot
  <1>4. client' \in Client /\ client'.ws = Slot /\ client'.timer = FALSE
    BY <1>2, <1>3 DEF Inv, Client
  <1>5. InOrder(session[Slot], who[Slot], up[Slot], "connecting")
    BY <1>3 DEF Inv, Sessions, InOrder
  <1>6. Sessions' /\ RegistrySound'
    BY <1>2, <1>3, <1>5 DEF Inv, Sessions, RegistrySound
  <1>7. client.ws = None /\ \A s \in Socket : line[s] = "none"
    BY <1>2, NobodyIsNoPlayer DEF Inv, OneLine
  <1>8. OneLine'
    BY <1>2, <1>3, <1>4, <1>7, NobodyIsNoPlayer DEF Inv, Sessions, OneLine, Online, NoLine
  <1> QED BY <1>2, <1>4, <1>6, <1>8 DEF Inv

\* A step of the App that may ask something of the server.
LEMMA AppStepInv ==
  ASSUME Inv, Keeps(app'), app'.connected = app.connected,
         UNCHANGED <<mgr, registry, session, who, line, client>>, Sessions'
  PROVE  Inv'
  BY DEF Inv, RegistrySound, OneLine, Online, NoLine

LEMMA QuietStepInv ==
  ASSUME Inv, Keeps(app'), app'.connected = app.connected,
         UNCHANGED <<mgr, registry, session, who, up, line, client>>
  PROVE  Inv'
  <1>1. Sessions'
    BY DEF Inv, Sessions
  <1> QED BY <1>1, AppStepInv

LEMMA ClicksInv ==
  ASSUME Inv, NEW a, Keeps(a), a.connected = app.connected,
         NEW q \in Request, q.type # "AUTHENTICATE", Clicks(a, q)
  PROVE  Inv'
  <1>1. Sessions'
    BY SendKeeps DEF Clicks, Inv
  <1> QED BY <1>1, AppStepInv DEF Clicks

LEMMA HearsInv ==
  ASSUME Inv, NEW s \in Socket, Hears(s)
  PROVE  Inv'
  BY HeardKeeps, QuietStepInv DEF Hears, Inv

LEMMA RendersInv ==
  ASSUME Inv, Renders
  PROVE  Inv'
  <1>1. CASE JoinsByURL
    <2>1. Join(app.urlCode) \in Request /\ Join(app.urlCode).type # "AUTHENTICATE"
      BY <1>1, Requests DEF JoinsByURL, Inv, Keeps
    <2>2. Sessions'
      BY <1>1, <2>1, SendKeeps DEF Renders, Inv
    <2>3. app' = [Linking(app) EXCEPT !.fresh = FALSE, !.joined = TRUE]
      BY <1>1 DEF Renders
    <2>4. Keeps(Linking(app)) /\ Linking(app).connected = app.connected
      BY DEF Inv, Keeps, Linking
    <2> DEFINE l == Linking(app)
    <2> HIDE DEF l
    <2>5. Keeps(app') /\ app'.connected = l.connected
      BY <2>3, <2>4 DEF Keeps, l
    <2> QED BY <2>2, <2>4, <2>5, AppStepInv DEF Renders, l
  <1>2. CASE ~JoinsByURL
    <2>1. app' = [app EXCEPT !.fresh = FALSE]
      BY <1>2 DEF Renders
    <2>2. Keeps(app') /\ app'.connected = app.connected
      BY <2>1 DEF Inv, Keeps
    <2> QED BY <1>2, <2>2, QuietStepInv DEF Renders
  <1> QED BY <1>1, <1>2

LEMMA TimersInv ==
  ASSUME Inv, FallsBack \/ Enters
  PROVE  Inv'
  <1>1. Keeps(app') /\ app'.connected = app.connected
    BY DEF Inv, Keeps, FallsBack, Enters
  <1> QED BY <1>1, QuietStepInv DEF FallsBack, Enters, serverVars

-----------------------------------------------------------------------------
(* The person.                                                             *)

LEMMA PersonInv ==
  ASSUME Inv,
         \/ SubmitsName \/ InitiatesOperation \/ TerminatesLink \/ Abandons \/ Returns
         \/ \E c \in Code : LinksToNetwork(c)
  PROVE  Inv'
  <1> DEFINE Same(a) == Keeps(a) /\ a.connected = app.connected
  <1>1. Keeps(app)
    BY DEF Inv
  <1>2. \A phase : Same(Reset(app, phase))
    BY <1>1, ResetKeeps
  <1>3. CASE SubmitsName
    <2>1. Same(Named(app))
      BY <1>1 DEF Keeps, Named
    <2> QED BY <1>3, <2>1, QuietStepInv DEF SubmitsName
  <1>4. CASE InitiatesOperation
    <2>1. Same([app EXCEPT !.loading = Online, !.code = None, !.ref = None])
      BY <1>1 DEF Keeps
    <2> QED BY <1>4, <2>1, Requests, ClicksInv DEF InitiatesOperation
  <1>5. CASE TerminatesLink
    <2> DEFINE a == Reset(app, "entering-name")
    <2>1. Same(a)
      BY <1>2
    <2> HIDE DEF a
    <2>2. Same([a EXCEPT !.named = FALSE, !.token = None])
      BY <2>1 DEF Keeps
    <2>3. Wiped(app) = [a EXCEPT !.named = FALSE, !.token = None]
      BY DEF Wiped, a
    <2> QED BY <1>5, <2>2, <2>3, Requests, ClicksInv DEF TerminatesLink
  <1>6. CASE Abandons
    BY <1>2, <1>6, Requests, ClicksInv DEF Abandons
  <1>7. CASE Returns
    BY <1>2, <1>7, Requests, ClicksInv DEF Returns
  <1>8. ASSUME NEW c \in Code, LinksToNetwork(c) PROVE Inv'
    <2>1. Same(Linking(app))
      BY <1>1 DEF Keeps, Linking
    <2> QED BY <1>8, <2>1, Requests, ClicksInv DEF LinksToNetwork
  <1> QED BY <1>3, <1>4, <1>5, <1>6, <1>7, <1>8

LEMMA ReloadsInv ==
  ASSUME Inv, NEW u, Reloads(u)
  PROVE  Inv'
  <1>1. Slot \in Unused
    BY DEF Reloads, Slot
  <1>2. Slot \in Socket /\ session[Slot] = "free"
    BY <1>1 DEF Unused
  <1> HIDE DEF Slot
  <1>3. PICK t \in Tokens : /\ app' = Loaded(u, app.named, t)
                            /\ client' = [ws |-> Slot, timer |-> FALSE, token |-> t]
    BY DEF Reloads
  <1>4. t \in Me
    BY DEF Tokens, Inv, Keeps
  <1>5. Keeps(app') /\ app'.connected = FALSE
    BY <1>3, <1>4, LoadedKeeps
  <1>6. client' \in Client /\ client'.ws = Slot /\ client'.timer = FALSE
    BY <1>2, <1>3, <1>4 DEF Client
  <1>7. /\ line' = [x \in Socket |-> IF x = Slot THEN "connecting" ELSE "none"]
        /\ session' = [x \in Socket |->
                         IF x = client.ws /\ session[x] = "open" THEN "cut" ELSE session[x]]
        /\ mgr' = mgr /\ registry' = registry /\ who' = who /\ up' = up
    BY DEF Reloads
  <1>8. ASSUME NEW x \in Socket PROVE InOrder(session'[x], who[x], up[x], line'[x])
    <2>1. InOrder(session[x], who[x], up[x], line[x])
      BY DEF Inv, Sessions
    <2> QED BY <1>2, <1>7, <2>1 DEF InOrder
  <1>9. session' \in [Socket -> {"free", "open", "cut"}]
    BY <1>7 DEF Inv, Sessions
  <1>10. Sessions'
    BY <1>7, <1>8, <1>9 DEF Inv, Sessions
  <1>11. RegistrySound'
    BY <1>7 DEF Inv, Sessions, RegistrySound
  <1>12. OneLine'
    BY <1>2, <1>5, <1>6, <1>7, NobodyIsNoPlayer DEF OneLine, Online, NoLine
  <1> QED BY <1>5, <1>6, <1>7, <1>10, <1>11, <1>12 DEF Inv

-----------------------------------------------------------------------------

\* Removing a player touches neither the codes nor what has been issued.
LEMMA RemovePlayerKeeps ==
  ASSUME NEW m \in Manager, NEW p
  PROVE  /\ RemovePlayer(m, p).mgr.issued = m.issued
         /\ RemovePlayer(m, p).mgr.codes = m.codes
  BY DEF RemovePlayer, Disconnect, Silently, Done, Manager

LEMMA ServedOrderly ==
  ASSUME NEW t \in Me, NEW m \in Served(t)
  PROVE  Orderly(m)
  <1> DEFINE c == CHOOSE x \in Code : TRUE
             New(k) == NewRoom(NoRooms, k, c).mgr
             In(k) == Enter(New(k), 1, t, c).mgr
             Left(k) == RemovePlayer(In(k), t).mgr
  <1>1. c \in Code /\ t \in Player
    BY BrowserAssumption DEF Me
  <1> HIDE DEF c
  <1>2. ASSUME NEW k \in Peer
        PROVE  Orderly(Left(k)) /\ Left(k).issued = 1 /\ Left(k).codes[c] = None
    <2>1. k \in Player
      BY ServerAssumption
    <2>2. NoRooms.issued = 0 /\ NoRooms.codes[c] = None
      BY <1>1 DEF NoRooms
    <2>3. Orderly(New(k)) /\ New(k).codes[c] = 1
      BY <1>1, <2>1, <2>2, NoRoomsOrderly, NewRoomOrderly, RoomAssumption
    <2>4. New(k).issued = 1
      BY <1>1, <2>1, <2>2, NoRoomsOrderly, NewRoomOrderly, RoomAssumption
    <2>5. 1 # None
      BY RoomAssumption DEF RoomId
    <2> HIDE DEF New
    <2>6. Orderly(In(k))
      BY <1>1, <2>3, <2>5, EnterOrderly
    <2>7. In(k).issued = 1 /\ In(k).codes[c] = None
      BY <1>1, <2>3, <2>4 DEF Enter, Done, Orderly, Manager
    <2> HIDE DEF In
    <2>8. In(k) \in Manager
      BY <2>6 DEF Orderly
    <2> QED BY <1>1, <2>6, <2>7, <2>8, RemovePlayerOrderly, RemovePlayerKeeps
  <1>3. ASSUME NEW k \in Peer, NEW l \in Peer, MaxRooms > 1
        PROVE  Orderly(NewRoom(Left(k), l, c).mgr)
    <2>1. l \in Player
      BY ServerAssumption
    <2> HIDE DEF Left
    <2> QED BY <1>1, <1>2, <1>3, <2>1, NewRoomOrderly
  <1>4. \/ m = NoRooms
        \/ \E k \in Peer : m = Left(k)
        \/ MaxRooms > 1 /\ \E k \in Peer, l \in Peer : m = NewRoom(Left(k), l, c).mgr
    BY DEF Served, c
  <1> QED BY <1>2, <1>3, <1>4, NoRoomsOrderly

LEMMA InitInv == Init => Inv
  <1> SUFFICES ASSUME Init PROVE Inv
    OBVIOUS
  <1> DEFINE s == CHOOSE x \in Socket : TRUE
             t == CHOOSE x \in Me : TRUE
  <1>1. s \in Socket /\ t \in Me /\ t \in Player
    BY BrowserAssumption DEF Me
  <1>2. /\ mgr \in Served(t)
        /\ \E named, u : app = Loaded(u, named, t)
        /\ client = [ws |-> s, timer |-> FALSE, token |-> t]
        /\ line = [x \in Socket |-> IF x = s THEN "connecting" ELSE "none"]
        /\ ServerInit
    BY DEF Init
  <1> HIDE DEF s, t
  <1>3. Orderly(mgr)
    BY <1>1, <1>2, ServedOrderly
  <1>4. Keeps(app) /\ app.connected = FALSE
    BY <1>1, <1>2, LoadedKeeps
  <1>5. Sessions
    BY <1>2 DEF ServerInit, Sessions, InOrder
  <1>6. RegistrySound
    BY <1>2 DEF ServerInit, RegistrySound
  <1>7. client \in Client /\ OneLine
    BY <1>1, <1>2, <1>4, NobodyIsNoPlayer DEF Client, OneLine, Online, NoLine
  <1> QED BY <1>3, <1>4, <1>5, <1>6, <1>7 DEF Inv

LEMMA NextInv == Inv /\ [Next]_vars => Inv'
  <1> SUFFICES ASSUME Inv, [Next]_vars PROVE Inv'
    OBVIOUS
  <1>1. CASE UNCHANGED vars
    BY <1>1, QuietStepInv DEF vars, serverVars, browserVars, Inv
  <1>2. CASE Proceeds
    BY <1>2, RendersInv, TimersInv, RedialsInv, OpensInv, DropsInv, HearsInv DEF Proceeds
  <1>3. CASE Person
    BY <1>3, PersonInv, ReloadsInv DEF Person
  <1>4. ASSUME NEW s \in Socket, Fails(s) \/ LinkBreaks(s) PROVE Inv'
    BY <1>4, FailsInv, LinkBreaksInv
  <1>5. CASE ServerNext /\ UNCHANGED browserVars
    BY <1>5, ServerNextInv DEF Apart
  <1> QED BY <1>1, <1>2, <1>3, <1>4, <1>5 DEF Next

\* The invariant, of every run of one browser and the server.
THEOREM SpecInv == Spec => []Inv
  BY InitInv, NextInv, PTL DEF Spec

\* At any moment, for any numbers of players, sockets, codes and rooms, a code leads
\* to a room that waits for its second player, or nowhere: no order of creating,
\* joining, aborting, leaving, breaking and expiring gets around it.
THEOREM CodesOpenRoomsHolds == Spec => []CodesOpenRooms
  <1>1. Inv => CodesOpenRooms
    BY DEF Inv, Orderly, CodesOpen, CodesOpenRooms
  <1> QED BY <1>1, SpecInv, PTL

\* The registry leads to live sessions of the right player, however the old and the
\* new sessions of a player interleave.
THEOREM RegistrySoundHolds == Spec => []RegistrySound
  <1>1. Inv => RegistrySound
    BY DEF Inv
  <1> QED BY <1>1, SpecInv, PTL

\* The browser never has two sockets, two attempts or none, and its App knows.
THEOREM OneLineHolds == Spec => []OneLine
  <1>1. Inv => OneLine
    BY DEF Inv
  <1> QED BY <1>1, SpecInv, PTL

-----------------------------------------------------------------------------
(* What the manager sends.                                                 *)

\* What has been sent to each player.
Outs == [Player -> Seq(Message)]

LEMMA MessageKinds ==
  ASSUME NEW r \in RoomId
  PROVE  /\ \A c \in Code : Created(r, c) \in Message /\ Started(r, c) \in Message
         /\ \A over \in BOOLEAN : StateOf(r, over) \in Message
         /\ GameOver(r) \in Message
         /\ \A in \in BOOLEAN : Authenticated(in) \in Message
         /\ Refused \in Message
  BY DEF Message, Created, Started, StateOf, GameOver, Authenticated, Refused

\* What a handler may take from a message.
LEMMA MessageFields ==
  ASSUME NEW msg \in Message
  PROVE  /\ msg.type \in {"MATCH_CREATED", "MATCH_START"} =>
              msg.room \in RoomId /\ msg.code \in Code
         /\ msg.type = "MATCH_STATE" => msg.room \in RoomId /\ msg.over \in BOOLEAN
         /\ msg.type = "AUTHENTICATED" => msg.inMatch \in BOOLEAN
  BY DEF Message

LEMMA NothingSent == Nothing \in Outs
  BY DEF Nothing, Outs

LEMMA SendToSent ==
  ASSUME NEW out \in Outs, NEW p, NEW msg \in Message
  PROVE  SendTo(out, p, msg) \in Outs
  BY DEF SendTo, Outs

LEMMA SendBothSent ==
  ASSUME NEW out \in Outs, NEW room, NEW msg \in Message
  PROVE  SendBoth(out, room, msg) \in Outs
  BY SendToSent DEF SendBoth

LEMMA BroadcastSent ==
  ASSUME NEW out \in Outs, NEW room, NEW r \in RoomId
  PROVE  Broadcast(out, room, r) \in Outs
  <1>1. PICK over \in BOOLEAN : over = (room.life = "over")
    OBVIOUS
  <1>2. StateOf(r, over) \in Message
    BY MessageKinds
  <1> QED BY <1>1, <1>2, SendBothSent DEF Broadcast

LEMMA SilentlySent == \A m : Silently(m).out \in Outs
  BY NothingSent DEF Silently, Done

LEMMA FinishSent ==
  ASSUME NEW m, NEW r \in RoomId
  PROVE  Finish(m, r).out \in Outs
  <1> DEFINE room == [m.rooms[r] EXCEPT !.life = "over"]
  <1> HIDE DEF room
  <1>1. SendBoth(Nothing, room, GameOver(r)) \in Outs
    BY NothingSent, SendBothSent, MessageKinds
  <1>2. Broadcast(SendBoth(Nothing, room, GameOver(r)), room, r) \in Outs
    BY <1>1, BroadcastSent
  <1> QED BY <1>2 DEF Finish, Done, room

LEMMA ReconnectSent ==
  ASSUME NEW m, Orderly(m), NEW r \in RoomId, m.rooms[r] # None, NEW p \in Player
  PROVE  Reconnect(m, r, p).out \in Outs
  <1> DEFINE room == m.rooms[r]
             state == StateOf(r, room.life = "over")
             again == SendTo(SendTo(Nothing, p, Started(r, room.code)), p, state)
  <1>1. room.code \in Code
    BY DEF Orderly, Manager, Room
  <1>2. state \in Message
    <2>1. PICK over \in BOOLEAN : over = (room.life = "over")
      OBVIOUS
    <2> QED BY <2>1, MessageKinds
  <1> HIDE DEF room, state
  <1>3. SendTo(Nothing, p, Started(r, room.code)) \in Outs
    BY <1>1, NothingSent, SendToSent, MessageKinds
  <1>4. again \in Outs
    BY <1>2, <1>3, SendToSent
  <1> HIDE DEF again
  <1>5. SendTo(again, OpponentOf(room, p), state) \in Outs
    BY <1>2, <1>4, SendToSent
  <1>6. SendTo(Nothing, p, Created(r, room.code)) \in Outs
    BY <1>1, NothingSent, SendToSent, MessageKinds
  <1>7. Reconnect(m, r, p).out
          = IF room.life # "waiting" THEN SendTo(again, OpponentOf(room, p), state)
            ELSE IF p = room.alpha THEN SendTo(Nothing, p, Created(r, room.code))
            ELSE Nothing
    BY DEF Reconnect, Done, again, state, room
  <1> QED BY <1>5, <1>6, <1>7, NothingSent

LEMMA RefusedSent ==
  ASSUME NEW m, NEW p
  PROVE  Done(m, SendTo(Nothing, p, Refused)).out \in Outs
  <1>1. Refused \in Message
    BY DEF Refused, Message
  <1> QED BY <1>1, NothingSent, SendToSent DEF Done

LEMMA CreateMatchSent ==
  ASSUME NEW m, Orderly(m), NEW p \in Player, NEW d \in CreateMatch(m, p)
  PROVE  d.out \in Outs
  <1>1. ASSUME NEW c \in Code, m.issued < MaxRooms
        PROVE  NewRoom(m, p, c).out \in Outs
    <2> DEFINE r == m.issued + 1
    <2>1. r \in RoomId
      BY <1>1, RoomAssumption DEF Orderly, Manager, RoomId
    <2> HIDE DEF r
    <2>2. SendTo(Nothing, p, Created(r, c)) \in Outs
      BY <2>1, NothingSent, SendToSent, MessageKinds
    <2> QED BY <2>2 DEF NewRoom, Done, r
  <1> QED BY <1>1, RefusedSent DEF CreateMatch

LEMMA EnterSent ==
  ASSUME NEW m, NEW r \in RoomId, m.rooms[r] \in Room, NEW p, NEW c
  PROVE  Enter(m, r, p, c).out \in Outs
  <1> DEFINE room == [m.rooms[r] EXCEPT !.beta = p, !.life = "running"]
  <1>1. room.code \in Code
    BY DEF Room
  <1> HIDE DEF room
  <1>2. SendBoth(Nothing, room, Started(r, room.code)) \in Outs
    BY <1>1, NothingSent, SendBothSent, MessageKinds
  <1>3. Broadcast(SendBoth(Nothing, room, Started(r, room.code)), room, r) \in Outs
    BY <1>2, BroadcastSent
  <1> QED BY <1>3 DEF Enter, Done, room

LEMMA JoinMatchSent ==
  ASSUME NEW m, Orderly(m), NEW p \in Player, NEW c \in Code
  PROVE  JoinMatch(m, p, c).out \in Outs
  <1> DEFINE r == m.codes[c]
             free == Unlink(m, {p})
  <1>1. Exists(m, r) => r \in RoomId /\ m.rooms[r] \in Room /\ m.rooms[r] # None
    BY DEF Exists, Orderly, Manager
  <1>2. free.rooms = m.rooms
    BY UnlinkOrderly
  <1> HIDE DEF r, free
  <1>3. Exists(m, r) => Enter(free, r, p, c).out \in Outs
    BY <1>1, <1>2, EnterSent
  <1>4. Exists(m, r) => Reconnect(m, r, p).out \in Outs
    BY <1>1, ReconnectSent
  <1>5. CASE Exists(m, r)
    <2>1. JoinMatch(m, p, c) \in {Reconnect(m, r, p), Silently(m), Enter(free, r, p, c),
                                  Done(free, SendTo(Nothing, p, Refused))}
      BY DEF JoinMatch, r, free
    <2> QED BY <1>3, <1>4, <1>5, <2>1, SilentlySent, RefusedSent
  <1>6. CASE ~Exists(m, r)
    <2>1. JoinMatch(m, p, c) \in {Silently(m), Done(free, SendTo(Nothing, p, Refused))}
      BY <1>6 DEF JoinMatch, r, free
    <2> QED BY <2>1, SilentlySent, RefusedSent
  <1> QED BY <1>5, <1>6

LEMMA RemovePlayerSent ==
  ASSUME NEW m, NEW p
  PROVE  RemovePlayer(m, p).out \in Outs
  BY SilentlySent DEF RemovePlayer, Disconnect

LEMMA AbortMatchSent ==
  ASSUME NEW m, NEW p
  PROVE  AbortMatch(m, p).out \in Outs
  <1> DEFINE r == m.links[p]
             ended == IF m.rooms[r].life = "over" THEN Silently(m) ELSE Finish(m, r)
  <1>1. Exists(m, r) => ended.out \in Outs
    BY SilentlySent, FinishSent DEF Exists
  <1>2. r # None /\ Exists(m, r) => AbortMatch(m, p).out = ended.out
    BY DEF AbortMatch, Done
  <1>3. r = None \/ ~Exists(m, r) => AbortMatch(m, p).out \in Outs
    BY SilentlySent DEF AbortMatch
  <1> QED BY <1>1, <1>2, <1>3

LEMMA LeaveMatchSent ==
  ASSUME NEW m, NEW p
  PROVE  LeaveMatch(m, p).out \in Outs
  BY SilentlySent DEF LeaveMatch, Disconnect

LEMMA IdentifiedSent ==
  ASSUME Orderly(mgr), NEW p \in Player
  PROVE  /\ Identified(p).out \in Outs
         /\ \E i \in 1..Len(Identified(p).out[p]) :
              Identified(p).out[p][i].type = "AUTHENTICATED"
  <1> DEFINE known == Exists(mgr, mgr.links[p])
             back == IF known THEN Reconnect(mgr, mgr.links[p], p) ELSE Silently(mgr)
  <1>1. back.out \in Outs
    BY ReconnectSent, SilentlySent DEF Exists
  <1>2. PICK in \in BOOLEAN : in = known
    BY DEF Exists
  <1> HIDE DEF known, back
  <1>3. Authenticated(in) \in Message
    BY DEF Authenticated, Message
  <1>4. Identified(p).out = SendTo(back.out, p, Authenticated(in))
    BY <1>2 DEF Identified, Done, known, back
  <1>5. Identified(p).out \in Outs
    BY <1>1, <1>3, <1>4, SendToSent
  <1> DEFINE u == back.out[p]
  <1>6. u \in Seq(Message) /\ Identified(p).out[p] = Append(u, Authenticated(in))
    BY <1>1, <1>4 DEF SendTo, Outs
  <1> HIDE DEF u
  <1>7. /\ Len(Append(u, Authenticated(in))) = Len(u) + 1 /\ Len(u) \in Nat
        /\ Append(u, Authenticated(in))[Len(u) + 1] = Authenticated(in)
    BY <1>3, <1>6
  <1>8. Authenticated(in).type = "AUTHENTICATED"
    BY DEF Authenticated
  <1>9. Len(u) + 1 \in 1..Len(Identified(p).out[p])
    BY <1>6, <1>7
  <1> QED BY <1>5, <1>6, <1>7, <1>8, <1>9

LEMMA HandledSent ==
  ASSUME Orderly(mgr), NEW q \in Request, NEW p \in Player,
         q.type = "AUTHENTICATE" => q.token = p,
         NEW d \in Handled(p, q)
  PROVE  d.out \in Outs
  <1>1. CASE q.type = "AUTHENTICATE"
    BY <1>1, IdentifiedSent DEF Handled
  <1>2. CASE q.type = "CREATE_MATCH"
    BY <1>2, CreateMatchSent DEF Handled
  <1>3. CASE q.type = "JOIN_MATCH"
    BY <1>3, RequestFields, JoinMatchSent DEF Handled
  <1>4. CASE q.type = "ABORT_MATCH"
    BY <1>4, AbortMatchSent DEF Handled
  <1>5. CASE q.type = "LEAVE_MATCH"
    BY <1>5, LeaveMatchSent DEF Handled
  <1> QED BY <1>1, <1>2, <1>3, <1>4, <1>5, RequestFields

\* What is under way to the browsers after a message has been delivered.
Wires == [Socket -> Seq(Message)]

LEMMA DeliverKeeps ==
  ASSUME down \in Wires, NEW reg, NEW out \in Outs, Deliver(reg, out)
  PROVE  /\ down' \in Wires
         /\ \A s \in Socket : \E v \in Seq(Message) : down'[s] = down[s] \o v
  <1> DEFINE sent(s) == IF session[s] = "open" /\ Listeners(reg, s) # {}
                        THEN out[CHOOSE p \in Listeners(reg, s) : TRUE] ELSE <<>>
  <1> DEFINE now == [s \in Socket |->
                      IF session[s] = "open" /\ Listeners(reg, s) # {}
                      THEN down[s] \o out[CHOOSE p \in Listeners(reg, s) : TRUE]
                      ELSE down[s]]
  <1>1. ASSUME NEW s \in Socket
        PROVE  sent(s) \in Seq(Message) /\ down'[s] = down[s] \o sent(s)
    <2>1. CASE session[s] = "open" /\ Listeners(reg, s) # {}
      <3>1. PICK p \in Player : p = CHOOSE x \in Listeners(reg, s) : TRUE
        BY <2>1 DEF Listeners
      <3>2. down'[s] = down[s] \o out[p] /\ out[p] \in Seq(Message)
        BY <2>1, <3>1 DEF Deliver, Outs
      <3> QED BY <2>1, <3>1, <3>2
    <2>2. CASE ~(session[s] = "open" /\ Listeners(reg, s) # {})
      <3>1. down'[s] = down[s] /\ down[s] \in Seq(Message) /\ sent(s) = <<>>
        BY <2>2 DEF Deliver, Wires
      <3> HIDE DEF sent
      <3> QED BY <3>1
    <2> QED BY <2>1, <2>2
  <1> HIDE DEF sent
  <1>2. \A s \in Socket : down'[s] \in Seq(Message)
    <2> SUFFICES ASSUME NEW s \in Socket PROVE down'[s] \in Seq(Message)
      OBVIOUS
    <2> DEFINE v == sent(s)
    <2>1. v \in Seq(Message) /\ down'[s] = down[s] \o v
      BY <1>1
    <2>2. down[s] \in Seq(Message)
      BY DEF Wires
    <2> HIDE DEF v
    <2> QED BY <2>1, <2>2
  <1>3. down' \in Wires
    <2>1. down' = now /\ DOMAIN now = Socket
      BY DEF Deliver
    <2>2. \A s \in Socket : now[s] \in Seq(Message)
      BY <1>2, <2>1
    <2>3. now = [s \in Socket |-> now[s]]
      OBVIOUS
    <2> HIDE DEF now
    <2> QED BY <2>1, <2>2, <2>3 DEF Wires
  <1> QED BY <1>1, <1>3

\* The one player a session speaks for hears what is sent to it.
LEMMA DeliverReaches ==
  ASSUME NEW reg, NEW out, Deliver(reg, out), NEW p \in Player, NEW s \in Socket,
         session[s] = "open", Listeners(reg, s) = {p}
  PROVE  down'[s] = down[s] \o out[p]
  <1>1. p = CHOOSE x \in Listeners(reg, s) : TRUE
    OBVIOUS
  <1> QED BY <1>1 DEF Deliver

Answered(u) == \E i \in 1..Len(u) : u[i].type = "AUTHENTICATED"

LEMMA AnsweredLater ==
  ASSUME NEW u \in Seq(Message), NEW v \in Seq(Message), Answered(u) \/ Answered(v)
  PROVE  Answered(u \o v)
  <1>1. Len(u \o v) = Len(u) + Len(v) /\ Len(u) \in Nat /\ Len(v) \in Nat
    OBVIOUS
  <1>2. \A i \in 1..Len(u) : (u \o v)[i] = u[i] /\ i \in 1..Len(u \o v)
    BY <1>1
  <1>3. \A i \in 1..Len(v) : (u \o v)[Len(u) + i] = v[i] /\ Len(u) + i \in 1..Len(u \o v)
    BY <1>1
  <1>4. CASE Answered(u)
    BY <1>2, <1>4 DEF Answered
  <1>5. CASE Answered(v)
    BY <1>3, <1>5 DEF Answered
  <1> QED BY <1>4, <1>5

-----------------------------------------------------------------------------
(* The App.                                                                *)

\* From a to b a page does not go back to reconnecting, nor loses the fallback
\* while it reconnects; and the banner is for a link that is down.
Follows(a, b) ==
  /\ b \in App
  /\ b.phase = "reconnecting" => a.phase = "reconnecting" /\ (a.fallback => b.fallback)
  /\ (a.banner => ~a.connected) => (b.banner => ~b.connected)

LEMMA EntryIsNoWaiting == \A a : Entry(a) \in Phase /\ Entry(a) # "reconnecting"
  BY DEF Entry, Phase

LEMMA FollowsAll ==
  ASSUME NEW a, NEW b, NEW c, Follows(a, b), Follows(b, c)
  PROVE  Follows(a, c)
  BY DEF Follows

LEMMA ResetFollows ==
  ASSUME NEW a \in App, NEW phase \in Phase, phase # "reconnecting"
  PROVE  Follows(a, Reset(a, phase))
  <1>1. Reset(a, phase) \in App
    BY DEF Reset, App
  <1>2. /\ Reset(a, phase).phase = phase /\ Reset(a, phase).banner = a.banner
        /\ Reset(a, phase).connected = a.connected
    BY DEF Reset, App
  <1> QED BY <1>1, <1>2 DEF Follows

\* The App that sets what a render depends on.
LEMMA PhaseSet ==
  ASSUME NEW a \in App, NEW phase \in Phase
  PROVE  LET b == [a EXCEPT !.phase = phase] IN
         /\ b \in App /\ b.phase = phase /\ b.fallback = a.fallback
         /\ b.banner = a.banner /\ b.connected = a.connected
  BY DEF App

LEMMA LoadingSet ==
  ASSUME NEW a \in App, NEW x \in BOOLEAN
  PROVE  LET b == [a EXCEPT !.loading = x] IN
         /\ b \in App /\ b.phase = a.phase /\ b.fallback = a.fallback
         /\ b.banner = a.banner /\ b.connected = a.connected
  BY DEF App

FallbackIs(a, b, x) ==
  /\ b \in App /\ b.phase = a.phase /\ b.fallback = x
  /\ b.banner = a.banner /\ b.connected = a.connected

LEMMA FallbackSet ==
  ASSUME NEW a \in App, NEW x \in BOOLEAN
  PROVE  FallbackIs(a, [a EXCEPT !.fallback = x], x)
  <1> DEFINE b == [a EXCEPT !.fallback = x]
  <1>1. b \in App
    BY DEF App
  <1>2. /\ b.phase = a.phase /\ b.fallback = x
        /\ b.banner = a.banner /\ b.connected = a.connected
    BY DEF App
  <1> QED BY <1>1, <1>2 DEF FallbackIs

LEMMA OnConnectedFollows == \A a \in App : Follows(a, OnConnected(a))
  <1> SUFFICES ASSUME NEW a \in App PROVE Follows(a, OnConnected(a))
    OBVIOUS
  <1> DEFINE b == [a EXCEPT !.connected = TRUE, !.banner = FALSE, !.loading = FALSE]
  <1>1. b \in App
    BY DEF App
  <1>2. b.phase = a.phase /\ b.fallback = a.fallback /\ b.banner = FALSE
    BY DEF App
  <1>3. OnConnected(a) = b
    BY DEF OnConnected
  <1> HIDE DEF b
  <1> QED BY <1>1, <1>2, <1>3 DEF Follows

LEMMA OnErrorFollows == \A a \in App : Follows(a, OnError(a))
  <1> SUFFICES ASSUME NEW a \in App PROVE Follows(a, OnError(a))
    OBVIOUS
  <1> DEFINE b == [a EXCEPT !.loading = FALSE]
             c == [b EXCEPT !.phase = Entry(a)]
  <1>1. b \in App /\ b.banner = a.banner /\ b.connected = a.connected
    BY LoadingSet
  <1>2. c = OnError(a)
    BY DEF OnError
  <1> HIDE DEF b
  <1>3. c \in App /\ c.phase = Entry(a) /\ c.banner = b.banner /\ c.connected = b.connected
    BY <1>1, EntryIsNoWaiting, PhaseSet
  <1> QED BY <1>1, <1>2, <1>3, EntryIsNoWaiting DEF Follows

LEMMA OnDisconnectedFollows == \A a \in App : Follows(a, OnDisconnected(a))
  <1> SUFFICES ASSUME NEW a \in App PROVE Follows(a, OnDisconnected(a))
    OBVIOUS
  <1>1. PICK x \in BOOLEAN : x = (a.banner \/ shown.phase = "playing")
    OBVIOUS
  <1> DEFINE b == [a EXCEPT !.connected = FALSE, !.banner = x]
  <1>2. b \in App
    BY DEF App
  <1>3. b.phase = a.phase /\ b.fallback = a.fallback /\ b.connected = FALSE
    BY DEF App
  <1>4. OnDisconnected(a) = b
    BY <1>1 DEF OnDisconnected
  <1> HIDE DEF b
  <1> QED BY <1>2, <1>3, <1>4 DEF Follows

LEMMA TimedFollows == \A a \in App : Follows(a, Timed(a))
  <1> SUFFICES ASSUME NEW a \in App PROVE Follows(a, Timed(a))
    OBVIOUS
  <1>1. PICK x \in BOOLEAN : x = (a.fallback /\ a.phase = "reconnecting")
    OBVIOUS
  <1> DEFINE b == [a EXCEPT !.fallback = x]
  <1>2. FallbackIs(a, b, x)
    BY FallbackSet
  <1>3. Timed(a) = b
    BY <1>1 DEF Timed
  <1> HIDE DEF b
  <1> QED BY <1>1, <1>2, <1>3 DEF Follows, FallbackIs

LEMMA OnAuthenticatedFollows ==
  ASSUME NEW a \in App, NEW in \in BOOLEAN
  PROVE  /\ Follows(a, OnAuthenticated(a, in))
         /\ shown.phase = "reconnecting" /\ OnAuthenticated(a, in).phase = "reconnecting" =>
              OnAuthenticated(a, in).fallback
  <1> DEFINE b == [a EXCEPT !.fallback = TRUE]
             c == [a EXCEPT !.phase = Entry(a)]
  <1>1. FallbackIs(a, b, TRUE)
    <2>1. PICK x \in BOOLEAN : x = TRUE
      OBVIOUS
    <2>2. FallbackIs(a, [a EXCEPT !.fallback = x], x)
      BY FallbackSet
    <2> QED BY <2>1, <2>2
  <1>2. /\ c \in App /\ c.phase = Entry(a) /\ c.fallback = a.fallback
        /\ c.banner = a.banner /\ c.connected = a.connected
    BY EntryIsNoWaiting, PhaseSet
  <1>3. OnAuthenticated(a, in) = IF shown.phase # "reconnecting" THEN a
                                 ELSE IF in THEN b ELSE c
    BY DEF OnAuthenticated
  <1> HIDE DEF b, c
  <1>4. Follows(a, a) /\ Follows(a, b) /\ Follows(a, c)
    BY <1>1, <1>2, EntryIsNoWaiting DEF Follows, FallbackIs
  <1>5. b.fallback = TRUE /\ c.phase # "reconnecting"
    BY <1>1, <1>2, EntryIsNoWaiting DEF FallbackIs
  <1> QED BY <1>3, <1>4, <1>5

LEMMA OnCreatedFollows ==
  ASSUME NEW a \in App, NEW r \in RoomId, NEW c \in Code
  PROVE  Follows(a, OnCreated(a, r, c))
  <1> DEFINE phase == IF a.phase = "reconnecting" THEN "deployment" ELSE a.phase
             u == [room |-> r, code |-> c]
             b == [a EXCEPT !.code = c, !.ref = r, !.url = u, !.loading = FALSE, !.phase = phase]
  <1>1. phase \in Phase /\ phase # "reconnecting" /\ u \in Link
    BY DEF App, Phase, Link
  <1>2. OnCreated(a, r, c) = b
    BY DEF OnCreated
  <1> HIDE DEF phase, u
  <1>3. b \in App
    BY <1>1 DEF App
  <1>4. b.phase = phase /\ b.banner = a.banner /\ b.connected = a.connected
    BY DEF App
  <1> HIDE DEF b
  <1> QED BY <1>1, <1>2, <1>3, <1>4 DEF Follows

LEMMA OnStartFollows ==
  ASSUME NEW a \in App, NEW r \in RoomId, NEW c \in Code
  PROVE  Follows(a, OnStart(a, r, c))
  <1> DEFINE u == [room |-> r, code |-> c]
             b == [a EXCEPT !.code = c, !.ref = r, !.url = u,
                            !.loading = FALSE, !.fresh = TRUE, !.phase = "playing"]
  <1>1. u \in Link /\ "playing" \in Phase
    BY DEF Phase, Link
  <1>2. OnStart(a, r, c) \in {a, b}
    BY DEF OnStart
  <1> HIDE DEF u
  <1>3. b \in App
    BY <1>1 DEF App
  <1>4. b.phase = "playing" /\ b.banner = a.banner /\ b.connected = a.connected
    BY DEF App
  <1> HIDE DEF b
  <1> QED BY <1>2, <1>3, <1>4 DEF Follows

LEMMA OnStateFollows ==
  ASSUME NEW a \in App, NEW r \in RoomId, NEW over \in BOOLEAN
  PROVE  Follows(a, OnState(a, r, over))
  <1> DEFINE phase == IF a.phase = "entering-name" THEN a.phase ELSE "playing"
             x == [room |-> r, over |-> over]
             b == [a EXCEPT !.ref = r, !.state = x, !.fresh = TRUE,
                            !.loading = FALSE, !.phase = phase]
  <1>1. phase \in Phase /\ phase # "reconnecting" /\ x \in [room : RoomId, over : BOOLEAN]
    BY DEF App, Phase
  <1>2. OnState(a, r, over) \in {a, b}
    BY DEF OnState
  <1> HIDE DEF phase, x
  <1>3. b \in App
    BY <1>1 DEF App
  <1>4. b.phase = phase /\ b.banner = a.banner /\ b.connected = a.connected
    BY DEF App
  <1> HIDE DEF b
  <1> QED BY <1>1, <1>2, <1>3, <1>4 DEF Follows

LEMMA OnRefusedFollows == \A a \in App : Follows(a, OnRefused(a))
  <1> SUFFICES ASSUME NEW a \in App PROVE Follows(a, OnRefused(a))
    OBVIOUS
  <1>1. Follows(a, [a EXCEPT !.loading = FALSE])
    BY LoadingSet DEF Follows
  <1>2. Follows(a, Reset(a, Entry(a)))
    BY ResetFollows, EntryIsNoWaiting
  <1> QED BY <1>1, <1>2 DEF OnRefused

LEMMA HeardFollows ==
  ASSUME NEW a \in App, NEW msg \in Message
  PROVE  /\ Follows(a, Heard(a, msg))
         /\ msg.type = "AUTHENTICATED" /\ shown.phase = "reconnecting"
              /\ Heard(a, msg).phase = "reconnecting" => Heard(a, msg).fallback
  <1>1. ASSUME NEW b \in App, Follows(a, b) PROVE Follows(a, Timed(b))
    BY <1>1, TimedFollows, FollowsAll
  <1>2. CASE msg.type = "AUTHENTICATED"
    <2> DEFINE b == OnAuthenticated(a, msg.inMatch)
    <2>1. /\ Follows(a, b)
          /\ shown.phase = "reconnecting" /\ b.phase = "reconnecting" => b.fallback
      BY <1>2, MessageFields, OnAuthenticatedFollows
    <2>2. b \in App
      BY <2>1 DEF Follows
    <2>3. Heard(a, msg) = Timed(b)
      BY <1>2 DEF Heard
    <2> HIDE DEF b
    <2>4. Follows(b, Timed(b))
      BY <2>2, TimedFollows
    <2> QED BY <1>1, <2>1, <2>2, <2>3, <2>4 DEF Follows
  <1>3. CASE msg.type = "MATCH_CREATED"
    <2>1. Follows(a, OnCreated(a, msg.room, msg.code))
      BY <1>3, MessageFields, OnCreatedFollows
    <2>2. Heard(a, msg) = Timed(OnCreated(a, msg.room, msg.code))
      BY <1>3 DEF Heard
    <2> QED BY <1>1, <1>3, <2>1, <2>2 DEF Follows
  <1>4. CASE msg.type = "MATCH_START"
    <2>1. Follows(a, OnStart(a, msg.room, msg.code))
      BY <1>4, MessageFields, OnStartFollows
    <2>2. Heard(a, msg) = Timed(OnStart(a, msg.room, msg.code))
      BY <1>4 DEF Heard
    <2> QED BY <1>1, <1>4, <2>1, <2>2 DEF Follows
  <1>5. CASE msg.type = "MATCH_STATE"
    <2>1. Follows(a, OnState(a, msg.room, msg.over))
      BY <1>5, MessageFields, OnStateFollows
    <2>2. Heard(a, msg) = Timed(OnState(a, msg.room, msg.over))
      BY <1>5 DEF Heard
    <2> QED BY <1>1, <1>5, <2>1, <2>2 DEF Follows
  <1>6. CASE msg.type = "ERROR"
    <2>1. Heard(a, msg) = Timed(OnRefused(a))
      BY <1>6 DEF Heard
    <2> QED BY <1>1, <1>6, <2>1, OnRefusedFollows DEF Follows
  <1>7. CASE msg.type = "GAME_OVER"
    <2>1. Heard(a, msg) = Timed(a)
      BY <1>7 DEF Heard
    <2> QED BY <1>7, <2>1, TimedFollows
  <1>8. msg.type \in {"AUTHENTICATED", "MATCH_CREATED", "MATCH_START", "MATCH_STATE",
                      "ERROR", "GAME_OVER"}
    BY DEF Message
  <1> QED BY <1>2, <1>3, <1>4, <1>5, <1>6, <1>7, <1>8

LEMMA LoadedTyped ==
  ASSUME NEW u \in Link \cup {None}, NEW named \in BOOLEAN, NEW t \in Me
  PROVE  /\ Loaded(u, named, t) \in App
         /\ Loaded(u, named, t).phase = "reconnecting"
         /\ Loaded(u, named, t).banner = FALSE
  <1> DEFINE code == IF u \in Link THEN u.code ELSE None
             ref == IF u \in Link THEN u.room ELSE None
  <1>1. code \in Code \cup {None} /\ ref \in RoomId \cup {None, Clearing} /\ "reconnecting" \in Phase
    BY DEF Link, Phase
  <1>2. Loaded(u, named, t) =
          [ phase |-> "reconnecting", loading |-> TRUE, connected |-> FALSE, banner |-> FALSE,
            code |-> None, state |-> None, fresh |-> FALSE, joined |-> FALSE,
            urlCode |-> code, ref |-> ref, fallback |-> FALSE, naming |-> FALSE,
            wasNamed |-> named, named |-> named, token |-> t, url |-> u ]
    BY DEF Loaded
  <1> HIDE DEF code, ref
  <1> QED BY <1>1, <1>2 DEF App

-----------------------------------------------------------------------------
(* The board.                                                              *)

Board == [room : RoomId \cup {None}, over : BOOLEAN]

LEMMA BoardHeardTyped ==
  ASSUME NEW b \in Board \cup {None}, NEW msg \in Message
  PROVE  BoardHeard(b, msg) \in Board \cup {None}
  <1>1. CASE b = None
    BY <1>1 DEF BoardHeard
  <1>2. CASE b # None /\ msg.type = "MATCH_STATE"
    <2>1. msg.room \in RoomId
      BY <1>2, MessageFields
    <2>2. BoardHeard(b, msg) = [b EXCEPT !.room = msg.room]
      BY <1>2 DEF BoardHeard
    <2> QED BY <1>2, <2>1, <2>2 DEF Board
  <1>3. CASE b # None /\ msg.type = "GAME_OVER"
    <2>1. BoardHeard(b, msg) = [b EXCEPT !.over = TRUE]
      BY <1>3 DEF BoardHeard
    <2> QED BY <1>3, <2>1 DEF Board
  <1>4. CASE b # None /\ msg.type \notin {"MATCH_STATE", "GAME_OVER"}
    BY <1>4 DEF BoardHeard
  <1> QED BY <1>1, <1>2, <1>3, <1>4

LEMMA MountedTyped ==
  ASSUME NEW b \in Board, NEW state \in [room : RoomId, over : BOOLEAN] \cup {None}
  PROVE  Mounted(b, state) \in Board
  <1>1. CASE state = None
    BY <1>1 DEF Mounted
  <1>2. CASE state # None
    <2>1. PICK x \in BOOLEAN : x = (b.over \/ state.over)
      OBVIOUS
    <2>2. Mounted(b, state) = [b EXCEPT !.room = state.room, !.over = x]
      BY <1>2, <2>1 DEF Mounted
    <2> QED BY <1>2, <2>2 DEF Board
  <1> QED BY <1>1, <1>2

-----------------------------------------------------------------------------
(* No page waits for ever.                                                 *)

\* What is shown of a page that reconnects, and under the banner.
Shows ==
  /\ app.phase = "reconnecting" => shown.phase = "reconnecting"
  /\ app.banner => ~app.connected

\* A page that still reconnects over a live connection has yet to be identified,
\* or has the answer under way, or the fallback before it.
Awaited ==
  app.phase = "reconnecting" =>
    \A s \in Socket : line[s] = "open" /\ session[s] = "open" =>
      who[s] = None \/ app.fallback \/ Answered(down[s])

\* Everything besides Inv.
Screen ==
  /\ down \in Wires
  /\ app \in App
  /\ board \in Board \cup {None}
  /\ Shows /\ Awaited

\* A step of the App while what is shown stays, and no connection opens.
LEMMA FollowsScreen ==
  ASSUME Screen, Follows(app, app'), shown' = shown, down' \in Wires,
         board' \in Board \cup {None},
         \A s \in Socket : line'[s] = "open" /\ session'[s] = "open" =>
           /\ line[s] = "open" /\ session[s] = "open" /\ who'[s] = who[s]
           /\ app'.phase = "reconnecting" /\ Answered(down[s]) =>
                Answered(down'[s]) \/ app'.fallback
  PROVE  Screen'
  <1>1. app' \in App
    BY DEF Follows
  <1>2. Shows'
    BY DEF Screen, Shows, Follows
  <1>3. Awaited'
    BY DEF Screen, Awaited, Follows
  <1> QED BY <1>1, <1>2, <1>3 DEF Screen

\* A step of the App that leaves the connections alone.
LEMMA AppStepScreen ==
  ASSUME Screen, Follows(app, app'), board' \in Board \cup {None},
         UNCHANGED <<shown, line, session, who, down>>
  PROVE  Screen'
  BY FollowsScreen DEF Screen

-----------------------------------------------------------------------------
(* The server.                                                             *)

LEMMA DeliveredLater ==
  ASSUME down \in Wires, NEW reg, NEW out \in Outs, Deliver(reg, out)
  PROVE  down' \in Wires /\ \A s \in Socket : Answered(down[s]) => Answered(down'[s])
  <1>1. ASSUME NEW s \in Socket, Answered(down[s]) PROVE Answered(down'[s])
    <2>1. PICK v \in Seq(Message) : down'[s] = down[s] \o v
      BY DeliverKeeps
    <2>2. down[s] \in Seq(Message)
      BY DEF Wires
    <2> QED BY <1>1, <2>1, <2>2, AnsweredLater
  <1> QED BY <1>1, DeliverKeeps

LEMMA ServerStepScreen ==
  ASSUME Screen, Apart, down' \in Wires,
         \A s \in Socket : session'[s] = "open" =>
           /\ session[s] = "open" /\ Answered(down[s]) => Answered(down'[s])
           /\ session[s] = "open" /\ (who'[s] = who[s] \/ Answered(down'[s]))
  PROVE  Screen'
  BY DEF Screen, Shows, Awaited, Apart, browserVars

LEMMA ServerReceivesScreen ==
  ASSUME Inv, Screen, NEW s \in Socket, ServerReceives(s), Apart
  PROVE  Screen'
  <1> DEFINE q == Head(up[s])
             first == q.type = "AUTHENTICATE"
             p == IF first THEN q.token ELSE who[s]
             direct == first \/ (q.type = "CREATE_MATCH" /\ InActiveRoom(mgr, p))
             here == [registry EXCEPT ![p] = s]
  <1>1. /\ who[s] \in Player \cup {None} /\ up[s] \in Seq(Request) /\ up[s] # <<>>
        /\ session[s] # "free" /\ InOrder(session[s], who[s], up[s], line[s])
        /\ registry \in [Player -> Socket \cup {None}] /\ who \in [Socket -> Player \cup {None}]
    BY DEF Inv, Sessions, ServerReceives
  <1>2. q \in Request /\ p \in Player /\ (first <=> who[s] = None)
    BY <1>1, HeadInOrder
  <1>3. PICK d \in Handled(p, q) : Deliver(IF direct THEN here ELSE registry, d.out)
    BY DEF ServerReceives
  <1>4. who' = [who EXCEPT ![s] = p] /\ session' = session
    BY DEF ServerReceives
  <1>5. d.out \in Outs
    <2>1. first => q.token = p
      OBVIOUS
    <2> HIDE DEF p, q
    <2> QED BY <1>2, <1>3, <2>1, HandledSent DEF Inv
  <1>6. down' \in Wires /\ \A t \in Socket : Answered(down[t]) => Answered(down'[t])
    BY <1>3, <1>5, DeliveredLater DEF Screen
  <1>7. CASE ~first
    <2>1. who' = who
      BY <1>1, <1>4, <1>7
    <2> QED BY <1>4, <1>6, <2>1, ServerStepScreen
  <1>8. CASE first
    <2>1. d = Identified(p)
      BY <1>3, <1>8 DEF Handled
    <2>2. /\ Deliver(here, d.out) /\ d.out[p] \in Seq(Message) /\ down[s] \in Seq(Message)
          /\ Answered(d.out[p])
      BY <1>2, <1>3, <1>5, <1>8, <2>1, IdentifiedSent DEF Inv, Screen, Wires, Outs, Answered
    <2>3. \A t \in Player : registry[t] # s
      BY <1>2, <1>8, NobodyIsNoPlayer DEF Inv, RegistrySound
    <2> HIDE DEF p, q, first, direct
    <2>4. Listeners(here, s) = {p}
      BY <1>1, <1>2, <2>3 DEF Listeners
    <2>5. session[s] = "open" => Answered(down'[s])
      <3> HIDE DEF here
      <3> SUFFICES ASSUME session[s] = "open" PROVE Answered(down'[s])
        OBVIOUS
      <3> DEFINE out == d.out
      <3>1. Deliver(here, out) /\ s \in Socket /\ p \in Player
        BY <1>2, <2>2
      <3> HIDE DEF out
      <3>2. down'[s] = down[s] \o out[p]
        BY <2>4, <3>1, DeliverReaches
      <3> QED BY <2>2, <3>2, AnsweredLater DEF out
    <2>6. \A t \in Socket : t # s => who'[t] = who[t]
      BY <1>1, <1>4
    <2> QED BY <1>4, <1>6, <2>5, <2>6, ServerStepScreen
  <1> QED BY <1>7, <1>8

LEMMA ServerNoticesScreen ==
  ASSUME Inv, Screen, NEW s \in Socket, ServerNotices(s), Apart
  PROVE  Screen'
  <1>1. /\ session' = [session EXCEPT ![s] = "free"] /\ who' = [who EXCEPT ![s] = None]
        /\ session \in [Socket -> {"free", "open", "cut"}]
        /\ who \in [Socket -> Player \cup {None}]
    BY DEF ServerNotices, Inv, Sessions
  <1>2. down' \in Wires /\ \A t \in Socket : Answered(down[t]) => Answered(down'[t])
    <2>1. CASE who[s] = None
      BY <2>1 DEF ServerNotices, Screen
    <2>2. CASE who[s] # None
      <3>1. Deliver([registry EXCEPT ![who[s]] = None], RemovePlayer(mgr, who[s]).out)
        BY <2>2 DEF ServerNotices
      <3> QED BY <3>1, RemovePlayerSent, DeliveredLater DEF Screen
    <2> QED BY <2>1, <2>2
  <1>3. \A t \in Socket : session'[t] = "open" => session[t] = "open" /\ who'[t] = who[t]
    BY <1>1
  <1> QED BY <1>2, <1>3, ServerStepScreen

LEMMA PeerActsScreen ==
  ASSUME Inv, Screen, NEW k \in Peer, PeerActs(k), Apart
  PROVE  Screen'
  <1>1. k \in Player /\ Orderly(mgr)
    BY ServerAssumption DEF Inv
  <1>2. PICK d \in PeerAsks(k) : Deliver(registry, d.out)
    BY DEF PeerActs
  <1>3. d.out \in Outs
    <2>1. CASE d \in CreateMatch(mgr, k)
      BY <1>1, <2>1, CreateMatchSent
    <2>2. CASE d \in {JoinMatch(mgr, k, c) : c \in Code}
      BY <1>1, <2>2, JoinMatchSent
    <2>3. CASE d = AbortMatch(mgr, k)
      BY <2>3, AbortMatchSent
    <2>4. CASE d = LeaveMatch(mgr, k)
      BY <2>4, LeaveMatchSent
    <2>5. CASE Exists(mgr, mgr.links[k]) /\ d = Reconnect(mgr, mgr.links[k], k)
      BY <1>1, <2>5, ReconnectSent DEF Exists
    <2> QED BY <1>2, <2>1, <2>2, <2>3, <2>4, <2>5 DEF PeerAsks
  <1>4. session' = session /\ who' = who
    BY DEF PeerActs
  <1> QED BY <1>2, <1>3, <1>4, DeliveredLater, ServerStepScreen DEF Screen

LEMMA ServerNextScreen ==
  ASSUME Inv, Screen, ServerNext, Apart
  PROVE  Screen'
  <1>1. ASSUME NEW s \in Socket, ServerReceives(s) \/ ServerNotices(s) PROVE Screen'
    BY <1>1, ServerReceivesScreen, ServerNoticesScreen
  <1>2. ASSUME NEW k \in Peer, PeerActs(k) PROVE Screen'
    BY <1>2, PeerActsScreen
  <1>3. ASSUME NEW r \in RoomId, Play(r) PROVE Screen'
    <2>1. Broadcast(Nothing, mgr.rooms[r], r) \in Outs
      BY NothingSent, BroadcastSent
    <2>2. /\ Deliver(registry, Broadcast(Nothing, mgr.rooms[r], r))
          /\ session' = session /\ who' = who
      BY <1>3 DEF Play
    <2> QED BY <2>1, <2>2, DeliveredLater, ServerStepScreen DEF Screen
  <1>4. ASSUME NEW r \in RoomId, GameEnds(r) PROVE Screen'
    <2>1. Deliver(registry, Finish(mgr, r).out) /\ session' = session /\ who' = who
      BY <1>4 DEF GameEnds
    <2> QED BY <2>1, FinishSent, DeliveredLater, ServerStepScreen DEF Screen
  <1>5. ASSUME NEW r \in RoomId, RoomExpires(r) PROVE Screen'
    BY <1>5, ServerStepScreen DEF RoomExpires, Screen
  <1> QED BY <1>1, <1>2, <1>3, <1>4, <1>5 DEF ServerNext

-----------------------------------------------------------------------------
(* The connection.                                                         *)

LEMMA OpensScreen ==
  ASSUME Inv, Screen, NEW s \in Socket, Opens(s)
  PROVE  Screen'
  <1>1. /\ line[s] = "connecting" /\ line' = [line EXCEPT ![s] = "open"]
        /\ session' = [session EXCEPT ![s] = "open"]
        /\ app' = OnConnected(app)
        /\ UNCHANGED <<who, down, shown, board>>
    BY DEF Opens
  <1>2. who[s] = None
    BY <1>1 DEF Inv, Sessions, InOrder
  <1>3. \A t \in Socket : t # s => line'[t] = line[t] /\ session'[t] = session[t]
    BY <1>1 DEF Inv, Sessions
  <1>4. Follows(app, app')
    BY <1>1, OnConnectedFollows DEF Screen
  <1>5. app' \in App /\ Shows'
    BY <1>1, <1>4 DEF Screen, Shows, Follows
  <1>6. Awaited'
    BY <1>1, <1>2, <1>3, <1>4 DEF Screen, Awaited, Follows
  <1> QED BY <1>1, <1>5, <1>6 DEF Screen

LEMMA ClosedScreen ==
  ASSUME Inv, Screen, NEW s \in Socket, NEW a \in App, Follows(app, a), Closed(s, a),
         UNCHANGED <<session, who, down, shown, board>>
  PROVE  Screen'
  <1>1. app' = Timed(OnDisconnected(a)) /\ line' = [line EXCEPT ![s] = "none"]
    BY DEF Closed
  <1> DEFINE b == OnDisconnected(a)
  <1>2. Follows(a, b) /\ b \in App
    BY OnDisconnectedFollows DEF Follows
  <1> HIDE DEF b
  <1>3. Follows(b, Timed(b)) /\ Follows(app, b)
    BY <1>2, TimedFollows, FollowsAll
  <1>4. Follows(app, app')
    BY <1>1, <1>3, FollowsAll DEF b
  <1>5. \A t \in Socket : line'[t] = "open" => line[t] = "open"
    BY <1>1 DEF Inv, Sessions
  <1> QED BY <1>4, <1>5, FollowsScreen DEF Screen

LEMMA FailsScreen ==
  ASSUME Inv, Screen, NEW s \in Socket, Fails(s)
  PROVE  Screen'
  <1>1. Follows(app, OnError(app)) /\ OnError(app) \in App
    BY OnErrorFollows DEF Screen, Follows
  <1> QED BY <1>1, ClosedScreen DEF Fails

LEMMA DropsScreen ==
  ASSUME Inv, Screen, NEW s \in Socket, Drops(s)
  PROVE  Screen'
  <1>1. Follows(app, OnError(app)) /\ OnError(app) \in App
    BY OnErrorFollows DEF Screen, Follows
  <1>2. Follows(app, app) /\ app \in App
    BY DEF Screen, Follows
  <1> QED BY <1>1, <1>2, ClosedScreen DEF Drops, serverVars

LEMMA LinkBreaksScreen ==
  ASSUME Inv, Screen, NEW s \in Socket, LinkBreaks(s)
  PROVE  Screen'
  <1>1. PICK n \in 0..Len(down[s]) : down' = [down EXCEPT ![s] = SubSeq(down[s], 1, n)]
    BY DEF LinkBreaks
  <1>2. SubSeq(down[s], 1, n) \in Seq(Message)
    BY DEF Screen, Wires
  <1>3. down' \in Wires /\ \A t \in Socket : t # s => down'[t] = down[t]
    BY <1>1, <1>2 DEF Screen, Wires
  <1>4. session' = [session EXCEPT ![s] = "cut"] /\ UNCHANGED <<who, line, app, shown, board>>
    BY DEF LinkBreaks
  <1>5. \A t \in Socket : session'[t] = "open" => t # s /\ session[t] = "open"
    BY <1>4 DEF Inv, Sessions
  <1>6. Follows(app, app')
    BY <1>4 DEF Follows, Screen
  <1> QED BY <1>3, <1>4, <1>5, <1>6, FollowsScreen DEF Screen

LEMMA RedialsScreen ==
  ASSUME Inv, Screen, Redials
  PROVE  Screen'
  <1>1. Slot \in Socket
    BY DEF Redials, Slot, Unused
  <1>2. /\ line' = [line EXCEPT ![Slot] = "connecting"]
        /\ UNCHANGED <<session, who, down, app, shown, board>>
    BY DEF Redials, serverVars
  <1> HIDE DEF Slot
  <1>3. \A t \in Socket : line'[t] = "open" => line[t] = "open"
    BY <1>1, <1>2 DEF Inv, Sessions
  <1>4. Follows(app, app')
    BY <1>2 DEF Follows, Screen
  <1> QED BY <1>2, <1>3, <1>4, FollowsScreen DEF Screen

\* What is left of the messages when the first has been heard.
LEMMA TailAnswered ==
  ASSUME NEW u \in Seq(Message), u # <<>>
  PROVE  /\ Head(u) \in Message /\ Tail(u) \in Seq(Message)
         /\ Answered(u) => Head(u).type = "AUTHENTICATED" \/ Answered(Tail(u))
  <1>1. Head(u) \in Message /\ Tail(u) \in Seq(Message) /\ Head(u) = u[1]
    OBVIOUS
  <1>2. Len(u) \in Nat /\ Len(Tail(u)) = Len(u) - 1
        /\ \A i \in 1..Len(Tail(u)) : Tail(u)[i] = u[i + 1]
    OBVIOUS
  <1>3. ASSUME NEW i \in 1..Len(u), u[i].type = "AUTHENTICATED", i # 1
        PROVE  Answered(Tail(u))
    <2>1. i - 1 \in 1..Len(Tail(u)) /\ (i - 1) + 1 = i
      BY <1>2, <1>3
    <2>2. Tail(u)[i - 1] = u[i]
      BY <1>2, <2>1
    <2> QED BY <1>3, <2>1, <2>2 DEF Answered
  <1> QED BY <1>1, <1>3 DEF Answered

LEMMA HearsScreen ==
  ASSUME Inv, Screen, NEW s \in Socket, Hears(s)
  PROVE  Screen'
  <1> DEFINE msg == Head(down[s])
  <1>1. /\ app' = Heard(app, msg) /\ board' = BoardHeard(board, msg)
        /\ down' = [down EXCEPT ![s] = Tail(down[s])]
        /\ UNCHANGED <<session, who, line, shown>> /\ down[s] # <<>>
    BY DEF Hears
  <1>2. down[s] \in Seq(Message)
    BY DEF Screen, Wires
  <1>3. /\ msg \in Message /\ Tail(down[s]) \in Seq(Message)
        /\ Answered(down[s]) => msg.type = "AUTHENTICATED" \/ Answered(Tail(down[s]))
    BY <1>1, <1>2, TailAnswered
  <1> HIDE DEF msg
  <1>4. /\ Follows(app, app')
        /\ msg.type = "AUTHENTICATED" /\ shown.phase = "reconnecting"
             /\ app'.phase = "reconnecting" => app'.fallback
    BY <1>1, <1>3, HeardFollows DEF Screen
  <1>5. board' \in Board \cup {None}
    BY <1>1, <1>3, BoardHeardTyped DEF Screen
  <1>6. /\ down' \in Wires /\ down'[s] = Tail(down[s])
        /\ \A t \in Socket : t # s => down'[t] = down[t]
    BY <1>1, <1>3 DEF Screen, Wires
  <1>7. app'.phase = "reconnecting" => shown.phase = "reconnecting"
    BY <1>4 DEF Follows, Screen, Shows
  <1>8. ASSUME NEW t \in Socket, app'.phase = "reconnecting", Answered(down[t])
        PROVE  Answered(down'[t]) \/ app'.fallback
    BY <1>3, <1>4, <1>6, <1>7, <1>8
  <1> QED BY <1>1, <1>4, <1>5, <1>6, <1>8, FollowsScreen

-----------------------------------------------------------------------------
(* React, the timers and the person.                                       *)

\* The App that gets on with what it has, in whatever does not matter here.
LinkingFollows(a) == Follows(a, Linking(a)) /\ Linking(a).phase = a.phase

LEMMA LinkingKeeps == \A a \in App : LinkingFollows(a)
  <1> SUFFICES ASSUME NEW a \in App PROVE LinkingFollows(a)
    OBVIOUS
  <1>1. PICK x \in BOOLEAN : x = Online
    BY DEF Online
  <1>2. Linking(a) = [a EXCEPT !.loading = x]
    BY <1>1 DEF Linking
  <1> QED BY <1>2, LoadingSet DEF Follows, LinkingFollows

LEMMA RendersScreen ==
  ASSUME Inv, Screen, Renders
  PROVE  Screen'
  <1>1. Follows(app, app') /\ app'.phase = app.phase
    <2>1. CASE JoinsByURL
      <3> DEFINE l == Linking(app)
                 b == [l EXCEPT !.fresh = FALSE, !.joined = TRUE]
      <3>1. Follows(app, l) /\ l.phase = app.phase
        BY LinkingKeeps DEF Screen, LinkingFollows
      <3>2. app' = b
        BY <2>1 DEF Renders
      <3>3. l \in App
        BY <3>1 DEF Follows
      <3> HIDE DEF l
      <3>4. b \in App
        BY <3>3 DEF App
      <3>5. /\ b.phase = l.phase /\ b.fallback = l.fallback
            /\ b.banner = l.banner /\ b.connected = l.connected
        BY <3>3 DEF App
      <3> HIDE DEF b
      <3> QED BY <3>1, <3>2, <3>4, <3>5 DEF Follows
    <2>2. CASE ~JoinsByURL
      <3> DEFINE b == [app EXCEPT !.fresh = FALSE]
      <3>1. app' = b
        BY <2>2 DEF Renders
      <3>2. b \in App
        BY DEF Screen, App
      <3>3. /\ b.phase = app.phase /\ b.fallback = app.fallback
            /\ b.banner = app.banner /\ b.connected = app.connected
        BY DEF Screen, App
      <3> HIDE DEF b
      <3> QED BY <3>1, <3>2, <3>3 DEF Follows
    <2> QED BY <2>1, <2>2
  <1>2. /\ shown' = View(app)
        /\ UNCHANGED <<session, who, down, line>>
    BY DEF Renders
  <1>3. board' \in Board \cup {None}
    <2>1. Unstarted \in Board
      BY DEF Unstarted, Board
    <2>2. app.state \in [room : RoomId, over : BOOLEAN] \cup {None}
      BY DEF Screen, App
    <2>3. board # None => board \in Board
      BY DEF Screen
    <2>4. board' \in {None, Mounted(Unstarted, app.state)} \cup
                     (IF board = None THEN {} ELSE {Mounted(board, app.state), board})
      BY DEF Renders
    <2>5. Mounted(Unstarted, app.state) \in Board
      BY <2>1, <2>2, MountedTyped
    <2>6. board # None => Mounted(board, app.state) \in Board
      BY <2>2, <2>3, MountedTyped
    <2> QED BY <2>3, <2>4, <2>5, <2>6
  <1>4. app'.phase = "reconnecting" => shown'.phase = "reconnecting"
    BY <1>1, <1>2 DEF View
  <1>5. Shows'
    BY <1>1, <1>4 DEF Screen, Shows, Follows
  <1>6. Awaited'
    BY <1>1, <1>2 DEF Screen, Awaited, Follows
  <1> QED BY <1>1, <1>2, <1>3, <1>5, <1>6 DEF Screen, Follows

LEMMA TimersScreen ==
  ASSUME Inv, Screen, FallsBack \/ Enters
  PROVE  Screen'
  <1>1. CASE FallsBack
    <2> DEFINE phase == IF app.phase = "reconnecting" THEN Entry(app) ELSE app.phase
               b == [app EXCEPT !.fallback = FALSE, !.phase = phase]
    <2>1. phase \in Phase /\ phase # "reconnecting"
      BY EntryIsNoWaiting DEF Screen, App
    <2>2. app' = b
      BY <1>1 DEF FallsBack
    <2> HIDE DEF phase
    <2>3. b \in App
      BY <2>1 DEF Screen, App
    <2>4. b.phase = phase /\ b.banner = app.banner /\ b.connected = app.connected
      BY DEF Screen, App
    <2> HIDE DEF b
    <2>5. Follows(app, app')
      BY <2>1, <2>2, <2>3, <2>4 DEF Follows
    <2> QED BY <1>1, <2>5, AppStepScreen DEF FallsBack, serverVars, Screen
  <1>2. CASE Enters
    <2> DEFINE b == [app EXCEPT !.naming = FALSE, !.loading = FALSE, !.phase = "deployment"]
    <2>1. app' = b
      BY <1>2 DEF Enters
    <2>2. b \in App
      BY DEF Screen, App, Phase
    <2>3. b.phase = "deployment" /\ b.banner = app.banner /\ b.connected = app.connected
      BY DEF Screen, App
    <2> HIDE DEF b
    <2>4. Follows(app, app')
      BY <2>1, <2>2, <2>3 DEF Follows
    <2> QED BY <1>2, <2>4, AppStepScreen DEF Enters, serverVars, Screen
  <1> QED BY <1>1, <1>2

LEMMA ClicksScreen ==
  ASSUME Screen, NEW a, Follows(app, a), NEW q, Clicks(a, q)
  PROVE  Screen'
  BY AppStepScreen DEF Clicks, Screen

LEMMA SubmitsNameScreen ==
  ASSUME Screen, SubmitsName
  PROVE  Screen'
  <1>1. PICK x \in BOOLEAN : x = Online
    BY DEF Online
  <1>2. PICK y \in BOOLEAN : y = (app.naming \/ x)
    OBVIOUS
  <1> DEFINE b == [app EXCEPT !.named = TRUE, !.loading = x, !.naming = y]
  <1>3. app' = b
    BY <1>1, <1>2 DEF SubmitsName, Named
  <1>4. b \in App
    BY DEF Screen, App
  <1>5. /\ b.phase = app.phase /\ b.fallback = app.fallback
        /\ b.banner = app.banner /\ b.connected = app.connected
    BY DEF Screen, App
  <1> HIDE DEF b
  <1>6. Follows(app, app')
    BY <1>3, <1>4, <1>5 DEF Follows
  <1> QED BY <1>6, AppStepScreen DEF SubmitsName, Screen

LEMMA InitiatesScreen ==
  ASSUME Screen, InitiatesOperation
  PROVE  Screen'
  <1>1. PICK x \in BOOLEAN : x = Online
    BY DEF Online
  <1> DEFINE b == [app EXCEPT !.loading = x, !.code = None, !.ref = None]
  <1>2. Clicks(b, Ask("CREATE_MATCH"))
    BY <1>1 DEF InitiatesOperation
  <1>3. b \in App
    BY DEF Screen, App
  <1>4. /\ b.phase = app.phase /\ b.fallback = app.fallback
        /\ b.banner = app.banner /\ b.connected = app.connected
    BY DEF Screen, App
  <1> HIDE DEF b
  <1>5. Follows(app, b)
    BY <1>3, <1>4 DEF Follows
  <1> QED BY <1>2, <1>5, ClicksScreen

LEMMA TerminatesScreen ==
  ASSUME Screen, TerminatesLink
  PROVE  Screen'
  <1> DEFINE a == Reset(app, "entering-name")
             b == [a EXCEPT !.named = FALSE, !.token = None]
  <1>1. Follows(app, a)
    BY ResetFollows DEF Screen, Phase
  <1>2. Clicks(b, Ask("ABORT_MATCH"))
    BY DEF TerminatesLink, Wiped
  <1>3. a \in App
    BY <1>1 DEF Follows
  <1> HIDE DEF a
  <1>4. b \in App
    BY <1>3 DEF App
  <1>5. /\ b.phase = a.phase /\ b.fallback = a.fallback
        /\ b.banner = a.banner /\ b.connected = a.connected
    BY <1>3 DEF App
  <1> HIDE DEF b
  <1>6. Follows(app, b)
    BY <1>1, <1>4, <1>5 DEF Follows
  <1> QED BY <1>2, <1>6, ClicksScreen

LEMMA PersonScreen ==
  ASSUME Inv, Screen,
         \/ SubmitsName \/ InitiatesOperation \/ TerminatesLink \/ Abandons \/ Returns
         \/ \E c \in Code : LinksToNetwork(c)
  PROVE  Screen'
  <1>1. Follows(app, Reset(app, "deployment"))
    BY ResetFollows DEF Screen, Phase
  <1>2. CASE Abandons
    BY <1>1, <1>2, ClicksScreen DEF Abandons
  <1>3. CASE Returns
    BY <1>1, <1>3, ClicksScreen DEF Returns
  <1>4. ASSUME NEW c \in Code, LinksToNetwork(c) PROVE Screen'
    <2>1. Follows(app, Linking(app))
      BY LinkingKeeps DEF Screen, LinkingFollows
    <2> QED BY <1>4, <2>1, ClicksScreen DEF LinksToNetwork
  <1> QED BY <1>2, <1>3, <1>4, SubmitsNameScreen, InitiatesScreen, TerminatesScreen

LEMMA InvitationsTyped ==
  ASSUME Orderly(mgr)
  PROVE  Invitations \subseteq Link
  <1>1. ASSUME NEW r \in RoomId, Exists(mgr, r) PROVE mgr.rooms[r].code \in Code
    BY <1>1 DEF Orderly, Manager, Exists, Room
  <1> QED BY <1>1 DEF Invitations, Link

LEMMA ReloadsScreen ==
  ASSUME Inv, Screen, NEW u \in {app.url} \cup Invitations, Reloads(u)
  PROVE  Screen'
  <1>1. Slot \in Unused
    BY DEF Reloads, Slot
  <1>2. Slot \in Socket
    BY <1>1 DEF Unused
  <1> HIDE DEF Slot
  <1>3. PICK t \in Tokens : app' = Loaded(u, app.named, t)
    BY DEF Reloads
  <1>4. t \in Me
    BY DEF Tokens, Inv, Keeps
  <1>5. u \in Link \cup {None}
    BY InvitationsTyped DEF Inv, Screen, App
  <1>6. app.named \in BOOLEAN
    BY DEF Screen, App
  <1>7. app' \in App /\ app'.phase = "reconnecting" /\ app'.banner = FALSE
    BY <1>3, <1>4, <1>5, <1>6, LoadedTyped
  <1>8. /\ shown' = View(app') /\ board' = None
        /\ line' = [x \in Socket |-> IF x = Slot THEN "connecting" ELSE "none"]
        /\ down' = [x \in Socket |-> IF x = client.ws THEN <<>> ELSE down[x]]
    BY DEF Reloads
  <1>9. down' \in Wires
    BY <1>8 DEF Screen, Wires
  <1>10. Shows' /\ Awaited'
    BY <1>7, <1>8 DEF Shows, Awaited, View
  <1> QED BY <1>7, <1>8, <1>9, <1>10 DEF Screen

-----------------------------------------------------------------------------

LEMMA InitScreen == Init => Screen
  <1> SUFFICES ASSUME Init PROVE Screen
    OBVIOUS
  <1> DEFINE s == CHOOSE x \in Socket : TRUE
             t == CHOOSE x \in Me : TRUE
  <1>1. t \in Me
    BY BrowserAssumption DEF Me
  <1>2. /\ mgr \in Served(t)
        /\ \E named \in {TRUE, InActiveRoom(mgr, t)}, u \in {None} \cup Invitations :
              app = Loaded(u, named, t)
        /\ line = [x \in Socket |-> IF x = s THEN "connecting" ELSE "none"]
        /\ ServerInit /\ shown = View(app) /\ board = None
    BY DEF Init
  <1> HIDE DEF s, t
  <1>3. Orderly(mgr)
    BY <1>1, <1>2, ServedOrderly
  <1>4. PICK named \in {TRUE, InActiveRoom(mgr, t)}, u \in {None} \cup Invitations :
              app = Loaded(u, named, t)
    BY <1>2
  <1>5. named \in BOOLEAN /\ u \in Link \cup {None}
    BY <1>3, InvitationsTyped DEF InActiveRoom
  <1>6. app \in App /\ app.phase = "reconnecting" /\ app.banner = FALSE
    BY <1>1, <1>4, <1>5, LoadedTyped
  <1>7. down \in Wires
    BY <1>2 DEF ServerInit, Wires
  <1>8. Shows /\ Awaited
    BY <1>2, <1>6 DEF Shows, Awaited, View
  <1> QED BY <1>2, <1>6, <1>7, <1>8 DEF Screen

LEMMA NextScreen == Inv /\ Screen /\ [Next]_vars => Screen'
  <1> SUFFICES ASSUME Inv, Screen, [Next]_vars PROVE Screen'
    OBVIOUS
  <1>1. CASE UNCHANGED vars
    BY <1>1 DEF vars, serverVars, browserVars, Screen, Shows, Awaited
  <1>2. CASE Proceeds
    BY <1>2, RendersScreen, TimersScreen, RedialsScreen, OpensScreen, DropsScreen, HearsScreen
       DEF Proceeds
  <1>3. CASE Person
    BY <1>3, PersonScreen, ReloadsScreen DEF Person
  <1>4. ASSUME NEW s \in Socket, Fails(s) \/ LinkBreaks(s) PROVE Screen'
    BY <1>4, FailsScreen, LinkBreaksScreen
  <1>5. CASE ServerNext /\ UNCHANGED browserVars
    BY <1>5, ServerNextScreen DEF Apart
  <1> QED BY <1>1, <1>2, <1>3, <1>4, <1>5 DEF Next

LEMMA ScreenAlways == Spec => []Screen
  BY SpecInv, InitScreen, NextScreen, PTL DEF Spec

\* Every message on its way, every state of the App and of the board it shows, the
\* manager and the sessions keep to their types, for any numbers of players, sockets,
\* codes, rooms and events.
THEOREM BrowserTypeCorrect == Spec => []BrowserTypeOK
  <1>1. Inv /\ Screen => BrowserTypeOK
    <2> SUFFICES ASSUME Inv, Screen PROVE BrowserTypeOK
      OBVIOUS
    <2>1. \A s \in Socket : \A i \in 1..Len(up[s]) : up[s][i] \in Request
      <3>1. \A s \in Socket : up[s] \in Seq(Request)
        BY DEF Inv, Sessions
      <3> QED BY <3>1
    <2>2. \A s \in Socket : \A i \in 1..Len(down[s]) : down[s][i] \in Message
      <3>1. \A s \in Socket : down[s] \in Seq(Message)
        BY DEF Screen, Wires
      <3> QED BY <3>1
    <2> QED BY <2>1, <2>2 DEF Inv, Orderly, Sessions, Client, Screen, Board, BrowserTypeOK
  <1> QED BY <1>1, SpecInv, ScreenAlways, PTL

\* Once all is quiet no page is left reconnecting or under the banner: the session
\* over which a page reconnects answers AUTHENTICATE, and the answer takes the page
\* on or sets the timer that does, whatever else is lost or comes first.
THEOREM NoPageLeftWaiting == Spec => []SettledScreen
  <1>1. Inv /\ Screen => SettledScreen
    <2> SUFFICES ASSUME Inv, Screen, AtRest
                 PROVE  app.phase # "reconnecting" /\ app.connected /\ ~app.banner
      BY DEF SettledScreen
    <2> DEFINE s == client.ws
    <2>1. /\ s \in Socket /\ line[s] = "open" /\ session[s] = "open"
          /\ up[s] = <<>> /\ down[s] = <<>> /\ ~app.fallback /\ Online
      BY DEF AtRest, Online, NoLine, Inv, Client
    <2>2. who[s] # None
      BY <2>1 DEF Inv, Sessions, InOrder
    <2>3. ~Answered(down[s])
      BY <2>1 DEF Answered
    <2>4. app.phase # "reconnecting"
      BY <2>1, <2>2, <2>3 DEF Screen, Awaited
    <2> QED BY <2>1, <2>4 DEF Inv, OneLine, Screen, Shows
  <1> QED BY <1>1, SpecInv, ScreenAlways, PTL

\* The bookkeeping of the properties watches the browser and does not interfere: all
\* that holds of Spec holds of what the runs check.
THEOREM WatchingIsHarmless == WatchedSpec => Spec
  <1>1. WatchedInit => Init
    BY DEF WatchedInit
  <1>2. [WatchedNext]_watchedVars => [Next]_vars
    BY DEF WatchedNext, watchedVars
  <1> QED BY <1>1, <1>2, PTL DEF WatchedSpec, Spec
=============================================================================
