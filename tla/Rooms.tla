------------------------------- MODULE Rooms -------------------------------
(***************************************************************************)
(* class MatchManager: rooms, the codes that lead to them, and the room    *)
(* each player is linked to.  Every method runs under the mutex of the     *)
(* manager; here it is an operator from one manager to the next and to the *)
(* messages it sends, so that the sessions can call it from their own      *)
(* handlers.  Of a match only its life is kept: waiting for a second       *)
(* player, running, or over, and who is taken for disconnected.            *)
(***************************************************************************)
EXTENDS Sequences, FiniteSets, Naturals

CONSTANTS
  Player,     \* the tokens players authenticate with
  MaxRooms,   \* bound: rooms created in all
  Code,       \* room codes
  None        \* nothing, nobody

\* Session ids are drawn among 900000; here they are given in order, none twice.
\* Codes, drawn among 9000 and given up when a match starts, may be used again.
RoomId == 1..MaxRooms

-----------------------------------------------------------------------------
(* Messages to a player.  WAITING_FOR_OPPONENT, which only logs, is left   *)
(* out, and so are OPPONENT_DISCONNECTED and OPPONENT_RECONNECTED, which    *)
(* only the board heeds.                                                   *)

Created(r, c) == [type |-> "MATCH_CREATED", room |-> r, code |-> c]
Started(r, c) == [type |-> "MATCH_START", room |-> r, code |-> c]
StateOf(r, over) == [type |-> "MATCH_STATE", room |-> r, over |-> over]
GameOver(r) == [type |-> "GAME_OVER", room |-> r]
Authenticated(in) == [type |-> "AUTHENTICATED", inMatch |-> in]
Refused == [type |-> "ERROR"]

Message ==
  UNION { [type : {"MATCH_CREATED", "MATCH_START"}, room : RoomId, code : Code],
          [type : {"MATCH_STATE"}, room : RoomId, over : BOOLEAN],
          [type : {"GAME_OVER"}, room : RoomId],
          [type : {"AUTHENTICATED"}, inMatch : BOOLEAN],
          [type : {"ERROR"}] }

\* What a method sends to each player, in order.
Nothing == [p \in Player |-> <<>>]

\* send_to: what is addressed to an empty slot goes nowhere.
SendTo(out, p, msg) == [q \in Player |-> IF q = p THEN Append(out[q], msg) ELSE out[q]]

-----------------------------------------------------------------------------
(* Rooms.                                                                  *)

Room == [code : Code, alpha : Player, beta : Player \cup {None},
         life : {"waiting", "running", "over"}, away : SUBSET Player]

Manager == [issued : 0..MaxRooms,
            rooms : [RoomId -> Room \cup {None}],
            codes : [Code -> RoomId \cup {None}],
            links : [Player -> RoomId \cup {None}]]

ASSUME RoomAssumption ==
  /\ MaxRooms \in Nat \ {0}
  /\ None \notin Player \cup RoomId \cup Code \cup Room

NoRooms == [issued |-> 0,
            rooms |-> [r \in RoomId |-> None],
            codes |-> [c \in Code |-> None],
            links |-> [p \in Player |-> None]]

Exists(m, r) == r \in RoomId /\ m.rooms[r] # None
Over(m, r) == m.rooms[r].life = "over"
InActiveRoom(m, p) == Exists(m, m.links[p]) /\ ~Over(m, m.links[p])

Members(room) == {room.alpha, room.beta} \ {None}

\* player_id_of(opposite(side_of(p))): who is not ALPHA is taken for BETA.
OpponentOf(room, p) == IF p = room.alpha THEN room.beta ELSE room.alpha

SendBoth(out, room, msg) == SendTo(SendTo(out, room.alpha, msg), room.beta, msg)

\* broadcast_state: MATCH_STATE to both.
Broadcast(out, room, r) == SendBoth(out, room, StateOf(r, room.life = "over"))

\* What a method leaves: the manager and the messages it has sent.
Done(m, out) == [mgr |-> m, out |-> out]
Silently(m) == Done(m, Nothing)

-----------------------------------------------------------------------------
(* class Match, as far as its life goes.                                   *)

\* The end of a game: GAME_OVER to both and the final state.
Finish(m, r) ==
  LET room == [m.rooms[r] EXCEPT !.life = "over"]
  IN  Done([m EXCEPT !.rooms[r] = room],
           Broadcast(SendBoth(Nothing, room, GameOver(r)), room, r))

\* handle_player_disconnect: whatever the state of the game.
Disconnect(m, r, p) ==
  Silently([m EXCEPT !.rooms[r].away = @ \cup {p}])

\* reconnect_player: the host of a waiting room is told its code; in a running
\* or finished match the player is sent everything again.
Reconnect(m, r, p) ==
  LET room == m.rooms[r]
      state == StateOf(r, room.life = "over")
      again == SendTo(SendTo(Nothing, p, Started(r, room.code)), p, state)
  IN  Done([m EXCEPT !.rooms[r].away = @ \ {p}],
           IF room.life # "waiting" THEN SendTo(again, OpponentOf(room, p), state)
           ELSE IF p = room.alpha THEN SendTo(Nothing, p, Created(r, room.code))
           ELSE Nothing)

-----------------------------------------------------------------------------
(* class MatchManager.                                                     *)

Unlink(m, P) == [m EXCEPT !.links = [q \in Player |-> IF q \in P THEN None ELSE @[q]]]

\* The end of create_match: a new id, a code, and the host told.
NewRoom(m, p, c) ==
  LET r == m.issued + 1
      room == [code |-> c, alpha |-> p, beta |-> None, life |-> "waiting", away |-> {}]
  IN  Done([m EXCEPT !.issued = r, !.rooms[r] = room, !.codes[c] = r, !.links[p] = r],
           SendTo(Nothing, p, Created(r, c)))

\* Mutant: any code is drawn, whether or not it leads to a room.
CodeTaken(m, p) ==
  IF InActiveRoom(m, p) THEN {Done(m, SendTo(Nothing, p, Refused))}
  ELSE {NewRoom(m, p, c) : c \in {x \in Code : m.issued < MaxRooms}}

\* create_match: refused in an active room, otherwise under a new id and any code
\* that leads nowhere.
CreateMatch(m, p) ==
  IF InActiveRoom(m, p) THEN {Done(m, SendTo(Nothing, p, Refused))}
  ELSE {NewRoom(m, p, c) : c \in {x \in Code : m.issued < MaxRooms /\ m.codes[x] = None}}

\* The second player joins, the code is consumed and the match starts.
Enter(m, r, p, c) ==
  LET room == [m.rooms[r] EXCEPT !.beta = p, !.life = "running"]
  IN  Done([m EXCEPT !.rooms[r] = room, !.codes[c] = None, !.links[p] = r],
           Broadcast(SendBoth(Nothing, room, Started(r, room.code)), room, r))

\* join_match_by_code: one's own room is a reconnection; a player in another active
\* room is not told anything; a link to a finished room is given up first, even
\* when the code then turns out to lead nowhere.
JoinMatch(m, p, c) ==
  LET r == m.codes[c]
      here == m.links[p]
      free == Unlink(m, {p})
  IN  IF here # None /\ r = here
      THEN IF Exists(m, r) THEN Reconnect(m, r, p) ELSE Silently(m)
      ELSE IF InActiveRoom(m, p) THEN Silently(m)
      ELSE IF Exists(m, r) /\ m.rooms[r].beta = None THEN Enter(free, r, p, c)
      ELSE Done(free, SendTo(Nothing, p, Refused))

\* remove_player: the connection of p is gone.
RemovePlayer(m, p) ==
  IF Exists(m, m.links[p]) THEN Disconnect(m, m.links[p], p) ELSE Silently(m)

\* Mutant: the code of an aborted room still leads to it.
CodeOutlives(m, p) ==
  LET r == m.links[p]
      room == m.rooms[r]
      ended == IF room.life = "over" THEN Silently(m) ELSE Finish(m, r)
      left == Unlink(ended.mgr, Members(room))
  IN  IF r = None THEN Silently(m)
      ELSE IF ~Exists(m, r) THEN Silently(Unlink(m, {p}))
      ELSE Done([left EXCEPT !.rooms[r] = IF room.life = "waiting" THEN None ELSE @],
                ended.out)

\* abort_match: the code the room remembers is given up, whomever it belongs to by
\* now; both players are unlinked, whatever they are linked to by now.
AbortMatch(m, p) ==
  LET r == m.links[p]
      room == m.rooms[r]
      ended == IF room.life = "over" THEN Silently(m) ELSE Finish(m, r)
      left == Unlink(ended.mgr, Members(room))
  IN  IF r = None THEN Silently(m)
      ELSE IF ~Exists(m, r) THEN Silently(Unlink(m, {p}))
      ELSE Done([left EXCEPT !.codes[room.code] = None,
                             !.rooms[r] = IF room.life = "waiting" THEN None ELSE @],
                ended.out)

\* leave_match: a finished room is left; leaving a running one is a disconnection.
LeaveMatch(m, p) ==
  LET r == m.links[p]
  IN  IF Exists(m, r) /\ ~Over(m, r) THEN Disconnect(m, r, p)
      ELSE Silently(Unlink(m, {p}))

\* Mutant: the players of a room that is gone are still linked to it.
LinksOutlive(m, r) ==
  Silently([m EXCEPT
    !.rooms[r] = None,
    !.codes = [c \in Code |-> IF @[c] = r THEN None ELSE @[c]]])

\* purge_expired_matches, a minute after the end: the room, and every code and
\* link that still leads to it.
Purge(m, r) ==
  Silently([m EXCEPT
    !.rooms[r] = None,
    !.codes = [c \in Code |-> IF @[c] = r THEN None ELSE @[c]],
    !.links = [p \in Player |-> IF @[p] = r THEN None ELSE @[p]]])

=============================================================================
