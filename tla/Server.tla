------------------------------ MODULE Server ------------------------------
(***************************************************************************)
(* The server as browsers see it: a session for every connection, the      *)
(* registry that says which session a player's messages go to, and the     *)
(* match manager of module Rooms behind them.  Each session handles its    *)
(* messages in order and one at a time; sessions interleave.  Players in   *)
(* Peer are handled without their browsers: what their sessions would ask  *)
(* of the manager happens at any time.                                     *)
(***************************************************************************)
EXTENDS Rooms

CONSTANTS
  Socket,     \* connections, used again once both ends have given them up
  Peer,       \* players whose browsers are not modelled
  MaxEvents   \* bound: what people, other players and the network do in all

ASSUME ServerAssumption ==
  Peer \subseteq Player /\ None \notin Socket /\ MaxEvents \in Nat

VARIABLES
  mgr,        \* the match manager
  registry,   \* WebSocketServer::sessions_, without what has not authenticated
  session,    \* "free", "open", or "cut": the link is gone, the server unaware
  who,        \* Session::player_id_, None until the session has authenticated
  up, down,   \* messages on their way to the server and to the browser
  events      \* how much of that is still to come

serverVars == <<mgr, registry, session, who, up, down, events>>

\* What a browser sends.  SET_PLAYER_NAME is left out, RECONNECT_MATCH never sent.
Authenticate(t) == [type |-> "AUTHENTICATE", token |-> t]
Ask(type) == [type |-> type]
Join(c) == [type |-> "JOIN_MATCH", code |-> c]

Request == [type : {"AUTHENTICATE"}, token : Player]
             \cup [type : {"CREATE_MATCH", "ABORT_MATCH", "LEAVE_MATCH"}]
             \cup [type : {"JOIN_MATCH"}, code : Code]

\* All but the match manager, which may have served before.
ServerInit ==
  /\ registry = [p \in Player |-> None]
  /\ session = [s \in Socket |-> "free"]
  /\ who = [s \in Socket |-> None]
  /\ up = [s \in Socket |-> <<>>]
  /\ down = [s \in Socket |-> <<>>]
  /\ events = MaxEvents

Event == events > 0 /\ events' = events - 1

\* send_to_player: to the session in the registry, if there is one, and a session
\* speaks for one player.  What is sent on a cut link is lost.
Listeners(reg, s) == {p \in Player : reg[p] = s}
Deliver(reg, out) ==
  down' = [s \in Socket |->
             IF session[s] = "open" /\ Listeners(reg, s) # {}
             THEN down[s] \o out[CHOOSE p \in Listeners(reg, s) : TRUE]
             ELSE down[s]]

-----------------------------------------------------------------------------
(* Session::on_message.                                                    *)

\* Mutant: a player that comes back is confirmed and not sent what it has missed.
OnlyConfirmed(p) ==
  LET known == Exists(mgr, mgr.links[p])
  IN  Done(mgr, SendTo(Nothing, p, Authenticated(known)))

\* The registry moves the player to this session; a player of a room is sent what
\* it has missed before the confirmation.
Identified(p) ==
  LET r == mgr.links[p]
      known == Exists(mgr, r)
      back == IF known THEN Reconnect(mgr, r, p) ELSE Silently(mgr)
  IN  Done(back.mgr, SendTo(back.out, p, Authenticated(known)))

Handled(p, q) ==
  CASE q.type = "AUTHENTICATE" -> {Identified(q.token)}
    [] q.type = "CREATE_MATCH" -> CreateMatch(mgr, p)
    [] q.type = "JOIN_MATCH"   -> {JoinMatch(mgr, p, q.code)}
    [] q.type = "ABORT_MATCH"  -> {AbortMatch(mgr, p)}
    [] q.type = "LEAVE_MATCH"  -> {LeaveMatch(mgr, p)}

\* The refusal of CREATE_MATCH is sent on the session, everything else by way of
\* the registry.
ServerReceives(s) ==
  /\ session[s] # "free"
  /\ up[s] # <<>>
  /\ LET q == Head(up[s])
         first == q.type = "AUTHENTICATE"
         p == IF first THEN q.token ELSE who[s]
         direct == first \/ (q.type = "CREATE_MATCH" /\ InActiveRoom(mgr, p))
         here == [registry EXCEPT ![p] = s]
     IN  /\ who' = [who EXCEPT ![s] = p]
         /\ registry' = IF first THEN here ELSE registry
         /\ \E d \in Handled(p, q) :
              mgr' = d.mgr /\ Deliver(IF direct THEN here ELSE registry, d.out)
  /\ up' = [up EXCEPT ![s] = Tail(@)]
  /\ UNCHANGED <<session, events>>

\* Mutant: the player of a closed session stays in the registry.
StaysRegistered(s) ==
  /\ session[s] = "cut"
  /\ up[s] = <<>>
  /\ session' = [session EXCEPT ![s] = "free"]
  /\ who' = [who EXCEPT ![s] = None]
  /\ IF who[s] = None
     THEN UNCHANGED <<mgr, down>>
     ELSE LET d == RemovePlayer(mgr, who[s])
          IN  mgr' = d.mgr /\ Deliver(registry, d.out)
  /\ UNCHANGED <<registry, up, events>>

\* on_read fails: unregister_session takes the player out of the registry, even
\* when another session of the same player is there, and tells the manager.
ServerNotices(s) ==
  /\ session[s] = "cut"
  /\ up[s] = <<>>
  /\ session' = [session EXCEPT ![s] = "free"]
  /\ who' = [who EXCEPT ![s] = None]
  /\ IF who[s] = None
     THEN UNCHANGED <<registry, mgr, down>>
     ELSE /\ registry' = [registry EXCEPT ![who[s]] = None]
          /\ LET d == RemovePlayer(mgr, who[s])
             IN  mgr' = d.mgr /\ Deliver([registry EXCEPT ![who[s]] = None], d.out)
  /\ UNCHANGED <<up, events>>

-----------------------------------------------------------------------------
(* The other players, the games and the clock.                             *)

\* What a peer can ask with some effect.  It leaves a match from the screen that
\* says it is over.  Its session breaks and it comes back.
PeerAsks(q) ==
  CreateMatch(mgr, q)
    \cup {JoinMatch(mgr, q, c) : c \in Code}
    \cup {AbortMatch(mgr, q)}
    \cup (IF InActiveRoom(mgr, q) THEN {} ELSE {LeaveMatch(mgr, q)})
    \cup (IF Exists(mgr, mgr.links[q]) THEN {Reconnect(mgr, mgr.links[q], q)} ELSE {})

PeerActs(q) ==
  /\ Event
  /\ \E d \in PeerAsks(q) \ {Silently(mgr)} : mgr' = d.mgr /\ Deliver(registry, d.out)
  /\ UNCHANGED <<registry, session, who, up>>

\* An action or the end of a turn: the new state to both.
Play(r) ==
  /\ Event
  /\ Exists(mgr, r)
  /\ mgr.rooms[r].life = "running"
  /\ Deliver(registry, Broadcast(Nothing, mgr.rooms[r], r))
  /\ UNCHANGED <<mgr, registry, session, who, up>>

\* A strike hits, or a player is timed out or away for too long.
GameEnds(r) ==
  /\ Event
  /\ Exists(mgr, r)
  /\ mgr.rooms[r].life = "running"
  /\ LET d == Finish(mgr, r) IN mgr' = d.mgr /\ Deliver(registry, d.out)
  /\ UNCHANGED <<registry, session, who, up>>

\* A minute after its end, by the server's timer.
RoomExpires(r) ==
  /\ Event
  /\ Exists(mgr, r)
  /\ Over(mgr, r)
  /\ mgr' = Purge(mgr, r).mgr
  /\ UNCHANGED <<registry, session, who, up, down>>

ServerNext ==
  \/ \E s \in Socket : ServerReceives(s) \/ ServerNotices(s)
  \/ \E q \in Peer : PeerActs(q)
  \/ \E r \in RoomId : Play(r) \/ GameEnds(r) \/ RoomExpires(r)

=============================================================================
