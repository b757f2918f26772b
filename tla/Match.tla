------------------------------- MODULE Match -------------------------------
(***************************************************************************)
(* class Match: two players, one game, and the clocks.  Every public       *)
(* method runs under the mutex of the match, so each is one action, in any *)
(* order: the commands of both players, the tick of the server, broken     *)
(* connections, and time.                                                  *)
(*                                                                         *)
(* A point in time of the code is kept here as the time passed since.      *)
(***************************************************************************)
EXTENDS GameState, Messages, Sequences

CONSTANTS
  TURN_DURATION, STARTUP_GRACE, DISCONNECT_TIMEOUT,  \* 30, 5 and 60 s in the code
  MAX_CONSECUTIVE_TIMEOUTS                           \* 3 in the code

ASSUME TimeAssumption ==
  /\ TURN_DURATION \in Nat \ {0}
  /\ STARTUP_GRACE \in Nat
  /\ DISCONNECT_TIMEOUT \in Nat \ {0}
  /\ MAX_CONSECUTIVE_TIMEOUTS \in Nat \ {0}

VARIABLES
  started,      \* started_: both players have joined
  clock,        \* time since turn_start_time_
  grace,        \* first_turn_grace_
  missed,       \* alpha_consecutive_timeouts_, beta_consecutive_timeouts_
  away,         \* time since a player was disconnected, or Here
  finished,     \* finished_at_ is set
  screen,       \* the last MATCH_STATE sent to each player, None before the first
  verdict       \* the winners named in the GAME_OVER messages sent to each player

clocks == <<clock, grace, missed>>
sent == <<screen, verdict>>
matchVars == <<game, started, clock, grace, missed, away, finished, screen, verdict>>

Here == -1

\* The game before the match starts: no city is set, nobody has been anywhere.
Unplaced(gapI, gapA) ==
  [NewGame([s \in Side |-> None], ALPHA, gapI, gapA)
     EXCEPT !.visited = [s \in Side |-> {}]]

\* create_match: ALPHA is in the room.
MatchInit ==
  /\ game \in {Unplaced(gapI, gapA) : gapI \in IntelGaps, gapA \in ActionGaps}
  /\ started = FALSE
  /\ clock = 0
  /\ grace = TRUE
  /\ missed = [s \in Side |-> 0]
  /\ away = [s \in Side |-> Here]
  /\ finished = FALSE
  /\ screen = [s \in Side |-> None]
  /\ verdict = [s \in Side |-> <<>>]

-----------------------------------------------------------------------------
Joined(s) == s = ALPHA \/ started

\* Mutant: commands and deadlines are still served when the game is over.
OnceStarted == started
Active == started /\ ~game.over

\* effective_limit and check_turn_timeout.
Limit == IF grace THEN TURN_DURATION + STARTUP_GRACE ELSE TURN_DURATION

\* Mutant: a turn does not end while a player is away.
WaitsForAbsent == Active /\ clock >= Limit /\ \A s \in Side : away[s] = Here
TimedOut == Active /\ clock >= Limit

\* broadcast_state to the players in "to", when the game is g.  Its own check for
\* a timeout finds nothing: every caller has just reset the clock or ended the game.
Broadcast(g, to) ==
  screen' = [s \in Side |-> IF s \in to THEN MatchState(g, s) ELSE screen[s]]

Everybody == {s \in Side : Joined(s)}

\* mark_finished and GAME_OVER to both players, when g is over.
Conclude(g) ==
  /\ finished' = (finished \/ g.over)
  /\ verdict' = [s \in Side |-> IF g.over /\ Joined(s)
                                THEN Append(verdict[s], g.winner) ELSE verdict[s]]

\* BETA joins and start runs: the cities and the first turn are drawn.
Start ==
  /\ ~started /\ ~game.over
  /\ started' = TRUE
  /\ \E g \in NewGames :
       /\ g.untilIntel = game.untilIntel /\ g.untilAction = game.untilAction
       /\ game' = g
       /\ Broadcast(g, Side)
  /\ clock' = 0
  /\ UNCHANGED <<grace, missed, away, finished, verdict>>

-----------------------------------------------------------------------------
(* The clocks.                                                             *)

\* Mutant: one missed turn too many is forgiven.
OneMore(p) == missed[p] >= MAX_CONSECUTIVE_TIMEOUTS
LastMiss(p) == missed[p] + 1 >= MAX_CONSECUTIVE_TIMEOUTS

\* Mutant: the turn is charged to the player whose turn starts.
ChargeNext ==
  LET p == game.turn
      passed == EndTurnEffect([game EXCEPT !.actions[p] = 0], p, TRUE)
      g == IF LastMiss(Opp(p)) THEN Concede(passed, Opp(p)) ELSE passed
  IN  /\ game' = g
      /\ grace' = FALSE
      /\ clock' = 0
      /\ missed' = [missed EXCEPT ![Opp(p)] = @ + 1]
      /\ Conclude(g)
      /\ Broadcast(g, Side)
      /\ UNCHANGED <<started, away>>

\* handle_turn_timeout: the turn is lost and so, at the third in a row, the game.
HandleTurnTimeout ==
  LET p == game.turn
      passed == EndTurnEffect([game EXCEPT !.actions[p] = 0], p, TRUE)
      g == IF LastMiss(p) THEN Concede(passed, p) ELSE passed
  IN  /\ game' = g
      /\ grace' = FALSE
      /\ clock' = 0
      /\ missed' = [missed EXCEPT ![p] = @ + 1]
      /\ Conclude(g)
      /\ Broadcast(g, Side)
      /\ UNCHANGED <<started, away>>

\* check_disconnect_timeouts: when both are gone for good, ALPHA loses.
Lost == {s \in Side : away[s] >= DISCONNECT_TIMEOUT}

HandleDisconnectTimeout ==
  LET g == Concede(game, IF ALPHA \in Lost THEN ALPHA ELSE BETA)
  IN  /\ game' = g
      /\ Conclude(g)
      /\ Broadcast(g, Side)
      /\ UNCHANGED <<started, clock, grace, missed, away>>

\* check_for_timeout, called by the server's tick and before every message.
CheckForTimeout ==
  \/ Active /\ Lost # {} /\ HandleDisconnectTimeout
  \/ Lost = {} /\ TimedOut /\ HandleTurnTimeout

\* Time passes, up to where no comparison with a limit can change any more.
Later(t, limit) == IF t < limit THEN t + 1 ELSE t
Pass ==
  /\ ~game.over
  /\ clock' = IF started THEN Later(clock, Limit) ELSE 0
  /\ away' = [s \in Side |-> IF away[s] = Here THEN Here
                             ELSE Later(away[s], DISCONNECT_TIMEOUT)]
  /\ UNCHANGED <<game, started, grace, missed, finished, sent>>

-----------------------------------------------------------------------------
(* Commands: handle_action, handle_end_turn, handle_abort.                 *)

\* The command arrives after the deadline of the other player's turn: the turn
\* is ended, the command dropped.
Dropped(s) == TimedOut /\ s # game.turn /\ HandleTurnTimeout

\* What precedes every other command, whether it is legal or not.
Attended(s) ==
  /\ ~(TimedOut /\ s # game.turn)
  /\ missed' = [missed EXCEPT ![s] = 0]
  /\ grace' = FALSE

\* Refused: the sender gets an error, the clock starts again if it had run out
\* or the grace period was on; g is what the refusal leaves of the game.
Refused(s, g) ==
  /\ Attended(s)
  /\ game' = g
  /\ clock' = IF TimedOut \/ grace THEN 0 ELSE clock
  /\ UNCHANGED <<started, away, finished, sent>>

\* Mutants: nobody ends the turn after its last action; the last action stays
\* hidden although it ends the turn.
NoAutoEnd(s, h, hidden) ==
  /\ Attended(s)
  /\ game' = h
  /\ clock' = 0
  /\ Conclude(h)
  /\ Broadcast(h, IF hidden THEN {h.turn} ELSE Side)
  /\ UNCHANGED <<started, away>>
StaysHidden(s, h, hidden) ==
  LET ends == ~h.over /\ h.actions[s] <= 0
      g == IF ends THEN EndTurnEffect(h, s, FALSE) ELSE h
  IN  /\ Attended(s)
      /\ game' = g
      /\ clock' = 0
      /\ Conclude(g)
      /\ Broadcast(g, IF hidden THEN {g.turn} ELSE Side)
      /\ UNCHANGED <<started, away>>

\* Accepted: the turn ends with its last action.  A hidden action is not shown
\* to the opponent, unless it ends the turn.
Accepted(s, h, hidden) ==
  LET ends == ~h.over /\ h.actions[s] <= 0
      g == IF ends THEN EndTurnEffect(h, s, FALSE) ELSE h
  IN  /\ Attended(s)
      /\ game' = g
      /\ clock' = 0
      /\ Conclude(g)
      /\ Broadcast(g, IF hidden /\ ~ends THEN {g.turn} ELSE Side)
      /\ UNCHANGED <<started, away>>

\* handle_action, for a command with the check ok and the given effect.
HandleAction(s, ok, effect, hidden) ==
  /\ Joined(s)
  /\ game.turnNumber < MaxTurn
  /\ \/ Dropped(s)
     \/ ~Active /\ Refused(s, game)
     \/ Active /\ ~ok /\ Refused(s, ClearNotices(game, s))
     \/ Active /\ ok /\ \E h \in CountAction(effect) : Accepted(s, h, hidden)

HandleMove(s, c) ==
  LET g == ClearNotices(game, s)
  IN  /\ "MOVE" \in Commands
      /\ HandleAction(s, CanMove(g, s, c), MoveEffect(g, s, c), FALSE)

HandleStrike(s) ==
  LET g == ClearNotices(game, s)
  IN  /\ "STRIKE" \in Commands
      /\ HandleAction(s, CanStrike(g, s), StrikeEffect(g, s),
                      Encrypted(g, s) /\ ~Hit(g, s))

HandleWait(s) ==
  LET g == ClearNotices(game, s)
  IN  /\ "WAIT" \in Commands
      /\ HandleAction(s, CanWait(g, s), WaitEffect(g, s), FALSE)

HandleControl(s) ==
  LET g == ClearNotices(game, s)
  IN  /\ "CONTROL" \in Commands
      /\ HandleAction(s, CanControl(g, s), ControlEffect(g, s), FALSE)

HandleAbility(s, a) ==
  LET g == ClearNotices(game, s)
  IN  /\ a \in Commands
      /\ HandleAction(s, CanUse(g, s, a), UseEffect(g, s, a),
                      Encrypted(g, s) /\ a # "ENCRYPTION")

\* An unknown action or ability: refused before the game sees it.
HandleUnknown(s) ==
  /\ Joined(s)
  /\ game.turnNumber < MaxTurn
  /\ Dropped(s) \/ Refused(s, game)

\* handle_end_turn asks no clock; refused, it changes nothing.
HandleEndTurn(s) ==
  /\ "END_TURN" \in Commands
  /\ started /\ MyTurn(game, s)
  /\ game.turnNumber < MaxTurn
  /\ game' = EndTurnEffect(game, s, FALSE)
  /\ clock' = 0
  /\ missed' = [missed EXCEPT ![s] = 0]
  /\ Broadcast(game', Side)
  /\ UNCHANGED <<started, grace, away, finished, verdict>>

\* Mutant: an abort is served whether or not the game is over.
AbortAgain(s) ==
  /\ "CONCEDE" \in Commands
  /\ Joined(s)
  /\ game' = Concede(game, s)
  /\ Conclude(game')
  /\ Broadcast(game', Everybody)
  /\ UNCHANGED <<started, clocks, away>>

\* handle_abort, also before the match has started.
HandleAbort(s) ==
  /\ "CONCEDE" \in Commands
  /\ Joined(s) /\ ~game.over
  /\ game' = Concede(game, s)
  /\ Conclude(game')
  /\ Broadcast(game', Everybody)
  /\ UNCHANGED <<started, clocks, away>>

-----------------------------------------------------------------------------
(* Connections.                                                            *)

\* handle_player_disconnect starts the player's clock again, away or not.
Disconnect(s) ==
  /\ Joined(s)
  /\ away' = [away EXCEPT ![s] = 0]
  /\ UNCHANGED <<game, started, clocks, finished, sent>>

\* Mutant: one reconnection counts for both players.
BothBack(s) ==
  /\ Joined(s)
  /\ away' = [p \in Side |-> Here]
  /\ IF started THEN Broadcast(game, Side) ELSE UNCHANGED screen
  /\ UNCHANGED <<game, started, clocks, finished, verdict>>

\* reconnect_player: both players are sent the state.
Reconnect(s) ==
  /\ Joined(s)
  /\ away' = [away EXCEPT ![s] = Here]
  /\ IF started THEN Broadcast(game, Side) ELSE UNCHANGED screen
  /\ UNCHANGED <<game, started, clocks, finished, verdict>>

Issue(s) ==
  \/ \E c \in City : HandleMove(s, c)
  \/ HandleStrike(s)
  \/ HandleWait(s)
  \/ HandleControl(s)
  \/ \E a \in Ability : HandleAbility(s, a)
  \/ HandleUnknown(s)
  \/ HandleEndTurn(s)
  \/ HandleAbort(s)

MatchNext ==
  \/ Start
  \/ CheckForTimeout
  \/ Pass
  \/ \E s \in Side : Issue(s) \/ Disconnect(s) \/ Reconnect(s)

MatchSpec == MatchInit /\ [][MatchNext]_matchVars
=============================================================================
