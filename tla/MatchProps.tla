----------------------------- MODULE MatchProps -----------------------------
(***************************************************************************)
(* What a match promises its two players, stated over Match.               *)
(***************************************************************************)
EXTENDS Match

Waiting == {Unplaced(i, a) : i \in IntelGaps, a \in ActionGaps}

\* The state of a match keeps to its types, before the start and after it; no
\* clock passes the last value it is compared with, no counter the third turn.
MatchTypeOK ==
  /\ started \in BOOLEAN
  /\ IF started THEN game \in Game
     ELSE game \in Waiting \cup {Concede(g, ALPHA) : g \in Waiting}
  /\ clock \in 0..(TURN_DURATION + STARTUP_GRACE)
  /\ grace \in BOOLEAN
  /\ missed \in [Side -> 0..MAX_CONSECUTIVE_TIMEOUTS]
  /\ away \in [Side -> {Here} \cup 0..DISCONNECT_TIMEOUT]
  /\ finished \in BOOLEAN
  /\ DOMAIN screen = Side
  /\ verdict \in [Side -> Seq(Side)]

\* However a game ends - a strike, a concession, three missed turns, a lost
\* connection, or several of these in one tick - it ends once: each player is
\* sent exactly one GAME_OVER, both the same, and only a match whose game is over
\* is marked for removal.
OneVerdict ==
  /\ finished <=> game.over
  /\ \A s \in Side :
       verdict[s] = IF game.over /\ Joined(s) THEN <<game.winner>> ELSE <<>>

\* The match never leaves the turn with a player who has no action left: a
\* player would have to wait for the timer.
OnTurnCanAct == Active => game.actions[game.turn] > 0

\* Notices come and go with the commands; everything else a player was last sent
\* is the present state of the game.  Only a player whose opponent has
\* Encryption and is on turn may be behind.  When the game is over both have seen
\* the end.
Board(v) == [v EXCEPT !.flags = {}]
UpToDate ==
  started => \A s \in Side :
    /\ game.over => screen[s] = MatchState(game, s)
    /\ game.turn = s \/ ~Encrypted(game, Opp(s)) =>
         Board(screen[s]) = Board(MatchState(game, s))

\* A player is charged only with turns of its own that are over: the timer, the
\* check before a message and a command that comes too late may each notice the
\* same deadline, but a missed turn is counted once, and against its owner.
MissedTurnsWereTheirs ==
  started => \A s \in Side :
    LET n == game.turnNumber
    IN  missed[s] <= IF game.turn = s THEN (n - 1) \div 2 ELSE n \div 2

\* Whatever still arrives after the end, commands, deadlines or disconnections,
\* the game and what the players were told of its outcome stay as they are.
EndIsFinal == [][game.over => game' = game /\ verdict' = verdict]_matchVars

-----------------------------------------------------------------------------
(* What the comments say and the code does not do.                         *)

\* Match.cpp:222: only an accepted command, of the player on turn, clears the
\* player's count of missed turns.
OnlySuccessClears ==
  [][\A s \in Side :
       missed[s] > 0 /\ missed'[s] = 0 => game.turn = s /\ game' # game]_matchVars
=============================================================================
