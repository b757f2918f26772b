------------------------------ MODULE GameState ------------------------------
(***************************************************************************)
(* class GameState as a state machine: any caller may issue any command of *)
(* either side at any time, and the game accepts or refuses it.  The rules *)
(* themselves are in GameRules.                                            *)
(***************************************************************************)
EXTENDS GameRules

CONSTANTS
  MaxTurn,         \* bound: no turn is ended after this one
  Commands         \* the commands, and the abilities, that callers issue

CommandName == {"MOVE", "STRIKE", "WAIT", "CONTROL", "END_TURN", "CONCEDE"}

ASSUME BoundAssumption ==
  /\ MaxTurn \in Nat
  /\ Commands \subseteq CommandName \cup Ability

VARIABLE game

Init == game \in NewGames

\* A command clears the notices, checks, and only when accepted has its effect
\* and counts as an action.
Attempt(g, ok, effect) == game' \in IF ok THEN CountAction(effect) ELSE {g}

Move(s, c) ==
  LET g == ClearNotices(game, s)
  IN  "MOVE" \in Commands /\ Attempt(g, CanMove(g, s, c), MoveEffect(g, s, c))

Strike(s) ==
  LET g == ClearNotices(game, s)
  IN  "STRIKE" \in Commands /\ Attempt(g, CanStrike(g, s), StrikeEffect(g, s))

Wait(s) ==
  LET g == ClearNotices(game, s)
  IN  "WAIT" \in Commands /\ Attempt(g, CanWait(g, s), WaitEffect(g, s))

Control(s) ==
  LET g == ClearNotices(game, s)
  IN  "CONTROL" \in Commands /\ Attempt(g, CanControl(g, s), ControlEffect(g, s))

UseAbility(s, a) ==
  LET g == ClearNotices(game, s)
  IN  a \in Commands /\ Attempt(g, CanUse(g, s, a), UseEffect(g, s, a))

\* A refused end_turn changes nothing.  skip: the turn was ended by a timeout,
\* which costs the exploration bonus.
EndTurn(s, skip) ==
  /\ "END_TURN" \in Commands
  /\ MyTurn(game, s)
  /\ game.turnNumber < MaxTurn
  /\ game' = EndTurnEffect(game, s, skip)

\* abort and forfeit
Abort(s) ==
  /\ "CONCEDE" \in Commands
  /\ game' = Concede(game, s)

Next ==
  \E s \in Side :
    \/ \E c \in City : Move(s, c)
    \/ Strike(s)
    \/ Wait(s)
    \/ Control(s)
    \/ \E a \in Ability : UseAbility(s, a)
    \/ \E skip \in BOOLEAN : EndTurn(s, skip)
    \/ Abort(s)

Spec == Init /\ [][Next]_game
==============================================================================
