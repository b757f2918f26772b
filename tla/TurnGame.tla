------------------------------ MODULE TurnGame ------------------------------
(***************************************************************************)
(* What a caller of GameState may rely on, whatever the spies do: the two  *)
(* sides take turns, the turns are numbered, a turn has two to four        *)
(* actions, only the side on turn acts, and the game ends once, in a hit   *)
(* by the side on turn or when a side gives up.                            *)
(***************************************************************************)
EXTENDS Naturals

CONSTANTS Side, NoSide

VARIABLES
  turn,        \* the side on turn
  number,      \* the number of its turn
  left,        \* the actions it has left
  winner       \* NoSide while the game lasts

vars == <<turn, number, left, winner>>

Init ==
  /\ turn \in Side
  /\ number = 1
  /\ left = 2
  /\ winner = NoSide

\* An accepted action; it may win the game for the side on turn.
Act ==
  /\ winner = NoSide
  /\ left > 0
  /\ left' = left - 1
  /\ winner' \in {NoSide, turn}
  /\ UNCHANGED <<turn, number>>

\* Ending the turn, with actions left or not.
Pass ==
  /\ winner = NoSide
  /\ turn' \in Side \ {turn}
  /\ number' = number + 1
  /\ left' \in 2..4
  /\ UNCHANGED winner

\* Abort or forfeit, by either side at any time.
GiveUp ==
  /\ winner = NoSide
  /\ winner' \in Side
  /\ UNCHANGED <<turn, number, left>>

Next == Act \/ Pass \/ GiveUp

Spec == Init /\ [][Next]_vars
=============================================================================
