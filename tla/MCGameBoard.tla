---------------------------- MODULE MCGameBoard ----------------------------
(***************************************************************************)
(* A small instance of GameBoard, on the map of three cities in a row.     *)
(***************************************************************************)
EXTENDS GameBoardProps, TLC

CONSTANTS c1, c2, c3

RowCities == {c1, c2, c3}
RowEdges == {<<c1, c2>>, <<c2, c3>>}
RowX == c1 :> 0 @@ c2 :> 3 @@ c3 :> 6

\* The prices of the server and of the buttons agree: 10 to 40 in the code.
SmallCost == [x \in Ability |-> 2]

Reversal == Permutations({c1, c3})
=============================================================================
