------------------------------- MODULE MCMatch -------------------------------
(***************************************************************************)
(* Small instances of Match, on the map of three cities in a row.          *)
(***************************************************************************)
EXTENDS MatchProps, TLC

CONSTANTS c1, c2, c3

RowCities == {c1, c2, c3}
RowEdges == {<<c1, c2>>, <<c2, c3>>}
RowX == c1 :> 0 @@ c2 :> 3 @@ c3 :> 6

\* Everything can be bought with the Intel a spy starts with.
SmallCost == [x \in Ability |-> 2]

\* The row reversed: its ends exchanged.  The sides are not: ALPHA is the host.
Reversal == Permutations({c1, c3})
==============================================================================
