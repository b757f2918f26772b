------------------------------ MODULE MCSearch ------------------------------
(***************************************************************************)
(* Every graph over five cities.                                           *)
(***************************************************************************)
EXTENDS Search, TLC

CONSTANTS c1, c2, c3, c4, c5

Cities == {c1, c2, c3, c4, c5}

\* An edge is listed once, in one direction.
AllRoads ==
  {<<c1, c2>>, <<c1, c3>>, <<c1, c4>>, <<c1, c5>>, <<c2, c3>>, <<c2, c4>>,
   <<c2, c5>>, <<c3, c4>>, <<c3, c5>>, <<c4, c5>>}

\* The outer zone holds only c1 and c5 while both are on the map, so that on many
\* graphs every city of the zone is one the others need.
DiagonalX == c1 :> 0 @@ c2 :> 3 @@ c3 :> 5 @@ c4 :> 6 @@ c5 :> 9
=============================================================================
