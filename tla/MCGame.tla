------------------------------- MODULE MCGame -------------------------------
(***************************************************************************)
(* Small instances of GameState.                                           *)
(***************************************************************************)
EXTENDS GameProps, TLC

CONSTANTS c1, c2, c3, c4

\* Four cities in a row, c1 - c2 - c3 - c4, whose ends lie inside the bounding
\* box of the middle ones: the first city to go is found by the fallback.
RowCities == {c1, c2, c3, c4}
RowEdges == {<<c1, c2>>, <<c2, c3>>, <<c3, c4>>}
RowX == c1 :> 3 @@ c2 :> 0 @@ c3 :> 9 @@ c4 :> 6

\* Three cities in a row, c1 - c2 - c3: the shortest map with a legal start.
ShortCities == {c1, c2, c3}
ShortEdges == {<<c1, c2>>, <<c2, c3>>}
ShortX == c1 :> 0 @@ c2 :> 3 @@ c3 :> 6

\* All that the disappearance of cities depends on, and that depends on it, when
\* the spies only move: where they are, whose turn it is, and the map.
ShrinkView ==
  <<game.city, game.actions, game.turn, game.turnNumber, game.phase,
    game.scheduled, game.gone>>

\* Costs scaled down: most abilities can be bought with the Intel a spy
\* starts with, all in its second turn.
SmallCost == [x \in Ability |-> IF x = "PREP_MISSION" THEN 4 ELSE 2]

\* The two sides can be exchanged, and a row of cities reversed, with its map.
Swaps == Permutations(Side)
RowSymmetry ==
  {p @@ r : p \in Swaps,
            r \in {c1 :> c1 @@ c2 :> c2 @@ c3 :> c3 @@ c4 :> c4,
                   c1 :> c4 @@ c2 :> c3 @@ c3 :> c2 @@ c4 :> c1}}
ShortSymmetry ==
  {p @@ r : p \in Swaps, r \in {c1 :> c1 @@ c2 :> c2 @@ c3 :> c3,
                                c1 :> c3 @@ c2 :> c2 @@ c3 :> c1}}
=============================================================================
