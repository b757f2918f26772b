------------------------------ MODULE CityGraph ------------------------------
(***************************************************************************)
(* The map of cities (CityGraph.cpp) and the choice of the next city to    *)
(* disappear from it (GameState::select_random_city_to_disappear).         *)
(* Constant operators only.  X and Y are the map coordinates of DefaultMap,*)
(* scaled to integers.                                                     *)
(***************************************************************************)
EXTENDS Integers, FiniteSets

CONSTANTS City, Edges, X, Y, None

ASSUME MapAssumption ==
  /\ IsFiniteSet(City)
  /\ None \notin City
  /\ Edges \subseteq City \X City
  /\ X \in [City -> Int]
  /\ Y \in [City -> Int]

\* Edges are stored in both directions, whichever way the map file lists them.
Adjacent(c) == {d \in City : <<c, d>> \in Edges \/ <<d, c>> \in Edges}

\* What it means to be connected: however the cities are parted in two, an edge
\* leads from one part to the other.
Uncut(within) ==
  \A part \in (SUBSET within) \ {{}, within} :
    \E c \in part, d \in within \ part : d \in Adjacent(c)

\* Mutant: the search stops at the neighbours of its start.
OneLayer(start, within) == {start} \cup (Adjacent(start) \cap within)

(***************************************************************************)
(* The graph search.  The code keeps a stack of cities to expand; what it  *)
(* has visited when the stack runs empty is computed here in layers, each  *)
(* adding the neighbours of the one before it, never leaving "within".     *)
(***************************************************************************)
Visited(start, within) ==
  LET layer[n \in Nat] ==
        IF n = 0 THEN {start}
        ELSE LET inner == layer[n - 1]
             IN  inner \cup {d \in within : \E c \in inner : d \in Adjacent(c)}
  IN  layer[Cardinality(within)]

\* No city left counts as connected.
Connected(within) ==
  \/ within = {}
  \/ Visited(CHOOSE c \in within : TRUE, within) = within

StaysConnected(gone, c) == Connected(City \ (gone \cup {c}))

\* A city is peripheral when it lies in the outer fifth of the bounding box of
\* the cities still on the map, in either coordinate.
Peripheral(left) ==
  LET Outer(pos, c) ==
        \E lo, hi \in left :
          /\ \A d \in left : pos[lo] <= pos[d] /\ pos[d] <= pos[hi]
          /\ \/ 5 * (pos[c] - pos[lo]) <= pos[hi] - pos[lo]
             \/ 5 * (pos[hi] - pos[c]) <= pos[hi] - pos[lo]
  IN  {c \in left : Outer(X, c) \/ Outer(Y, c)}

\* Mutant: nobody asks whether the map survives.
AnyCity(gone) == City \ gone

(***************************************************************************)
(* The cities among which the code draws the next one to disappear: the    *)
(* peripheral ones whose loss keeps the map connected, or, when there are  *)
(* none, any city whose loss does.                                         *)
(***************************************************************************)
Disappearable(gone) ==
  LET left == City \ gone
      Safe(S) == {c \in S : StaysConnected(gone, c)}
  IN  IF Safe(Peripheral(left)) # {} THEN Safe(Peripheral(left)) ELSE Safe(left)
==============================================================================
