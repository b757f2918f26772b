------------------------------- MODULE Search -------------------------------
(***************************************************************************)
(* The loop of GameState::would_graph_stay_connected, on every map over    *)
(* the given cities: would the cities still on the map be connected if one *)
(* more left?  CityGraph says in one expression what this loop computes    *)
(* city by city.  The sets of the code are unordered: the search starts    *)
(* anywhere, and finds the neighbours of a city in any order.              *)
(***************************************************************************)
EXTENDS Integers, FiniteSets, SequencesExt

CONSTANTS City, X, Y, None,
          Roads          \* bound: the edges a map may have

VARIABLES
  edges,        \* the edges of the map
  gone,         \* disappeared_cities_
  leaving,      \* city_to_remove
  visited,
  queue         \* used as a stack

map == <<edges, gone, leaving>>
searchVars == <<edges, gone, leaving, visited, queue>>

Graph == INSTANCE CityGraph WITH Edges <- edges

Remaining == City \ (gone \cup {leaving})

\* The question is asked of a city still on the map, and answered without a
\* search when it is the last one.
SearchInit ==
  /\ edges \in SUBSET Roads
  /\ gone \in SUBSET City
  /\ leaving \in City \ gone
  /\ Remaining # {}
  /\ \E start \in Remaining : visited = {start} /\ queue = <<start>>

\* The neighbours of a city that are seen for the first time.
New(c) == {d \in Graph!Adjacent(c) : d \in Remaining /\ d \notin visited}

\* One turn of the loop.
Expand ==
  /\ queue # <<>>
  /\ visited' = visited \cup New(Last(queue))
  /\ \E order \in SetToSeqs(New(Last(queue))) : queue' = Front(queue) \o order
  /\ UNCHANGED map

SearchSpec == SearchInit /\ [][Expand]_searchVars /\ WF_searchVars(Expand)

-----------------------------------------------------------------------------
\* The value returned when the loop has ended.
Ended == queue = <<>>
Connects == Cardinality(visited) = Cardinality(Remaining)

\* The search answers what connectedness means: the remaining cities cannot be
\* parted in two without an edge of the map between the parts.
RightAnswer == Ended => (Connects <=> Graph!Uncut(Remaining))

\* The answer is the one the models of the game compute, wherever the search
\* starts and in whatever order it finds the cities.
AnswersAsModelled == Ended => (Connects <=> Graph!StaysConnected(gone, leaving))

\* A map that is connected always has a city it can lose, whatever the cities in
\* its outer zone are: the code's "shouldn't happen" (GameState.cpp:864) does not,
\* and the two actions of warning are never left out while a city is left.
SomethingToLose ==
  Graph!Connected(City \ gone) => Graph!Disappearable(gone) # {}

\* Every turn of the loop brings it nearer to its end, also on a map with cycles:
\* a city may be pushed once, and is popped for good.
ToDo == 2 * Cardinality(Remaining \ visited) + Len(queue)
SearchAdvances == [][ToDo' < ToDo]_searchVars

\* So the loop ends.
SearchEnds == <>Ended
=============================================================================
