---------------------------- MODULE SearchProofs ----------------------------
(***************************************************************************)
(* Proofs about Search: on every map, wherever it starts and in whatever   *)
(* order it finds the cities, the loop answers what connectedness means,   *)
(* and every turn of it brings it nearer to its end.                       *)
(***************************************************************************)
EXTENDS Search, FiniteSetTheorems, SequenceTheorems, TLAPS

SearchTypeOK ==
  /\ edges \in SUBSET Roads
  /\ gone \in SUBSET City
  /\ leaving \in City \ gone
  /\ visited \in SUBSET Remaining
  /\ queue \in Seq(visited)

Queued(c) == \E i \in 1..Len(queue) : queue[i] = c

\* A part of the remaining cities that no edge leaves.
Sealed(part) == \A c \in part, d \in Remaining \ part : d \notin Graph!Adjacent(c)

\* What is seen and expanded has no unseen neighbour, and the search never
\* crosses the border of a part that is sealed.
SearchInv ==
  /\ SearchTypeOK
  /\ visited # {}
  /\ \A c \in visited : Queued(c) \/ New(c) = {}
  /\ \A part \in SUBSET Remaining :
       Sealed(part) => visited \cap part = {} \/ visited \subseteq part

LEMMA BothWays ==
  ASSUME NEW c \in City, NEW d \in City
  PROVE  d \in Graph!Adjacent(c) <=> c \in Graph!Adjacent(d)
BY DEF Graph!Adjacent

LEMMA RemainingFinite == ASSUME IsFiniteSet(City) PROVE IsFiniteSet(Remaining)
BY FS_Subset DEF Remaining

\* An order of a finite set lists all of it.
LEMMA OrderLists ==
  ASSUME NEW S, IsFiniteSet(S), NEW order \in SetToSeqs(S)
  PROVE  /\ order \in Seq(S)
         /\ Len(order) = Cardinality(S)
         /\ \A x \in S : \E i \in 1..Len(order) : order[i] = x
<1> DEFINE n == Cardinality(S)
<1>1. n \in Nat
  BY FS_CardinalityType
<1>2. order \in [1..n -> S] /\ \A i, j \in 1..n : i # j => order[i] # order[j]
  BY DEF SetToSeqs
<1>3. order \in Seq(S) /\ Len(order) = n
  BY <1>1, <1>2
<1>4. order \in Injection(1..n, S)
  BY <1>2 DEF Injection, IsInjective
<1>5. Cardinality(1..n) = n
  BY <1>1, FS_Interval
<1>6. order \in Surjection(1..n, S)
  BY <1>4, <1>5, FS_Injection
<1>7. QED
  BY <1>3, <1>6 DEF Surjection

\* What one turn of the loop does to the stack.
LEMMA StackAfter ==
  ASSUME IsFiniteSet(City), SearchTypeOK, queue # <<>>, NEW order \in SetToSeqs(New(Last(queue))),
         queue' = Front(queue) \o order
  PROVE  LET S == New(Last(queue))
         IN  /\ IsFiniteSet(S)
             /\ Last(queue) \in visited
             /\ queue' \in Seq(visited \cup S)
             /\ Len(queue') = Len(queue) - 1 + Cardinality(S)
             /\ \A i \in 1..(Len(queue) - 1) : i \in 1..Len(queue') /\ queue'[i] = queue[i]
             /\ \A x \in S : \E i \in 1..Len(queue') : queue'[i] = x
<1> DEFINE S == New(Last(queue))
           m == Len(queue) - 1
<1>1. queue \in Seq(visited) /\ Len(queue) \in Nat \ {0} /\ m \in Nat
  BY DEF SearchTypeOK
<1>2. Last(queue) \in visited
  BY <1>1 DEF Last
<1>3. IsFiniteSet(S)
  BY RemainingFinite, FS_Subset DEF New
<1>4. /\ Front(queue) \in Seq(visited)
      /\ Len(Front(queue)) = m
      /\ \A i \in 1..m : Front(queue)[i] = queue[i]
  <2>1. \A i \in 1..m : queue[i] \in visited
    BY <1>1
  <2>2. /\ SubSeq(queue, 1, m) \in Seq(visited)
        /\ Len(SubSeq(queue, 1, m)) = IF 1 <= m THEN m - 1 + 1 ELSE 0
        /\ \A i \in 1..(m - 1 + 1) : SubSeq(queue, 1, m)[i] = queue[1 + i - 1]
    BY <1>1, <2>1, SubSeqProperties
  <2>3. Front(queue) = SubSeq(queue, 1, m)
    BY DEF Front
  <2>4. /\ m - 1 + 1 = m /\ \A i \in 1..m : 1 + i - 1 = i
        /\ (IF 1 <= m THEN m - 1 + 1 ELSE 0) = m
    <3> HIDE DEF m
    <3>1. QED
      BY <1>1
  <2>5. QED
    BY <2>2, <2>3, <2>4
<1>5. /\ order \in Seq(S)
      /\ Len(order) = Cardinality(S)
      /\ \A x \in S : \E i \in 1..Len(order) : order[i] = x
  BY <1>3, OrderLists
<1>6. Front(queue) \in Seq(visited \cup S) /\ order \in Seq(visited \cup S)
  BY <1>4, <1>5
<1>7. queue' \in Seq(visited \cup S) /\ Len(queue') = m + Len(order)
  BY <1>4, <1>6, ConcatProperties
<1>8. \A i \in 1..(m + Len(order)) :
        queue'[i] = IF i <= m THEN Front(queue)[i] ELSE order[i - m]
  BY <1>4, <1>6, ConcatProperties
<1>9. \A i \in 1..m : i \in 1..Len(queue') /\ queue'[i] = queue[i]
  BY <1>1, <1>4, <1>5, <1>7, <1>8
<1>10. ASSUME NEW x \in S PROVE \E i \in 1..Len(queue') : queue'[i] = x
  <2>1. PICK j \in 1..Len(order) : order[j] = x
    BY <1>5
  <2>2. m + j \in 1..(m + Len(order)) /\ ~(m + j <= m) /\ m + j - m = j
    BY <1>1, <1>5
  <2>3. m + j \in 1..Len(queue') /\ queue'[m + j] = x
    BY <1>7, <1>8, <2>1, <2>2
  <2>4. QED
    BY <2>3
<1>11. QED
  BY <1>2, <1>3, <1>5, <1>7, <1>9, <1>10

LEMMA SearchStarts == SearchInit => SearchInv
<1> SUFFICES ASSUME SearchInit PROVE SearchInv
  OBVIOUS
<1>1. PICK start \in Remaining : visited = {start} /\ queue = <<start>>
  BY DEF SearchInit
<1>2. SearchTypeOK
  BY <1>1 DEF SearchTypeOK, SearchInit
<1>3. \A c \in visited : Queued(c)
  BY <1>1 DEF Queued
<1>4. \A part \in SUBSET Remaining : visited \cap part = {} \/ visited \subseteq part
  BY <1>1
<1>5. QED
  BY <1>1, <1>2, <1>3, <1>4 DEF SearchInv

LEMMA SearchSteps ==
  ASSUME IsFiniteSet(City), SearchInv, [Expand]_searchVars PROVE SearchInv'
<1>1. CASE Expand
  <2> DEFINE c == Last(queue)
             S == New(c)
  <2>1. /\ queue # <<>> /\ visited' = visited \cup S
        /\ edges' = edges /\ gone' = gone /\ leaving' = leaving
    BY <1>1 DEF Expand, map
  <2>2. PICK order \in SetToSeqs(S) : queue' = Front(queue) \o order
    BY <1>1 DEF Expand
  <2>3. SearchTypeOK
    BY DEF SearchInv
  <2>4. /\ c \in visited
        /\ queue' \in Seq(visited \cup S)
        /\ \A i \in 1..(Len(queue) - 1) : i \in 1..Len(queue') /\ queue'[i] = queue[i]
        /\ \A x \in S : \E i \in 1..Len(queue') : queue'[i] = x
    BY <2>1, <2>2, <2>3, StackAfter
  <2>5. Remaining' = Remaining /\ \A d : (Graph!Adjacent(d))' = Graph!Adjacent(d)
    BY <2>1 DEF Remaining, Graph!Adjacent
  <2>6. SearchTypeOK'
    BY <2>1, <2>3, <2>4, <2>5 DEF SearchTypeOK, New
  <2>7. visited' # {}
    BY <2>1 DEF SearchInv
  <2>8. ASSUME NEW d \in visited', ~Queued(d)' PROVE (New(d))' = {}
    <3>1. d \notin S
      BY <2>4, <2>8 DEF Queued
    <3>2. d \in visited
      BY <2>1, <2>8, <3>1
    <3>3. CASE d = c
      BY <2>1, <2>5, <3>3 DEF New
    <3>4. CASE d # c
      <4>1. ~Queued(d)
        <5> SUFFICES ASSUME NEW i \in 1..Len(queue), queue[i] = d PROVE FALSE
          BY DEF Queued
        <5>1. Len(queue) \in Nat /\ i # Len(queue)
          BY <2>3, <3>4 DEF SearchTypeOK, Last
        <5>2. i \in 1..(Len(queue) - 1)
          BY <5>1
        <5>3. QED
          BY <2>4, <2>8, <5>2 DEF Queued
      <4>2. New(d) = {}
        BY <3>2, <4>1 DEF SearchInv
      <4>3. QED
        BY <2>1, <2>5, <4>2 DEF New
    <3>5. QED
      BY <3>3, <3>4
  <2>9. ASSUME NEW part \in SUBSET Remaining, Sealed(part)
        PROVE  visited' \cap part = {} \/ visited' \subseteq part
    <3>1. CASE visited \cap part = {}
      <4>1. c \in Remaining \ part /\ Remaining \subseteq City
        BY <2>3, <2>4, <3>1 DEF SearchTypeOK, Remaining
      <4>2. S \cap part = {}
        BY <2>9, <4>1, BothWays DEF Sealed, New
      <4>3. QED
        BY <2>1, <3>1, <4>2
    <3>2. CASE visited \subseteq part
      <4>1. S \subseteq part
        BY <2>4, <2>9, <3>2 DEF Sealed, New
      <4>2. QED
        BY <2>1, <3>2, <4>1
    <3>3. QED
      BY <2>9, <3>1, <3>2 DEF SearchInv
  <2>10. \A part : Sealed(part)' <=> Sealed(part)
    BY <2>5 DEF Sealed
  <2>11. \A d \in visited' : (Queued(d))' \/ (New(d))' = {}
    BY <2>8
  <2>12. \A part \in SUBSET Remaining' :
           Sealed(part)' => visited' \cap part = {} \/ visited' \subseteq part
    BY <2>5, <2>9, <2>10
  <2>13. QED
    BY <2>6, <2>7, <2>11, <2>12 DEF SearchInv
<1>2. CASE UNCHANGED searchVars
  BY <1>2 DEF SearchInv, SearchTypeOK, searchVars, map, Remaining, Queued, New, Sealed,
              Graph!Adjacent
<1>3. QED
  BY <1>1, <1>2

LEMMA SearchInvAlways == ASSUME IsFiniteSet(City) PROVE SearchSpec => []SearchInv
<1>1. SearchInv /\ [Expand]_searchVars => SearchInv'
  BY SearchSteps
<1>2. QED
  BY <1>1, SearchStarts, PTL DEF SearchSpec

\* When nothing is left to expand, all remaining cities have been seen exactly when
\* they cannot be parted: what would_graph_stay_connected returns is what its name
\* says, on every map (GameState.cpp:766-790).
THEOREM AlwaysRightAnswer ==
  ASSUME IsFiniteSet(City) PROVE SearchSpec => []RightAnswer
<1>1. SearchInv => RightAnswer
  <2> SUFFICES ASSUME SearchInv, Ended PROVE Connects <=> Graph!Uncut(Remaining)
    BY DEF RightAnswer
  <2>1. visited \in SUBSET Remaining /\ visited # {} /\ queue = <<>>
    BY DEF SearchInv, SearchTypeOK, Ended
  <2>2. Connects <=> visited = Remaining
    BY <2>1, RemainingFinite, FS_Subset DEF Connects
  <2>3. ASSUME visited = Remaining PROVE Graph!Uncut(Remaining)
    <3> SUFFICES ASSUME NEW part \in (SUBSET Remaining) \ {{}, Remaining}, Sealed(part)
                 PROVE  FALSE
      BY DEF Graph!Uncut, Sealed
    <3>1. QED
      BY <2>3 DEF SearchInv
  <2>4. ASSUME Graph!Uncut(Remaining) PROVE visited = Remaining
    <3> SUFFICES ASSUME visited # Remaining PROVE FALSE
      OBVIOUS
    <3>1. PICK c \in visited, d \in Remaining \ visited : d \in Graph!Adjacent(c)
      BY <2>1, <2>4 DEF Graph!Uncut
    <3>2. d \in New(c)
      BY <3>1 DEF New
    <3>3. ~Queued(c)
      BY <2>1 DEF Queued
    <3>4. QED
      BY <3>1, <3>2, <3>3 DEF SearchInv
  <2>5. QED
    BY <2>2, <2>3, <2>4
<1>2. QED
  BY <1>1, SearchInvAlways, PTL

\* Every turn of the loop makes the rest of its work smaller, on every map: a city is
\* pushed when it is first seen and never again (GameState.cpp:781-785).
THEOREM SearchAlwaysAdvances ==
  ASSUME IsFiniteSet(City) PROVE SearchSpec => SearchAdvances
<1>1. SearchInv /\ [Expand]_searchVars => [ToDo' < ToDo]_searchVars
  <2> SUFFICES ASSUME SearchInv, Expand PROVE ToDo' < ToDo
    OBVIOUS
  <2> DEFINE S == New(Last(queue))
             unseen == Remaining \ visited
  <2>1. /\ queue # <<>> /\ visited' = visited \cup S
        /\ gone' = gone /\ leaving' = leaving
    BY DEF Expand, map
  <2>2. PICK order \in SetToSeqs(S) : queue' = Front(queue) \o order
    BY DEF Expand
  <2>3. SearchTypeOK
    BY DEF SearchInv
  <2>4. IsFiniteSet(S) /\ Len(queue') = Len(queue) - 1 + Cardinality(S)
    BY <2>1, <2>2, <2>3, StackAfter
  <2>5. IsFiniteSet(unseen) /\ S \subseteq unseen
    BY RemainingFinite, FS_Subset DEF New
  <2>6. (Remaining \ visited)' = unseen \ S
    BY <2>1 DEF Remaining
  <2>7. Cardinality(unseen \ S) = Cardinality(unseen) - Cardinality(S)
    <3>1. unseen \cap S = S
      BY <2>5
    <3>2. Cardinality(unseen \ S) = Cardinality(unseen) - Cardinality(unseen \cap S)
      BY <2>5, FS_Difference
    <3>3. QED
      BY <3>1, <3>2
  <2>8. /\ Cardinality(S) \in Nat /\ Cardinality(unseen) \in Nat
        /\ Len(queue) \in Nat
    BY <2>3, <2>4, <2>5, FS_CardinalityType DEF SearchTypeOK
  <2>9. /\ ToDo = 2 * Cardinality(unseen) + Len(queue)
        /\ ToDo' = 2 * Cardinality(unseen \ S) + Len(queue')
    BY <2>6 DEF ToDo
  <2>10. QED
    BY <2>4, <2>7, <2>8, <2>9
<1>2. QED
  BY <1>1, SearchInvAlways, PTL DEF SearchAdvances, SearchSpec

-----------------------------------------------------------------------------
(* The loop and the search of the models.  What CityGraphProofs shows of   *)
(* the map of a game holds of every map this search may be run on.         *)

\* What CityGraph assumes of a map, for all maps over Roads.
MapsAssumption ==
  /\ IsFiniteSet(City)
  /\ None \notin City
  /\ Roads \subseteq City \X City
  /\ X \in [City -> Int]
  /\ Y \in [City -> Int]

Facts == INSTANCE CityGraphProofs WITH Edges <- edges

LEMMA FactsApply == ASSUME MapsAssumption, SearchTypeOK PROVE Facts!MapAssumption
<1>1. \A W : Facts!IsFiniteSet(W) <=> IsFiniteSet(W)
  BY DEF Facts!IsFiniteSet, IsFiniteSet
<1>2. QED
  BY <1>1 DEF MapsAssumption, SearchTypeOK, Facts!MapAssumption

\* Both instances of CityGraph say the same.
LEMMA SameGraph ==
  /\ \A W : Facts!IsFiniteSet(W) <=> IsFiniteSet(W)
  /\ \A W : Facts!Uncut(W) <=> Graph!Uncut(W)
  /\ \A W : Facts!Connected(W) <=> Graph!Connected(W)
  /\ \A S : Facts!Disappearable(S) = Graph!Disappearable(S)
<1>1. \A W : Facts!IsFiniteSet(W) <=> IsFiniteSet(W)
  BY DEF Facts!IsFiniteSet, IsFiniteSet
<1>2. \A W : Facts!Cardinality(W) = Graph!Cardinality(W)
  BY DEF Facts!Cardinality, Graph!Cardinality, Facts!IsFiniteSet, Graph!IsFiniteSet
<1>3. \A c : Facts!Adjacent(c) = Graph!Adjacent(c)
  BY DEF Facts!Adjacent, Graph!Adjacent
<1>4. \A W : Facts!Uncut(W) <=> Graph!Uncut(W)
  BY <1>3 DEF Facts!Uncut, Graph!Uncut
<1>5. \A s, W : Facts!Visited(s, W) = Graph!Visited(s, W)
  BY <1>2, <1>3 DEF Facts!Visited, Graph!Visited
<1>6. \A W : Facts!Connected(W) <=> Graph!Connected(W)
  BY <1>5 DEF Facts!Connected, Graph!Connected
<1>7. \A S, c : Facts!StaysConnected(S, c) <=> Graph!StaysConnected(S, c)
  BY <1>6 DEF Facts!StaysConnected, Graph!StaysConnected
<1>8. \A S : Facts!Peripheral(S) = Graph!Peripheral(S)
  BY DEF Facts!Peripheral, Graph!Peripheral
<1>9. \A S : Facts!Disappearable(S) = Graph!Disappearable(S)
  BY <1>7, <1>8 DEF Facts!Disappearable, Graph!Disappearable
<1>10. QED
  BY <1>1, <1>4, <1>6, <1>9

\* The loop answers what CityGraph computes in one expression, and with it the models
\* of the game (GameState.cpp:766-790 and CityGraph!StaysConnected).
THEOREM AlwaysAnswersAsModelled ==
  ASSUME MapsAssumption PROVE SearchSpec => []AnswersAsModelled
<1>1. SearchInv /\ RightAnswer => AnswersAsModelled
  <2> SUFFICES ASSUME SearchInv, RightAnswer, Ended
               PROVE  Connects <=> Graph!StaysConnected(gone, leaving)
    BY DEF AnswersAsModelled
  <2>1. SearchTypeOK /\ IsFiniteSet(City)
    BY DEF SearchInv, MapsAssumption
  <2>2. IsFiniteSet(Remaining) /\ Remaining \in SUBSET City
    BY <2>1, RemainingFinite DEF Remaining
  <2>3. \A W \in SUBSET City :
          Facts!IsFiniteSet(W) => (Facts!Connected(W) <=> Facts!Uncut(W))
    BY <2>1, FactsApply, Facts!ConnectedIsUncut
  <2>4. Graph!Connected(Remaining) <=> Graph!Uncut(Remaining)
    BY <2>2, <2>3, SameGraph
  <2>5. QED
    BY <2>4 DEF RightAnswer, Graph!StaysConnected, Remaining
<1>2. IsFiniteSet(City)
  BY DEF MapsAssumption
<1>3. QED
  BY <1>1, <1>2, SearchInvAlways, AlwaysRightAnswer, PTL

\* On every map that is connected there is a city it can lose, whatever its outer
\* zone: GameState.cpp:864 is right to say the other case should not happen.
THEOREM AlwaysSomethingToLose ==
  ASSUME MapsAssumption PROVE SearchSpec => []SomethingToLose
<1>1. SearchInv => SomethingToLose
  <2> SUFFICES ASSUME SearchInv, Graph!Connected(City \ gone)
               PROVE  Graph!Disappearable(gone) # {}
    BY DEF SomethingToLose
  <2>1. SearchTypeOK /\ IsFiniteSet(City)
    BY DEF SearchInv, MapsAssumption
  <2>2. gone \in SUBSET City /\ gone # City
    BY <2>1 DEF SearchTypeOK
  <2>3. \A S \in SUBSET City :
          Facts!IsFiniteSet(City) /\ S # City /\ Facts!Connected(City \ S)
            => Facts!Disappearable(S) # {}
    BY <2>1, FactsApply, Facts!AlwaysOneToLose
  <2>4. QED
    BY <2>1, <2>2, <2>3, SameGraph
<1>2. IsFiniteSet(City)
  BY DEF MapsAssumption
<1>3. QED
  BY <1>1, <1>2, SearchInvAlways, PTL
=============================================================================
