-------------------------- MODULE CityGraphProofs --------------------------
(***************************************************************************)
(* Proofs about CityGraph: what the search for connectedness answers, on   *)
(* every map, and that a connected map always has a city it can lose.      *)
(*                                                                         *)
(* Both are inductions.  The induction theorems of the library take the    *)
(* statement as a parameter; here the same is said of sets: a set of       *)
(* subsets of a finite set has a smallest and a largest member.            *)
(***************************************************************************)
EXTENDS CityGraph, FiniteSetTheorems, WellFoundedInduction, TLAPS

LEMMA SmallestSet ==
  ASSUME NEW S, IsFiniteSet(S), NEW F \in SUBSET (SUBSET S), F # {}
  PROVE  \E A \in F : \A B \in F : B \subseteq A => B = A
<1> DEFINE R == StrictSubsetOrdering(S)
<1>1. IsWellFoundedOn(R, SUBSET S)
  BY FS_StrictSubsetOrderingWellFounded, FS_FiniteSubsetsOfFinite
<1> HIDE DEF R
<1>2. PICK A \in F : \A B \in F : ~ (<<B, A>> \in R)
  BY <1>1, WFMin
<1>3. ASSUME NEW B \in F, B \subseteq A PROVE B = A
  BY <1>2, <1>3 DEF R, StrictSubsetOrdering
<1>4. QED
  BY <1>3

LEMMA LargestSet ==
  ASSUME NEW S, IsFiniteSet(S), NEW F \in SUBSET (SUBSET S), F # {}
  PROVE  \E A \in F : \A B \in F : A \subseteq B => B = A
<1> DEFINE G == {S \ A : A \in F}
<1>1. /\ \A A \in F : S \ A \in G
      /\ \A C \in G : \E A \in F : C = S \ A
  OBVIOUS
<1>2. /\ G \in SUBSET (SUBSET S)
      /\ G # {}
  <2>1. G \in SUBSET (SUBSET S)
    OBVIOUS
  <2>2. G # {}
    BY <1>1
  <2>3. QED
    BY <2>1, <2>2
<1> HIDE DEF G
<1>3. PICK C \in G : \A B \in G : B \subseteq C => B = C
  BY <1>2, SmallestSet
<1>4. PICK A \in F : C = S \ A
  BY <1>1, <1>3
<1>5. ASSUME NEW B \in F, A \subseteq B PROVE B = A
  <2>1. S \ B \in G /\ S \ B \subseteq C
    BY <1>1, <1>4, <1>5
  <2>2. S \ B = S \ A
    BY <1>3, <1>4, <2>1
  <2>3. QED
    BY <2>2
<1>6. QED
  BY <1>5

LEMMA LeastNat ==
  ASSUME NEW T, T \subseteq Nat, T # {}
  PROVE  \E m \in T : \A k \in T : m <= k
<1>1. PICK x \in T : TRUE
  OBVIOUS
<1> DEFINE F == {0..k : k \in {j \in T : j <= x}}
<1> DEFINE I == 0..x
<1>2. /\ \A k \in T : k <= x => 0..k \in F
      /\ \A A \in F : \E k \in T : k <= x /\ A = 0..k
  OBVIOUS
<1>3. F \in SUBSET (SUBSET I)
  OBVIOUS
<1>4. F # {}
  BY <1>2
<1>5. IsFiniteSet(I)
  BY FS_Interval
<1> HIDE DEF F, I
<1>6. PICK A \in F : \A B \in F : B \subseteq A => B = A
  BY <1>3, <1>4, <1>5, SmallestSet
<1>7. PICK m \in T : m <= x /\ A = 0..m
  BY <1>2, <1>6
<1>8. ASSUME NEW k \in T, k < m PROVE FALSE
  <2>1. 0..k \in F /\ 0..k \subseteq 0..m
    BY <1>2, <1>7, <1>8
  <2>2. m \in 0..m /\ m \notin 0..k
    BY <1>8
  <2>3. QED
    BY <1>6, <1>7, <2>1, <2>2
<1>9. QED
  BY <1>8

LEMMA CountUp ==
  ASSUME NEW S, 0 \in S, \A n \in Nat : n \in S => n + 1 \in S
  PROVE  \A n \in Nat : n \in S
<1> SUFFICES ASSUME Nat \ S # {} PROVE FALSE
  OBVIOUS
<1>1. PICK m \in Nat \ S : \A k \in Nat \ S : m <= k
  BY LeastNat
<1>2. m # 0 /\ m - 1 \in Nat
  BY <1>1
<1>3. m - 1 \in S
  BY <1>1, <1>2
<1>4. QED
  BY <1>1, <1>2, <1>3

-----------------------------------------------------------------------------
(* What can be parted.                                                     *)

LEMMA BothWays ==
  ASSUME NEW c \in City, NEW d \in City
  PROVE  d \in Adjacent(c) <=> c \in Adjacent(d)
BY DEF Adjacent

\* A part of W that no edge leaves.
Sealed(part, W) == \A c \in part, d \in W \ part : d \notin Adjacent(c)

LEMMA SealedBothWays ==
  ASSUME NEW W \in SUBSET City, NEW part \in SUBSET W, Sealed(part, W)
  PROVE  Sealed(W \ part, W)
BY BothWays DEF Sealed

\* A neighbour can be added to what cannot be parted.
LEMMA UncutGrows ==
  ASSUME NEW A \in SUBSET City, NEW a \in A, NEW d \in City, d \in Adjacent(a), Uncut(A)
  PROVE  Uncut(A \cup {d})
<1> DEFINE W == A \cup {d}
<1> SUFFICES ASSUME NEW part \in (SUBSET W) \ {{}, W}, Sealed(part, W) PROVE FALSE
  BY DEF Uncut, Sealed
<1>1. Sealed(W \ part, W)
  BY SealedBothWays
<1>2. CASE part \cap A \in {{}, A}
  <2>1. \/ a \in part /\ d \in W \ part
        \/ d \in part /\ a \in W \ part
    BY <1>2
  <2>2. QED
    BY <2>1, BothWays DEF Sealed
<1>3. CASE part \cap A \notin {{}, A}
  <2>1. part \cap A \in (SUBSET A) \ {{}, A}
    BY <1>3
  <2>2. PICK c \in part \cap A, e \in A \ (part \cap A) : e \in Adjacent(c)
    BY <2>1 DEF Uncut
  <2>3. QED
    BY <2>2 DEF Sealed
<1>4. QED
  BY <1>2, <1>3

\* A map that cannot be parted has a city it can lose: the one that a largest part
\* that cannot be parted either leaves out.
LEMMA SomethingSafe ==
  ASSUME NEW W \in SUBSET City, IsFiniteSet(W), W # {}, Uncut(W)
  PROVE  \E d \in W : Uncut(W \ {d})
<1> DEFINE F == {A \in SUBSET W : A # {} /\ A # W /\ Uncut(A)}
<1>1. PICK x \in W : TRUE
  OBVIOUS
<1>2. CASE W = {x}
  BY <1>2 DEF Uncut
<1>3. CASE W # {x}
  <2>1. {x} \in F
    BY <1>1, <1>3 DEF Uncut
  <2>2. /\ F \in SUBSET (SUBSET W) /\ F # {}
        /\ \A A \in F : A \in (SUBSET W) \ {{}, W} /\ Uncut(A)
        /\ \A A \in (SUBSET W) \ {{}, W} : Uncut(A) => A \in F
    BY <2>1
  <2> HIDE DEF F
  <2>3. PICK A \in F : \A B \in F : A \subseteq B => B = A
    BY <2>2, LargestSet
  <2>4. PICK a \in A, d \in W \ A : d \in Adjacent(a)
    BY <2>2 DEF Uncut
  <2>5. Uncut(A \cup {d})
    BY <2>2, <2>4, UncutGrows
  <2>6. A \cup {d} = W
    BY <2>2, <2>3, <2>4, <2>5
  <2>7. W \ {d} = A
    BY <2>2, <2>4, <2>6
  <2>8. QED
    BY <2>2, <2>4, <2>7
<1>4. QED
  BY <1>2, <1>3

-----------------------------------------------------------------------------
(* What the search visits.                                                 *)

\* The first n + 1 results of applying G again and again, from s on.
Iterates(g, n, s, G) ==
  g[0] = s /\ \A k \in Nat : k < n => g[k + 1] = G[g[k]]

\* All of them.
Follows(f, G) == \A n \in Nat : f[n + 1] = G[f[n]]

\* A function on the naturals can be defined by recursion.
LEMMA Recursion ==
  ASSUME NEW D, NEW G \in [D -> D], NEW s \in D
  PROVE  \E f \in [Nat -> D] : f[0] = s /\ Follows(f, G)
<1> DEFINE Finite(n) == {g \in [0..n -> D] : Iterates(g, n, s, G)}
<1> DEFINE Reached == {n \in Nat : Finite(n) # {}}
<1>1. 0 \in Reached
  <2>1. [k \in 0..0 |-> s] \in Finite(0)
    BY DEF Iterates
  <2>2. QED
    BY <2>1
<1>2. ASSUME NEW n \in Nat, n \in Reached PROVE n + 1 \in Reached
  <2>1. PICK g \in [0..n -> D] : Iterates(g, n, s, G)
    BY <1>2
  <2> DEFINE h == [k \in 0..(n + 1) |-> IF k = n + 1 THEN G[g[n]] ELSE g[k]]
  <2>2. h \in [0..(n + 1) -> D]
    BY <2>1
  <2>3. h[0] = s
    BY <2>1 DEF Iterates
  <2>4. ASSUME NEW k \in Nat, k < n + 1 PROVE h[k + 1] = G[h[k]]
    BY <2>1, <2>4 DEF Iterates
  <2>5. h \in Finite(n + 1)
    BY <2>2, <2>3, <2>4 DEF Iterates
  <2>6. QED
    BY <2>5
<1>3. \A n \in Nat : Finite(n) # {}
  <2> HIDE DEF Reached
  <2>1. \A n \in Nat : n \in Reached
    BY <1>1, <1>2, CountUp
  <2>2. QED
    BY <2>1 DEF Reached
<1> DEFINE Agreed == {k \in Nat : \A m, n \in Nat : k <= m /\ k <= n =>
                        \A g \in Finite(m), h \in Finite(n) : g[k] = h[k]}
<1>4. 0 \in Agreed
  BY DEF Iterates
<1>5. ASSUME NEW k \in Nat, k \in Agreed PROVE k + 1 \in Agreed
  <2> SUFFICES ASSUME NEW m \in Nat, NEW n \in Nat, k + 1 <= m, k + 1 <= n,
                      NEW g \in Finite(m), NEW h \in Finite(n)
               PROVE  g[k + 1] = h[k + 1]
    OBVIOUS
  <2>1. g[k] = h[k]
    BY <1>5
  <2>2. g[k + 1] = G[g[k]] /\ h[k + 1] = G[h[k]]
    BY DEF Iterates
  <2>3. QED
    BY <2>1, <2>2
<1>6. \A k \in Nat : k \in Agreed
  <2> HIDE DEF Agreed
  <2>1. QED
    BY <1>4, <1>5, CountUp
<1> DEFINE A(n) == CHOOSE g : g \in Finite(n)
<1>7. \A n \in Nat : A(n) \in Finite(n)
  BY <1>3
<1> DEFINE f == [n \in Nat |-> A(n)[n]]
<1> HIDE DEF A
<1>8. f \in [Nat -> D]
  BY <1>7
<1>9. f[0] = s
  BY <1>7 DEF Iterates
<1>10. ASSUME NEW n \in Nat PROVE f[n + 1] = G[f[n]]
  <2>1. A(n) \in Finite(n) /\ A(n + 1) \in Finite(n + 1)
    BY <1>7
  <2>2. A(n + 1)[n] = A(n)[n]
    BY <1>6, <2>1
  <2>3. A(n + 1)[n + 1] = G[A(n + 1)[n]]
    BY <2>1 DEF Iterates
  <2>4. QED
    BY <2>2, <2>3
<1>11. QED
  BY <1>8, <1>9, <1>10 DEF Follows

\* One more layer of the search.
Layer(S, W) == S \cup {d \in W : \E c \in S : d \in Adjacent(c)}

\* The layers that Visited chooses are those of the recursion it is written with.
LEMMA VisitedInLayers ==
  ASSUME NEW W \in SUBSET City, NEW start \in W
  PROVE  \E f \in [Nat -> SUBSET W] :
           /\ f[0] = {start}
           /\ \A n \in Nat : f[n + 1] = Layer(f[n], W)
           /\ Visited(start, W) = f[Cardinality(W)]
<1> DEFINE Rec(g) == g = [n \in Nat |->
             IF n = 0 THEN {start}
             ELSE LET inner == g[n - 1]
                  IN  inner \cup {d \in W : \E c \in inner : d \in Adjacent(c)}]
<1> DEFINE G == [S \in SUBSET W |-> Layer(S, W)]
<1>1. G \in [SUBSET W -> SUBSET W] /\ {start} \in SUBSET W
  BY DEF Layer
<1>2. \E g \in [Nat -> SUBSET W] : g[0] = {start} /\ Follows(g, G)
  <2> HIDE DEF G
  <2>1. QED
    BY <1>1, Recursion
<1>3. PICK g \in [Nat -> SUBSET W] : g[0] = {start} /\ \A n \in Nat : g[n + 1] = G[g[n]]
  BY <1>2 DEF Follows
<1>4. Rec(g)
  <2>1. ASSUME NEW n \in Nat
        PROVE  g[n] = IF n = 0 THEN {start} ELSE Layer(g[n - 1], W)
    <3>1. CASE n = 0
      BY <1>3, <3>1
    <3>2. CASE n # 0
      <4>1. n - 1 \in Nat /\ (n - 1) + 1 = n
        BY <3>2
      <4>2. g[n] = G[g[n - 1]] /\ g[n - 1] \in SUBSET W
        BY <1>3, <4>1
      <4>3. QED
        BY <3>2, <4>2
    <3>3. QED
      BY <3>1, <3>2
  <2>2. QED
    BY <2>1 DEF Layer
<1> DEFINE f == CHOOSE h : Rec(h)
<1>5. Rec(f)
  BY <1>4
<1>6. Visited(start, W) = f[Cardinality(W)]
  BY DEF Visited
<1> HIDE DEF f
<1>7. f = [n \in Nat |-> IF n = 0 THEN {start} ELSE Layer(f[n - 1], W)]
  BY <1>5 DEF Layer
<1>8. f[0] = {start}
  BY <1>7
<1>9. ASSUME NEW n \in Nat PROVE f[n + 1] = Layer(f[n], W)
  <2>1. n + 1 \in Nat /\ n + 1 # 0 /\ (n + 1) - 1 = n
    OBVIOUS
  <2>2. QED
    BY <1>7, <2>1
<1>10. f \in [Nat -> SUBSET W]
  <2> DEFINE Within == {n \in Nat : f[n] \in SUBSET W}
  <2>1. 0 \in Within
    BY <1>8
  <2>2. \A n \in Nat : n \in Within => n + 1 \in Within
    BY <1>9 DEF Layer
  <2>3. \A n \in Nat : n \in Within
    <3> HIDE DEF Within
    <3>1. QED
      BY <2>1, <2>2, CountUp
  <2>4. QED
    BY <1>7, <2>3
<1>11. QED
  BY <1>6, <1>8, <1>9, <1>10

\* The search stops at a part that no edge leaves, and no earlier than that.
LEMMA VisitedSealed ==
  ASSUME NEW W \in SUBSET City, IsFiniteSet(W), NEW start \in W
  PROVE  LET V == Visited(start, W)
         IN  /\ start \in V /\ V \subseteq W
             /\ Sealed(V, W)
             /\ \A part \in SUBSET W : start \in part /\ Sealed(part, W) => V \subseteq part
<1>1. PICK f \in [Nat -> SUBSET W] :
        /\ f[0] = {start}
        /\ \A n \in Nat : f[n + 1] = Layer(f[n], W)
        /\ Visited(start, W) = f[Cardinality(W)]
  BY VisitedInLayers
<1>2. ASSUME NEW part \in SUBSET W, start \in part, Sealed(part, W), NEW n \in Nat
      PROVE  f[n] \subseteq part
  <2> DEFINE In == {k \in Nat : f[k] \subseteq part}
  <2>1. 0 \in In
    BY <1>1, <1>2
  <2>2. \A k \in Nat : k \in In => k + 1 \in In
    BY <1>1, <1>2 DEF Layer, Sealed
  <2>3. \A k \in Nat : k \in In
    <3> HIDE DEF In
    <3>1. QED
      BY <2>1, <2>2, CountUp
  <2>4. QED
    BY <2>3
<1>3. ASSUME NEW n \in Nat PROVE start \in f[n]
  <2> DEFINE In == {k \in Nat : start \in f[k]}
  <2>1. 0 \in In
    BY <1>1
  <2>2. \A k \in Nat : k \in In => k + 1 \in In
    BY <1>1 DEF Layer
  <2>3. \A k \in Nat : k \in In
    <3> HIDE DEF In
    <3>1. QED
      BY <2>1, <2>2, CountUp
  <2>4. QED
    BY <2>3
<1>4. \A n \in Nat : IsFiniteSet(f[n]) /\ Cardinality(f[n]) \in Nat
                     /\ Cardinality(f[n]) <= Cardinality(W)
  BY <1>1, FS_Subset, FS_CardinalityType
<1>5. ASSUME NEW n \in Nat PROVE Sealed(f[n], W) \/ Cardinality(f[n]) >= n + 1
  <2> DEFINE In == {k \in Nat : Sealed(f[k], W) \/ Cardinality(f[k]) >= k + 1}
  <2>1. 0 \in In
    BY <1>1, FS_Singleton
  <2>2. ASSUME NEW k \in Nat, k \in In PROVE k + 1 \in In
    <3>1. CASE Sealed(f[k], W)
      <4>1. f[k + 1] = f[k]
        BY <1>1, <3>1 DEF Layer, Sealed
      <4>2. QED
        BY <3>1, <4>1
    <3>2. CASE ~ Sealed(f[k], W)
      <4>1. Cardinality(f[k]) >= k + 1
        BY <2>2, <3>2
      <4>2. f[k] \subseteq f[k + 1] /\ f[k] # f[k + 1]
        BY <1>1, <3>2 DEF Layer, Sealed
      <4>3. Cardinality(f[k]) < Cardinality(f[k + 1])
        BY <1>4, <4>2, FS_Subset
      <4>4. QED
        BY <1>4, <4>1, <4>3
    <3>3. QED
      BY <3>1, <3>2
  <2>3. \A k \in Nat : k \in In
    <3> HIDE DEF In
    <3>1. QED
      BY <2>1, <2>2, CountUp
  <2>4. QED
    BY <2>3
<1>6. Cardinality(W) \in Nat
  BY FS_CardinalityType
<1>7. Sealed(f[Cardinality(W)], W)
  BY <1>4, <1>5, <1>6
<1>8. QED
  BY <1>1, <1>2, <1>3, <1>6, <1>7

\* On every map the search answers what it is asked: whether the cities it may
\* visit cannot be parted.
THEOREM ConnectedIsUncut ==
  ASSUME NEW W \in SUBSET City, IsFiniteSet(W)
  PROVE  Connected(W) <=> Uncut(W)
<1>1. CASE W = {}
  BY <1>1 DEF Connected, Uncut
<1>2. CASE W # {}
  <2> DEFINE start == CHOOSE c \in W : TRUE
  <2>1. start \in W
    BY <1>2
  <2> HIDE DEF start
  <2> DEFINE V == Visited(start, W)
  <2>2. /\ start \in V /\ V \subseteq W
        /\ Sealed(V, W)
        /\ \A part \in SUBSET W : start \in part /\ Sealed(part, W) => V \subseteq part
    BY <2>1, VisitedSealed
  <2>3. Connected(W) <=> V = W
    BY <1>2 DEF Connected, start
  <2> HIDE DEF V
  <2>4. ASSUME V # W PROVE ~ Uncut(W)
    BY <2>2, <2>4 DEF Uncut, Sealed
  <2>5. ASSUME V = W PROVE Uncut(W)
    <3> SUFFICES ASSUME NEW part \in (SUBSET W) \ {{}, W}, Sealed(part, W) PROVE FALSE
      BY DEF Uncut, Sealed
    <3>1. Sealed(W \ part, W)
      BY SealedBothWays
    <3>2. QED
      BY <2>1, <2>2, <2>5, <3>1
  <2>6. QED
    BY <2>3, <2>4, <2>5
<1>3. QED
  BY <1>1, <1>2

\* On every connected map the choice of the next city to disappear finds one: the
\* code's "shouldn't happen" (GameState.cpp:864) does not.
THEOREM AlwaysOneToLose ==
  ASSUME IsFiniteSet(City), NEW gone \in SUBSET City, gone # City, Connected(City \ gone)
  PROVE  Disappearable(gone) # {}
<1> DEFINE left == City \ gone
<1>1. IsFiniteSet(left) /\ left \in SUBSET City /\ left # {}
  BY FS_Subset
<1>2. Uncut(left)
  BY <1>1, ConnectedIsUncut
<1>3. PICK c \in left : Uncut(left \ {c})
  BY <1>1, <1>2, SomethingSafe
<1>4. City \ (gone \cup {c}) = left \ {c}
  OBVIOUS
<1>5. IsFiniteSet(left \ {c}) /\ left \ {c} \in SUBSET City
  BY <1>1, FS_Subset
<1>6. StaysConnected(gone, c)
  BY <1>3, <1>4, <1>5, ConnectedIsUncut DEF StaysConnected
<1>7. QED
  BY <1>6 DEF Disappearable

\* What the choice may fall on: a city still on the map that the others can do without.
LEMMA OnlyUnneeded ==
  ASSUME NEW gone \in SUBSET City, NEW c \in Disappearable(gone)
  PROVE  c \in City \ gone /\ StaysConnected(gone, c)
BY DEF Disappearable, Peripheral
=============================================================================
