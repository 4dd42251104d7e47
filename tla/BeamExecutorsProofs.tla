------------------------ MODULE BeamExecutorsProofs ------------------------
(***************************************************************************)
(* What holds of the graph searches for every graph, query and epoch: the  *)
(* reference keeps the nearest k, the sorted-vector searches, the fixed    *)
(* and the radix frontier perform the reference, and the stability trace   *)
(* is exact.                                                               *)
(***************************************************************************)
EXTENDS BeamExecutors, FiniteSetTheorems, FunctionTheorems,
        SequenceTheorems, WellFoundedInduction, TLAPS

-----------------------------------------------------------------------------
(* The (distance, id) order.                                               *)

(* An injective image is as large as its domain.                           *)
LEMMA ImageCard ==
  ASSUME NEW S, IsFiniteSet(S), NEW f, \A x, y \in S : f[x] = f[y] => x = y
  PROVE  LET T == {f[x] : x \in S}
         IN IsFiniteSet(T) /\ Cardinality(T) = Cardinality(S)
<1> DEFINE T == {f[x] : x \in S}
           g == [x \in S |-> f[x]]
<1>1. g \in Bijection(S, T)
  BY DEF Bijection, Injection, Surjection, IsInjective
<1>2. ExistsBijection(S, T)
  BY <1>1 DEF ExistsBijection
<1> HIDE DEF T
<1>3. IsFiniteSet(T) /\ Cardinality(T) = Cardinality(S)
  BY <1>2, FS_Bijection
<1> QED
  BY <1>3 DEF T

(* What a query holds: finitely many vertices, natural distances below     *)
(* Infinite, k within the beam.                                            *)
LEMMA NodesAre ==
  ASSUME NEW q, IsQuery(q)
  PROVE  /\ IsFiniteSet(DOMAIN q.dist)
         /\ \A x \in DOMAIN q.dist : x \in Nat /\ q.dist[x] \in Nat /\ q.dist[x] < Infinite
         /\ q.k \in Nat \ {0} /\ q.beam \in Nat /\ q.k <= q.beam
         /\ q.num \in Nat /\ q.den \in Nat \ {0}
<1> DEFINE nodes == DOMAIN q.dist
<1>1. /\ IsFiniteSet(nodes) /\ nodes \subseteq Nat
      /\ q.dist \in [nodes -> 0 .. Infinite - 1]
      /\ q.k \in Nat \ {0} /\ q.beam \in Nat /\ q.k <= q.beam
      /\ q.num \in Nat /\ q.den \in Nat \ {0}
  <2> USE DEF IsQuery
  <2>1. IsFiniteSet(nodes) /\ nodes \subseteq Nat /\ q.k <= q.beam
    OBVIOUS
  <2>2. q.dist \in [nodes -> 0 .. Infinite - 1]
    OBVIOUS
  <2>3. q.k \in Nat \ {0} /\ q.beam \in Nat
    OBVIOUS
  <2>4. q.num \in Nat /\ q.den \in Nat \ {0}
    OBVIOUS
  <2> QED
    BY <2>1, <2>2, <2>3, <2>4
<1>2. \A x \in nodes : q.dist[x] \in 0 .. Infinite - 1
  BY <1>1
<1>3. \A x \in nodes : x \in Nat /\ q.dist[x] \in Nat /\ q.dist[x] < Infinite
  <2>1. Infinite \in Nat
    BY DEF Infinite
  <2>2. nodes \subseteq Nat
    BY <1>1
  <2> HIDE DEF nodes
  <2>3. \A x \in nodes : q.dist[x] \in Nat /\ q.dist[x] < Infinite
    BY <1>2, <2>1
  <2> QED
    BY <2>2, <2>3
<1> QED
  BY <1>1, <1>3

(* The (distance, id) order is strict, total and transitive.               *)
LEMMA LessOrders ==
  ASSUME NEW q, IsQuery(q), NEW x \in DOMAIN q.dist, NEW y \in DOMAIN q.dist
  PROVE  /\ ~Less(q, x, x)
         /\ Less(q, x, y) => ~Less(q, y, x) /\ q.dist[x] <= q.dist[y]
         /\ Less(q, x, y) \/ Less(q, y, x) \/ x = y
         /\ q.dist[x] < q.dist[y] => Less(q, x, y)
         /\ \A z \in DOMAIN q.dist : Less(q, x, y) /\ Less(q, y, z) => Less(q, x, z)
<1>1. \A z \in DOMAIN q.dist : z \in Nat /\ q.dist[z] \in Nat
  BY NodesAre
<1> QED
  BY <1>1 DEF Less

(* What comes before a vertex is finite and has a number.                  *)
LEMMA FiniteBefore ==
  ASSUME NEW q, IsQuery(q), NEW S \in SUBSET DOMAIN q.dist, NEW x
  PROVE  /\ IsFiniteSet(S) /\ Cardinality(S) \in Nat
         /\ IsFiniteSet(Before(q, S, x)) /\ Cardinality(Before(q, S, x)) \in Nat
<1>1. IsFiniteSet(S)
  BY NodesAre, FS_Subset
<1>2. Before(q, S, x) \subseteq S
  BY DEF Before
<1> QED
  BY <1>1, <1>2, FS_Subset, FS_CardinalityType

(* A vertex ranks above all that come before it.                           *)
LEMMA RankRises ==
  ASSUME NEW q, IsQuery(q), NEW S \in SUBSET DOMAIN q.dist,
         NEW x \in S, NEW y \in DOMAIN q.dist, Less(q, x, y)
  PROVE  Cardinality(Before(q, S, x)) + 1 <= Cardinality(Before(q, S, y))
<1> DEFINE A == Before(q, S, x)
           B == Before(q, S, y)
<1>1. IsFiniteSet(A) /\ IsFiniteSet(B) /\ Cardinality(A) \in Nat /\ Cardinality(B) \in Nat
  BY FiniteBefore
<1>2. A \cup {x} \subseteq B /\ x \notin A
  BY LessOrders DEF Before
<1> HIDE DEF A, B
<1>3. Cardinality(A \cup {x}) = Cardinality(A) + 1
  BY <1>1, <1>2, FS_AddElement
<1>4. Cardinality(A \cup {x}) <= Cardinality(B)
  BY <1>1, <1>2, FS_Subset
<1> QED
  BY <1>1, <1>3, <1>4 DEF A, B

(* The ranks in a finite set are 0 .. |S| - 1, each taken once: a strictly *)
(* rising injection into as many numbers.                                  *)
LEMMA Ranks ==
  ASSUME NEW q, IsQuery(q), NEW S \in SUBSET DOMAIN q.dist
  PROVE  /\ {Cardinality(Before(q, S, x)) : x \in S} = 0 .. Cardinality(S) - 1
         /\ \A x, y \in S : Cardinality(Before(q, S, x)) = Cardinality(Before(q, S, y)) =>
              x = y
<1> DEFINE f == [x \in S |-> Cardinality(Before(q, S, x))]
           T == {f[x] : x \in S}
           N == 0 .. Cardinality(S) - 1
<1>1. IsFiniteSet(S) /\ Cardinality(S) \in Nat /\ \A x \in S : f[x] \in Nat
  BY FiniteBefore
<1>2. ASSUME NEW x \in S, NEW y \in S, x # y PROVE f[x] # f[y]
  <2>1. Less(q, x, y) \/ Less(q, y, x)
    BY <1>2, LessOrders
  <2>2. f[x] + 1 <= f[y] \/ f[y] + 1 <= f[x]
    BY <2>1, RankRises
  <2> HIDE DEF f
  <2> QED
    BY <1>1, <2>2
<1>3. ASSUME NEW x \in S PROVE f[x] \in N
  <2>1. Before(q, S, x) \subseteq S \ {x}
    BY LessOrders DEF Before
  <2>2. Cardinality(S \ {x}) = Cardinality(S) - 1 /\ IsFiniteSet(S \ {x})
    BY <1>1, FS_RemoveElement
  <2>3. f[x] <= Cardinality(S) - 1
    BY <2>1, <2>2, FS_Subset
  <2> QED
    BY <1>1, <2>3
<1>4. IsFiniteSet(N) /\ Cardinality(N) = Cardinality(S)
  <2> DEFINE n == Cardinality(S) - 1
  <2>1. n \in Int /\ 0 \in Int /\ IsFiniteSet(0 .. n)
          /\ Cardinality(0 .. n) = IF 0 > n THEN 0 ELSE n - 0 + 1
    BY <1>1, FS_Interval
  <2> QED
    BY <1>1, <2>1
<1>5. IsFiniteSet(T) /\ Cardinality(T) = Cardinality(S)
  <2> HIDE DEF f
  <2> QED
    BY <1>1, <1>2, ImageCard
<1>6. T \subseteq N
  BY <1>3
<1>7. T = N
  <2> HIDE DEF T, N
  <2> QED
    BY <1>4, <1>5, <1>6, FS_Subset
<1> QED
  BY <1>2, <1>7

(* There is a vertex of every rank.                                        *)
LEMMA RankedIs ==
  ASSUME NEW q, IsQuery(q), NEW S \in SUBSET DOMAIN q.dist,
         NEW n \in 0 .. Cardinality(S) - 1
  PROVE  /\ Ranked(q, S, n) \in S
         /\ Cardinality(Before(q, S, Ranked(q, S, n))) = n
<1>1. \E x \in S : Cardinality(Before(q, S, x)) = n
  BY Ranks
<1> QED
  BY <1>1 DEF Ranked

(* The nearest n are n vertices, or all; none outside them comes before    *)
(* one of them.                                                            *)
LEMMA NearestIs ==
  ASSUME NEW q, IsQuery(q), NEW S \in SUBSET DOMAIN q.dist, NEW n \in Nat
  PROVE  /\ Nearest(q, S, n) \subseteq S
         /\ IsFiniteSet(Nearest(q, S, n))
         /\ Cardinality(Nearest(q, S, n)) =
              IF n <= Cardinality(S) THEN n ELSE Cardinality(S)
<1> DEFINE f == [x \in S |-> Cardinality(Before(q, S, x))]
           A == Nearest(q, S, n)
           T == {f[x] : x \in A}
           m == IF n <= Cardinality(S) THEN n ELSE Cardinality(S)
<1>1. A \subseteq S
  BY DEF Nearest
<1>2. IsFiniteSet(S) /\ Cardinality(S) \in Nat /\ IsFiniteSet(A) /\ m \in Nat
  BY <1>1, FiniteBefore, FS_Subset
<1>3. \A x, y \in A : f[x] = f[y] => x = y
  BY <1>1, Ranks
<1>4. IsFiniteSet(T) /\ Cardinality(T) = Cardinality(A)
  <2> HIDE DEF f, A
  <2> QED
    BY <1>2, <1>3, ImageCard
<1>5. \A x \in S : f[x] \in 0 .. Cardinality(S) - 1 /\ (x \in A <=> f[x] < n)
  BY Ranks DEF Nearest
<1>6. \A r \in 0 .. Cardinality(S) - 1 : \E x \in S : f[x] = r
  BY Ranks
<1>7. T = 0 .. m - 1
  <2> HIDE DEF f, A
  <2> QED
    BY <1>1, <1>2, <1>5, <1>6
<1>8. Cardinality(0 .. m - 1) = m
  <2> DEFINE h == m - 1
  <2>1. h \in Int /\ 0 \in Int
    BY <1>2
  <2> HIDE DEF h
  <2>2. Cardinality(0 .. h) = IF 0 > h THEN 0 ELSE h - 0 + 1
    BY <2>1, FS_Interval
  <2> QED
    BY <1>2, <2>2 DEF h
<1> QED
  BY <1>1, <1>2, <1>4, <1>7, <1>8

-----------------------------------------------------------------------------
(* Trimming and cutting keep the nearest k.                                *)

(* The cut keeps ties with its pivot: it lies beyond every distance.       *)
Loose(q) == \A x \in DOMAIN q.dist : q.dist[x] < CutDistance(q, q.dist[x])

(* Vertices of S at least as near as x.                                    *)
AsNear(q, S, x) == {y \in S : q.dist[y] <= q.dist[x]}

(* They are finitely many.                                                 *)
LEMMA FiniteAsNear ==
  ASSUME NEW q, IsQuery(q), NEW S \in SUBSET DOMAIN q.dist, NEW x
  PROVE  /\ IsFiniteSet(AsNear(q, S, x)) /\ Cardinality(AsNear(q, S, x)) \in Nat
<1>1. AsNear(q, S, x) \subseteq S /\ IsFiniteSet(S)
  BY FiniteBefore DEF AsNear
<1> QED
  BY <1>1, FS_Subset, FS_CardinalityType

(* The metric cut keeps the nearest k: its pivot ranks k-th.               *)
LEMMA CutStays ==
  ASSUME NEW q, IsQuery(q), Loose(q), NEW S \in SUBSET DOMAIN q.dist
  PROVE  Nearest(q, S, q.k) \subseteq MetricCut(q, S) /\ MetricCut(q, S) \subseteq S
<1>1. CASE ~(q.metric /\ Cardinality(S) > q.k)
  BY <1>1 DEF MetricCut, Nearest
<1>2. CASE q.metric /\ Cardinality(S) > q.k
  <2> DEFINE p == Ranked(q, S, q.k)
             d == CutDistance(q, q.dist[p])
  <2>1. q.k \in 0 .. Cardinality(S) - 1
    BY <1>2, FiniteBefore, NodesAre
  <2>2. p \in S /\ Cardinality(Before(q, S, p)) = q.k
    BY <2>1, RankedIs
  <2> HIDE DEF p, d
  <2>3. q.dist[p] < d
    BY <2>2 DEF Loose, d
  <2>4. d \in Int
    BY <2>2, NodesAre DEF CutDistance, d
  <2>5. ASSUME NEW y \in S, Cardinality(Before(q, S, y)) < q.k
        PROVE  ~Beyond(q, d, y)
    <3>1. ~Less(q, p, y)
      <4> SUFFICES ASSUME Less(q, p, y) PROVE FALSE
        OBVIOUS
      <4>1. Cardinality(Before(q, S, p)) + 1 <= Cardinality(Before(q, S, y))
        BY <2>2, RankRises
      <4>2. Cardinality(Before(q, S, y)) \in Nat /\ q.k \in Nat
        BY FiniteBefore, NodesAre
      <4> QED
        BY <2>2, <2>5, <4>1, <4>2
    <3>2. q.dist[y] <= q.dist[p]
      BY <2>2, <3>1, LessOrders, NodesAre
    <3> QED
      BY <2>2, <2>3, <2>4, <3>2, NodesAre DEF Beyond
  <2>6. MetricCut(q, S) = {x \in S : ~Beyond(q, d, x)}
    BY <1>2 DEF MetricCut, d, p
  <2> QED
    BY <2>5, <2>6 DEF Nearest
<1> QED
  BY <1>1, <1>2

(* So does trimming to a width of k or more, followed by the cut.          *)
LEMMA TrimStays ==
  ASSUME NEW q, IsQuery(q), Loose(q), NEW S \in SUBSET DOMAIN q.dist,
         NEW w \in Nat, q.k <= w
  PROVE  LET T == MetricCut(q, Nearest(q, S, w))
         IN Nearest(q, S, q.k) \subseteq T /\ T \subseteq S
<1> DEFINE N == Nearest(q, S, w)
<1>1. N \subseteq S
  BY DEF Nearest
<1>2. Nearest(q, N, q.k) \subseteq MetricCut(q, N) /\ MetricCut(q, N) \subseteq N
  BY <1>1, CutStays
<1>3. ASSUME NEW x \in Nearest(q, S, q.k) PROVE x \in Nearest(q, N, q.k)
  <2>1. x \in S /\ Cardinality(Before(q, S, x)) < q.k
    BY DEF Nearest
  <2>2. x \in N
    <3>1. Cardinality(Before(q, S, x)) \in Nat /\ q.k \in Nat
      BY FiniteBefore, NodesAre
    <3>2. Cardinality(Before(q, S, x)) < w
      BY <2>1, <3>1
    <3> QED
      BY <2>1, <3>2 DEF Nearest
  <2>3. Before(q, N, x) \subseteq Before(q, S, x)
    BY <1>1 DEF Before
  <2>4. Cardinality(Before(q, N, x)) <= Cardinality(Before(q, S, x))
    BY <2>3, FiniteBefore, FS_Subset
  <2>5. Cardinality(Before(q, N, x)) \in Nat /\ Cardinality(Before(q, S, x)) \in Nat
    BY <1>1, FiniteBefore
  <2> HIDE DEF N
  <2>6. Cardinality(Before(q, N, x)) < q.k
    BY <2>1, <2>4, <2>5, NodesAre
  <2> QED
    BY <2>2, <2>6 DEF Nearest
<1> QED
  BY <1>1, <1>2, <1>3

(* If k vertices of S are as near as x and T keeps the nearest k of S,     *)
(* then k vertices of T are as near as x.                                  *)
LEMMA CountStays ==
  ASSUME NEW q, IsQuery(q), NEW S \in SUBSET DOMAIN q.dist,
         NEW T \in SUBSET S, Nearest(q, S, q.k) \subseteq T,
         NEW x \in DOMAIN q.dist, Cardinality(AsNear(q, S, x)) >= q.k
  PROVE  Cardinality(AsNear(q, T, x)) >= q.k
<1> DEFINE N == Nearest(q, S, q.k)
           A == AsNear(q, S, x)
           B == AsNear(q, T, x)
<1>0. q.k \in Nat /\ T \in SUBSET DOMAIN q.dist
  BY NodesAre
<1>1. A \subseteq S /\ IsFiniteSet(S) /\ Cardinality(S) \in Nat /\ Cardinality(A) \in Nat
  BY FiniteBefore, FiniteAsNear DEF AsNear
<1>2. Cardinality(A) <= Cardinality(S)
  BY <1>1, FS_Subset
<1>3. IsFiniteSet(N) /\ Cardinality(N) = q.k /\ N \subseteq S
  <2> HIDE DEF N, A
  <2>1. q.k <= Cardinality(S)
    BY <1>0, <1>1, <1>2 DEF A
  <2> QED
    BY <1>0, <2>1, NearestIs DEF N
<1>4. ASSUME NEW z \in N PROVE z \in A
  <2> SUFFICES ASSUME z \notin A PROVE FALSE
    OBVIOUS
  <2>1. z \in S /\ Cardinality(Before(q, S, z)) < q.k
    BY <1>4 DEF Nearest
  <2>2. q.dist[x] < q.dist[z]
    BY <2>1, NodesAre DEF AsNear
  <2>3. A \subseteq Before(q, S, z)
    BY <2>1, <2>2, NodesAre DEF AsNear, Before, Less
  <2>4. Cardinality(A) <= Cardinality(Before(q, S, z))
          /\ Cardinality(Before(q, S, z)) \in Nat
    BY <2>3, FiniteBefore, FS_Subset
  <2> HIDE DEF A
  <2> QED
    BY <1>0, <1>1, <2>1, <2>4 DEF A
<1>5. N \subseteq B
  BY <1>4 DEF AsNear
<1>6. IsFiniteSet(B) /\ Cardinality(B) \in Nat
  BY <1>0, FiniteAsNear
<1> HIDE DEF N, B
<1>7. Cardinality(N) <= Cardinality(B)
  BY <1>5, <1>6, FS_Subset
<1> QED
  BY <1>0, <1>3, <1>6, <1>7 DEF B

(* A vertex that is not among the nearest k has k as near.                 *)
LEMMA FarHasNearer ==
  ASSUME NEW q, IsQuery(q), NEW S \in SUBSET DOMAIN q.dist,
         NEW x \in S, x \notin Nearest(q, S, q.k)
  PROVE  Cardinality(AsNear(q, S, x)) >= q.k
<1>1. Before(q, S, x) \subseteq AsNear(q, S, x)
  BY LessOrders DEF Before, AsNear
<1>2. Cardinality(Before(q, S, x)) <= Cardinality(AsNear(q, S, x))
  BY <1>1, FiniteAsNear, FS_Subset
<1>3. ~ (Cardinality(Before(q, S, x)) < q.k)
  BY DEF Nearest
<1>4. Cardinality(Before(q, S, x)) \in Nat /\ Cardinality(AsNear(q, S, x)) \in Nat
        /\ q.k \in Nat
  BY FiniteBefore, FiniteAsNear, NodesAre
<1> QED
  BY <1>2, <1>3, <1>4

(* A larger set has no fewer vertices as near.                             *)
LEMMA MoreIsNear ==
  ASSUME NEW q, IsQuery(q), NEW S \in SUBSET DOMAIN q.dist,
         NEW T \in SUBSET S, NEW x, Cardinality(AsNear(q, T, x)) >= q.k
  PROVE  Cardinality(AsNear(q, S, x)) >= q.k
<1>1. AsNear(q, T, x) \subseteq AsNear(q, S, x)
  BY DEF AsNear
<1>2. Cardinality(AsNear(q, T, x)) <= Cardinality(AsNear(q, S, x))
  BY <1>1, FiniteAsNear, FS_Subset
<1>3. Cardinality(AsNear(q, T, x)) \in Nat /\ Cardinality(AsNear(q, S, x)) \in Nat
        /\ q.k \in Nat
  BY FiniteAsNear, NodesAre
<1> QED
  BY <1>2, <1>3

(* Past the cutoff the beam is full, so k of it are as near.               *)
LEMMA PastCutoff ==
  ASSUME NEW q, IsQuery(q), NEW S \in SUBSET DOMAIN q.dist,
         NEW w \in Nat, q.k <= w,
         NEW x \in DOMAIN q.dist, ~ (q.dist[x] < Cutoff(q, S, w))
  PROVE  Cardinality(AsNear(q, S, x)) >= q.k
<1> DEFINE n == Cardinality(S)
<1>1. n \in Nat /\ IsFiniteSet(S) /\ q.k \in Nat \ {0}
  BY FiniteBefore, NodesAre
<1>2. n >= w
  BY <1>1, NodesAre DEF Cutoff
<1> DEFINE p == Ranked(q, S, n - 1)
<1>3. p \in S /\ Cardinality(Before(q, S, p)) = n - 1
  <2>1. n - 1 \in 0 .. n - 1
    BY <1>1, <1>2
  <2> QED
    BY <2>1, RankedIs
<1>4. q.dist[p] <= q.dist[x]
  <2>1. Cutoff(q, S, w) = q.dist[p]
    BY <1>1, <1>2 DEF Cutoff
  <2> HIDE DEF p
  <2> QED
    BY <1>3, <2>1, NodesAre
<1> HIDE DEF p
<1>5. ASSUME NEW y \in S PROVE q.dist[y] <= q.dist[p]
  <2>1. ~Less(q, p, y)
    <3> SUFFICES ASSUME Less(q, p, y) PROVE FALSE
      OBVIOUS
    <3>1. Cardinality(Before(q, S, p)) + 1 <= Cardinality(Before(q, S, y))
      BY <1>3, RankRises
    <3>2. Cardinality(Before(q, S, y)) \in 0 .. n - 1
      BY Ranks
    <3> HIDE DEF n
    <3> QED
      BY <1>1, <1>3, <3>1, <3>2
  <2> QED
    BY <1>3, <2>1, LessOrders, NodesAre
<1>6. AsNear(q, S, x) = S
  BY <1>3, <1>4, <1>5, NodesAre DEF AsNear
<1> HIDE DEF n
<1> QED
  BY <1>1, <1>2, <1>6 DEF n

-----------------------------------------------------------------------------
(* The recursions that look at a row of neighbours.                        *)

(* A finite family of sets has a least member.                             *)
LEMMA LeastSet ==
  ASSUME NEW S, IsFiniteSet(S), NEW T \in SUBSET (SUBSET S), T # {}
  PROVE  \E x \in T : \A y \in T : ~ (y \subseteq x /\ y # x)
<1>1. IsWellFoundedOn(StrictSubsetOrdering(S), FiniteSubsetsOf(S))
  BY FS_StrictSubsetOrderingWellFounded
<1>2. T \subseteq FiniteSubsetsOf(S)
  BY FS_Subset DEF FiniteSubsetsOf
<1>3. PICK x \in T : \A y \in T : ~ (<<y, x>> \in StrictSubsetOrdering(S))
  BY <1>1, <1>2, WFMin
<1> QED
  BY <1>3 DEF StrictSubsetOrdering

(* What holds of 0, and of k + 1 if of k, holds up to n.                   *)
LEMMA CountUp ==
  ASSUME NEW n \in Nat, NEW S, 0 \in S,
         \A k \in 0 .. n - 1 : k \in S => k + 1 \in S
  PROVE  \A k \in 0 .. n : k \in S
<1> DEFINE Bad == (0 .. n) \ S
           T == {0 .. k : k \in Bad}
<1> SUFFICES ASSUME Bad # {} PROVE FALSE
  OBVIOUS
<1>1. IsFiniteSet(0 .. n)
  BY FS_Interval
<1>2. T \in SUBSET (SUBSET (0 .. n)) /\ T # {}
  OBVIOUS
<1>3. PICK x \in T : \A y \in T : ~ (y \subseteq x /\ y # x)
  <2> DEFINE N == 0 .. n
  <2>1. IsFiniteSet(N) /\ T \in SUBSET (SUBSET N) /\ T # {}
    BY <1>1, <1>2
  <2> HIDE DEF T, Bad, N
  <2> QED
    BY <2>1, LeastSet
<1>4. PICK k \in Bad : x = 0 .. k
  OBVIOUS
<1>5. k \in 0 .. n /\ k \notin S /\ k - 1 \in 0 .. n - 1
  BY <1>4
<1>6. k - 1 \in S
  <2>1. 0 .. k - 1 \subseteq 0 .. k /\ k \in 0 .. k /\ k \notin 0 .. k - 1
    BY <1>5
  <2> QED
    <3>1. k - 1 \notin Bad
      <4>1. 0 .. k - 1 # 0 .. k /\ 0 .. k - 1 \subseteq 0 .. k
        BY <2>1
      <4>2. k - 1 \in Bad => 0 .. k - 1 \in T
        OBVIOUS
      <4> HIDE DEF T, Bad
      <4> QED
        BY <1>3, <1>4, <4>1, <4>2
    <3>2. k - 1 \in 0 .. n
      BY <1>5
    <3> QED
      BY <3>1, <3>2
<1>7. k - 1 + 1 \in S
  BY <1>5, <1>6
<1> QED
  BY <1>5, <1>7

(* G gives the next value from the number of the step and the value.       *)
IsStep(G, n, T) == G \in [(0 .. n - 1) \X T -> T]

(* The values r of n steps of G from b.                                    *)
IsRun(r, n, b, G) ==
  r[0] = b /\ \A k \in 0 .. n - 1 : r[k + 1] = G[<<k, r[k]>>]

(* A step function has a run of any length.                                *)
LEMMA RunExists ==
  ASSUME NEW T, NEW n \in Nat, NEW b \in T, NEW G, IsStep(G, n, T)
  PROVE  \E r \in [0 .. n -> T] : IsRun(r, n, b, G)
<1> USE DEF IsStep, IsRun
<1> DEFINE Run(r, m) == r \in [0 .. m -> T] /\ r[0] = b
                          /\ \A k \in 0 .. m - 1 : r[k + 1] = G[<<k, r[k]>>]
           S == {m \in 0 .. n : \E r : Run(r, m)}
<1>1. 0 \in S
  <2>1. Run([k \in 0 .. 0 |-> b], 0)
    OBVIOUS
  <2> HIDE DEF Run
  <2> QED
    BY <2>1
<1>2. ASSUME NEW m \in 0 .. n - 1, m \in S PROVE m + 1 \in S
  <2>1. PICK r : Run(r, m)
    BY <1>2
  <2> DEFINE x == G[<<m, r[m]>>]
             t == [k \in 0 .. m + 1 |-> IF k <= m THEN r[k] ELSE x]
  <2>2. r[m] \in T /\ x \in T
    <3>1. r[m] \in T
      BY <2>1
    <3>2. <<m, r[m]>> \in (0 .. n - 1) \X T
      BY <3>1
    <3> QED
      BY <3>1, <3>2
  <2> HIDE DEF x
  <2>3. t \in [0 .. m + 1 -> T] /\ t[0] = b
    BY <2>1, <2>2
  <2>4. ASSUME NEW k \in 0 .. m PROVE t[k + 1] = G[<<k, t[k]>>]
    <3>1. t[k] = r[k]
      OBVIOUS
    <3>2. CASE k = m
      <4>1. t[m + 1] = x
        OBVIOUS
      <4> HIDE DEF t
      <4> QED
        BY <3>1, <3>2, <4>1 DEF x
    <3>3. CASE k < m
      BY <2>1, <3>1, <3>3
    <3> QED
      BY <3>2, <3>3
  <2>5. Run(t, m + 1)
    <3>1. 0 .. m + 1 - 1 = 0 .. m
      OBVIOUS
    <3> HIDE DEF t
    <3> QED
      BY <2>3, <2>4, <3>1
  <2> HIDE DEF Run
  <2> QED
    BY <2>5
<1>3. n \in S
  <2> HIDE DEF S
  <2> QED
    BY <1>1, <1>2, CountUp
<1> QED
  BY <1>3

(* The vertices of a query.                                                *)
Vertices(q) == DOMAIN q.dist

(* The slots of its seen filter.                                           *)
Slots(q) == 0 .. q.slots - 1

(* States of a look at the neighbours of a vertex.                         *)
Looks(q) == [keep : Seq(Vertices(q)), filter : [Slots(q) -> Int]]

(* One place of a row, looked at or not.                                   *)
SeeOne(q, x, a, k) == IF k \notin Row(q, x) THEN a ELSE Look(q, a, q.edges[x][k])

(* Neighbours are vertices, and a vertex has a slot.                       *)
LEMMA EdgesAre ==
  ASSUME NEW q, IsQuery(q), NEW x \in Vertices(q)
  PROVE  /\ Len(q.edges[x]) \in Nat
         /\ \A k \in 1 .. Len(q.edges[x]) : q.edges[x][k] \in Vertices(q)
         /\ Vertices(q) \subseteq Nat /\ q.slots \in Nat \ {0}
         /\ \A y \in Vertices(q) : Slot(q, y) \in Slots(q)
<1>1. q.edges \in [Vertices(q) -> Seq(Vertices(q))]
  BY DEF IsQuery, Vertices
<1>2. q.edges[x] \in Seq(Vertices(q))
  BY <1>1
<1>3. Vertices(q) \subseteq Nat /\ q.slots \in Nat \ {0}
  BY DEF IsQuery, Vertices
<1>4. \A y \in Vertices(q) : Slot(q, y) \in Slots(q)
  BY <1>3 DEF Slot, Slots
<1> QED
  BY <1>2, <1>3, <1>4

(* A look keeps the state of the look one.                                 *)
LEMMA SeeIsTyped ==
  ASSUME NEW q, IsQuery(q), NEW x \in Vertices(q), NEW a \in Looks(q),
         NEW k \in 1 .. Len(q.edges[x])
  PROVE  SeeOne(q, x, a, k) \in Looks(q)
<1> DEFINE y == q.edges[x][k]
<1>1. y \in Vertices(q) /\ y \in Int /\ Slot(q, y) \in Slots(q)
  BY EdgesAre
<1> HIDE DEF y
<1>2. a.keep \in Seq(Vertices(q)) /\ a.filter \in [Slots(q) -> Int]
  BY DEF Looks
<1>3. Append(a.keep, y) \in Seq(Vertices(q))
  BY <1>1, <1>2
<1>4. [a.filter EXCEPT ![Slot(q, y)] = y] \in [Slots(q) -> Int]
  BY <1>1, <1>2
<1>5. Look(q, a, y) \in Looks(q)
  BY <1>3, <1>4 DEF Look, Looks
<1> QED
  BY <1>5 DEF SeeOne, y

(* The values of Unseen's recursion, place by place.                       *)
IsLook(q, x, f, a) ==
  /\ a \in [0 .. Len(q.edges[x]) -> Looks(q)]
  /\ a[0] = [keep |-> <<>>, filter |-> f]
  /\ \A k \in 0 .. Len(q.edges[x]) - 1 : a[k + 1] = SeeOne(q, x, a[k], k + 1)

(* Unseen is the last of these values: the recursion has them.             *)
LEMMA UnseenIs ==
  ASSUME NEW q, IsQuery(q), NEW x \in Vertices(q), NEW f \in [Slots(q) -> Int]
  PROVE  \E a : IsLook(q, x, f, a) /\ Unseen(q, x, f) = a[Len(q.edges[x])]
<1> DEFINE n == Len(q.edges[x])
           b == [keep |-> <<>>, filter |-> f]
           T == Looks(q)
           Eq(r) == r = [k \in 0 .. n |-> IF k = 0 THEN b
                                          ELSE IF k \notin Row(q, x) THEN r[k - 1]
                                          ELSE Look(q, r[k - 1], q.edges[x][k])]
           G == [p \in (0 .. n - 1) \X T |-> SeeOne(q, x, p[2], p[1] + 1)]
<1>1. n \in Nat /\ b \in T
  BY EdgesAre DEF Looks
<1>2. \A p \in (0 .. n - 1) \X T : SeeOne(q, x, p[2], p[1] + 1) \in T
  <2> TAKE p \in (0 .. n - 1) \X T
  <2>1. p[2] \in T /\ p[1] + 1 \in 1 .. n
    BY <1>1
  <2> QED
    BY <2>1, SeeIsTyped
<1>3. PICK r \in [0 .. n -> T] :
        r[0] = b /\ \A k \in 0 .. n - 1 : r[k + 1] = SeeOne(q, x, r[k], k + 1)
  <2>1. b \in T /\ n \in Nat /\ IsStep(G, n, T)
    BY <1>1, <1>2 DEF IsStep
  <2>2. \A k \in 0 .. n - 1, s \in T : G[<<k, s>>] = SeeOne(q, x, s, k + 1)
    OBVIOUS
  <2> HIDE DEF G, b, n, T
  <2>3. PICK r \in [0 .. n -> T] : IsRun(r, n, b, G)
    BY <2>1, RunExists
  <2>4. r[0] = b /\ \A k \in 0 .. n - 1 : r[k + 1] = SeeOne(q, x, r[k], k + 1)
    <3>1. \A k \in 0 .. n - 1 : r[k] \in T
      BY <1>1
    <3> QED
      BY <2>2, <2>3, <3>1 DEF IsRun
  <2> QED
    BY <2>4
<1>4. Eq(r)
  <2>1. ASSUME NEW k \in 0 .. n
        PROVE  r[k] = IF k = 0 THEN b
                      ELSE IF k \notin Row(q, x) THEN r[k - 1]
                      ELSE Look(q, r[k - 1], q.edges[x][k])
    <3>1. CASE k = 0
      BY <1>3, <3>1
    <3>2. CASE k # 0
      <4>1. k - 1 \in 0 .. n - 1 /\ k - 1 + 1 = k
        BY <1>1, <3>2
      <4> HIDE DEF b, n
      <4>2. r[k] = SeeOne(q, x, r[k - 1], k)
        BY <1>3, <4>1
      <4> QED
        BY <3>2, <4>2 DEF SeeOne
    <3> QED
      BY <3>1, <3>2
  <2> HIDE DEF b, n
  <2> QED
    BY <1>3, <2>1
<1>5. Eq(CHOOSE g : Eq(g))
  <2> HIDE DEF Eq
  <2> QED
    BY <1>4
<1> DEFINE g == CHOOSE h : Eq(h)
<1>6. Unseen(q, x, f) = g[n]
  BY DEF Unseen
<1>7. g = [k \in 0 .. n |-> IF k = 0 THEN b
                            ELSE IF k \notin Row(q, x) THEN g[k - 1]
                            ELSE Look(q, g[k - 1], q.edges[x][k])]
  BY <1>5
<1> HIDE DEF g, b, n
<1>8. g[0] = b /\ \A k \in 0 .. n - 1 : g[k + 1] = SeeOne(q, x, g[k], k + 1)
  <2>1. 0 \in 0 .. n
    BY <1>1
  <2>2. ASSUME NEW k \in 0 .. n - 1 PROVE g[k + 1] = SeeOne(q, x, g[k], k + 1)
    <3> DEFINE h == k + 1
    <3>1. h \in 0 .. n /\ h # 0 /\ h - 1 = k
      BY <1>1
    <3> HIDE DEF h
    <3>2. g[h] = SeeOne(q, x, g[h - 1], h)
      BY <1>7, <3>1 DEF SeeOne
    <3> QED
      BY <3>1, <3>2 DEF h
  <2> QED
    BY <1>7, <2>1, <2>2
<1>9. g \in [0 .. n -> T]
  <2> HIDE DEF T
  <2> DEFINE S == {k \in 0 .. n : g[k] \in T}
  <2>1. 0 \in S
    BY <1>1, <1>8
  <2>2. ASSUME NEW k \in 0 .. n - 1, k \in S PROVE k + 1 \in S
    <3>1. k + 1 \in 1 .. n /\ k + 1 \in 0 .. n
      BY <1>1
    <3>2. SeeOne(q, x, g[k], k + 1) \in T
      BY <2>2, <3>1, SeeIsTyped DEF n, T
    <3> QED
      BY <1>8, <3>1, <3>2
  <2> HIDE DEF S
  <2>3. \A k \in 0 .. n : k \in S
    BY <1>1, <2>1, <2>2, CountUp
  <2>4. \A k \in 0 .. n : g[k] \in T
    BY <2>3 DEF S
  <2> QED
    BY <1>7, <2>4
<1> QED
  BY <1>6, <1>8, <1>9 DEF IsLook, b, n, T

(* What is unseen are vertices, and the filter stays one.                  *)
LEMMA UnseenIsTyped ==
  ASSUME NEW q, IsQuery(q), NEW x \in Vertices(q), NEW f \in [Slots(q) -> Int]
  PROVE  /\ Unseen(q, x, f) \in Looks(q)
         /\ ToSet(Unseen(q, x, f).keep) \subseteq Vertices(q)
<1>1. Unseen(q, x, f) \in Looks(q)
  <2>1. PICK a : IsLook(q, x, f, a) /\ Unseen(q, x, f) = a[Len(q.edges[x])]
    BY UnseenIs
  <2>2. Len(q.edges[x]) \in 0 .. Len(q.edges[x])
    BY EdgesAre
  <2> QED
    BY <2>1, <2>2 DEF IsLook
<1>2. Unseen(q, x, f).keep \in Seq(Vertices(q))
  BY <1>1 DEF Looks
<1> QED
  BY <1>1, <1>2 DEF ToSet

-----------------------------------------------------------------------------
(* The reference as an instance.                                           *)

(* The reference is an instance with operators of its own: these are the   *)
(* same functions of sets.                                                 *)
LEMMA SameSets ==
  ASSUME NEW S
  PROVE  /\ Abstract!Cardinality(S) = Cardinality(S)
         /\ Abstract!ToSet(S) = ToSet(S)
BY DEF Abstract!Cardinality, Cardinality, Abstract!ToSet, ToSet

(* So are its order, its cuts and its empty filter.                        *)
LEMMA SameOrder ==
  /\ \A q, S, x : Abstract!Before(q, S, x) = Before(q, S, x)
  /\ \A q, S, n : Abstract!Nearest(q, S, n) = Nearest(q, S, n)
  /\ \A q, S, n : Abstract!Ranked(q, S, n) = Ranked(q, S, n)
  /\ \A q, S : Abstract!MetricCut(q, S) = MetricCut(q, S)
  /\ \A q, S, w : Abstract!Cutoff(q, S, w) = Cutoff(q, S, w)
  /\ \A q : Abstract!EmptyFilter(q) = EmptyFilter(q)
  /\ \A q : Abstract!Starts(q) = ToSet(q.starts)
<1>1. \A q, x, y : Abstract!Less(q, x, y) = Less(q, x, y)
  BY DEF Less, Abstract!Less
<1>2. \A q, S, x : Abstract!Before(q, S, x) = Before(q, S, x)
  BY DEF Less, Before, Abstract!Less, Abstract!Before
<1>3. \A q, S, n : Abstract!Nearest(q, S, n) = Nearest(q, S, n)
  BY <1>2, SameSets DEF Nearest, Abstract!Nearest
<1>4. \A q, S, n : Abstract!Ranked(q, S, n) = Ranked(q, S, n)
  BY <1>2, SameSets DEF Ranked, Abstract!Ranked
<1>5. \A q, d : Abstract!CutDistance(q, d) = CutDistance(q, d)
  BY DEF CutDistance, Abstract!CutDistance
<1>6. \A q, d, x : Abstract!Beyond(q, d, x) = Beyond(q, d, x)
  BY DEF Beyond, Abstract!Beyond
<1>7. \A q, S : Abstract!MetricCut(q, S) = MetricCut(q, S)
  BY <1>4, <1>5, <1>6, SameSets DEF MetricCut, Abstract!MetricCut
<1>8. \A q, S, w : Abstract!Cutoff(q, S, w) = Cutoff(q, S, w)
  BY <1>4, SameSets DEF Cutoff, Abstract!Cutoff, Infinite, Abstract!Infinite
<1>9. \A q : Abstract!EmptyFilter(q) = EmptyFilter(q)
  BY DEF EmptyFilter, Abstract!EmptyFilter, None, Abstract!None
<1>10. \A q : Abstract!Starts(q) = ToSet(q.starts)
  BY SameSets DEF Abstract!Starts
<1> QED
  BY <1>2, <1>3, <1>4, <1>7, <1>8, <1>9, <1>10

(* So is the condition of a loose cut.                                     *)
LEMMA SameLoose ==
  ASSUME NEW q
  PROVE  Abstract!CutIsLoose(q) <=> Loose(q)
BY DEF Abstract!CutIsLoose, Abstract!CutDistance, Loose, CutDistance

(* So is what it finds unseen.                                             *)
LEMMA SameUnseen ==
  ASSUME NEW q, NEW x, NEW f
  PROVE  Abstract!Unseen(q, x, f) = Unseen(q, x, f)
BY DEF Abstract!Unseen, Unseen, Abstract!Look, Look, Abstract!Slot, Slot,
       Abstract!Row, Row

-----------------------------------------------------------------------------
(* The reference keeps the nearest k.                                      *)

(* The beam as the reference sees it.                                      *)
Held == IF Started THEN Active ELSE {}

(* The filter as the reference sees it.                                    *)
Seen == IF Started THEN Filtered ELSE EmptyFilter(query)

(* The inductive invariant of the reference: it holds what it has scored,  *)
(* or k vertices as near, and a width of k or more.                        *)
KeptInv ==
  /\ served \in Nat
  /\ phase # "idle" =>
       /\ IsQuery(query)
       /\ Held \subseteq observed /\ observed \subseteq DOMAIN query.dist
       /\ Seen \in [Slots(query) -> Int]
       /\ width \in Nat /\ query.k <= width
       /\ top \subseteq observed
       /\ Loose(query) => \A x \in observed \ Held :
            Cardinality(AsNear(query, Held, x)) >= query.k

(* Every query asked is one.                                               *)
LEMMA QueryIs ==
  ASSUME NEW n \in 1 .. Len(Queries), NEW q \in Queries[n]
  PROVE  IsQuery(q) /\ q.slots <= SlotMax
BY QueryAssumption

(* Uniting with the candidates, trimming and cutting keep k as near for    *)
(* all that was scored: a vertex past the cutoff had k, one that is        *)
(* trimmed or cut has k, and the nearest k of the union stay.              *)
LEMMA ExpandKeeps ==
  ASSUME NEW q, IsQuery(q), Loose(q), NEW w \in Nat, q.k <= w,
         NEW F \in SUBSET DOMAIN q.dist, NEW K \in SUBSET DOMAIN q.dist,
         NEW O \in SUBSET DOMAIN q.dist, F \subseteq O,
         \A x \in O \ F : Cardinality(AsNear(q, F, x)) >= q.k
  PROVE  LET C == {y \in K : q.dist[y] < Cutoff(q, F, w)}
             G == MetricCut(q, Nearest(q, F \cup C, w))
         IN \A x \in (O \cup K) \ G : Cardinality(AsNear(q, G, x)) >= q.k
<1> DEFINE C == {y \in K : q.dist[y] < Cutoff(q, F, w)}
           S == F \cup C
           G == MetricCut(q, Nearest(q, S, w))
<1>1. S \in SUBSET DOMAIN q.dist /\ F \subseteq S
  OBVIOUS
<1>2. Nearest(q, S, q.k) \subseteq G /\ G \subseteq S
  BY <1>1, TrimStays
<1>3. ASSUME NEW x \in (O \cup K) \ G
      PROVE  Cardinality(AsNear(q, S, x)) >= q.k
  <2>1. CASE x \in S
    BY <1>1, <1>2, <1>3, <2>1, FarHasNearer
  <2>2. CASE x \in O \ F
    <3>1. Cardinality(AsNear(q, F, x)) >= q.k
      BY <2>2
    <3> HIDE DEF S
    <3> QED
      BY <1>1, <3>1, MoreIsNear
  <2>3. CASE x \in K /\ ~ (q.dist[x] < Cutoff(q, F, w))
    <3>1. Cardinality(AsNear(q, F, x)) >= q.k
      BY <2>3, PastCutoff
    <3> HIDE DEF S
    <3> QED
      BY <1>1, <3>1, MoreIsNear
  <2> QED
    BY <2>1, <2>2, <2>3
<1>4. ASSUME NEW x \in (O \cup K) \ G
      PROVE  Cardinality(AsNear(q, G, x)) >= q.k
  <2>1. Cardinality(AsNear(q, S, x)) >= q.k /\ x \in DOMAIN q.dist
    BY <1>3
  <2> HIDE DEF S, G
  <2> QED
    BY <1>1, <1>2, <2>1, CountStays
<1> QED
  BY <1>4

(* A search begins with all it has scored.                                 *)
LEMMA BeginKept ==
  ASSUME KeptInv, NEW q \in UNION ToSet(Queries), Abstract!Begin(q)
  PROVE  KeptInv'
<1>1. /\ phase' = "searching" /\ query' = q /\ Held' = ToSet(q.starts)
      /\ observed' = ToSet(q.starts) /\ Seen' = EmptyFilter(q) /\ top' = {}
      /\ width' = q.beam /\ served' = served + 1 /\ served < Len(Queries)
      /\ q \in Queries[served + 1]
  BY SameOrder, SameSets DEF Abstract!Begin, Held, Seen
<1>2. IsQuery(q)
  <2>1. served + 1 \in 1 .. Len(Queries)
    BY <1>1, QueryAssumption DEF KeptInv
  <2> QED
    BY <1>1, <2>1, QueryIs
<1>3. ToSet(q.starts) \subseteq DOMAIN q.dist
  <2>1. q.starts \in Seq(DOMAIN q.dist)
    BY <1>2 DEF IsQuery
  <2> QED
    BY <2>1 DEF ToSet
<1>4. EmptyFilter(q) \in [Slots(q) -> Int]
  BY DEF EmptyFilter, None, Slots
<1> QED
  BY <1>1, <1>2, <1>3, <1>4, NodesAre DEF KeptInv

(* An expansion preserves the invariant.                                   *)
LEMMA ExpandKept ==
  ASSUME KeptInv, Abstract!Expand
  PROVE  KeptInv'
<1> DEFINE x == Ranked(query, Held \ (IF Started THEN beam.visited ELSE {}), 0)
           new == Unseen(query, x, Seen)
           K == ToSet(new.keep)
           C == {y \in K : query.dist[y] < Cutoff(query, Held, width)}
           G == MetricCut(query, Nearest(query, Held \cup C, width))
           U == Held \ (IF Started THEN beam.visited ELSE {})
<1>1. /\ phase = "searching" /\ U # {}
      /\ phase' = "searching" /\ query' = query /\ width' = width /\ top' = top
      /\ served' = served /\ observed' = observed \cup K /\ Seen' = new.filter
      /\ Held' = G
  BY SameOrder, SameSets, SameUnseen DEF Abstract!Expand, Abstract!Unvisited, Held, Seen
<1>2. /\ IsQuery(query) /\ Held \subseteq observed /\ observed \subseteq DOMAIN query.dist
      /\ Seen \in [Slots(query) -> Int] /\ width \in Nat /\ query.k <= width
  BY <1>1 DEF KeptInv
<1>3. x \in DOMAIN query.dist
  <2>1. U \in SUBSET DOMAIN query.dist /\ Cardinality(U) \in Nat /\ IsFiniteSet(U)
    BY <1>2, FiniteBefore
  <2>2. Cardinality(U) # 0
    BY <1>1, <2>1, FS_EmptySet
  <2>3. 0 \in 0 .. Cardinality(U) - 1
    BY <2>1, <2>2
  <2>4. x \in U
    BY <1>2, <2>1, <2>3, RankedIs
  <2> QED
    BY <2>1, <2>4
<1>4. new \in Looks(query) /\ K \subseteq DOMAIN query.dist
  <2> HIDE DEF x
  <2> QED
    BY <1>2, <1>3, UnseenIsTyped DEF Vertices
<1> HIDE DEF x, new, K
<1>5. new.filter \in [Slots(query) -> Int]
  BY <1>4 DEF Looks
<1>6. G \subseteq observed \cup K
  <2>1. \A S : Nearest(query, S, width) \subseteq S
    BY DEF Nearest
  <2>2. \A S : MetricCut(query, S) \subseteq S
    BY DEF MetricCut
  <2> QED
    BY <1>2, <2>1, <2>2
<1>7. Loose(query) => \A y \in (observed \cup K) \ G :
                        Cardinality(AsNear(query, G, y)) >= query.k
  <2> SUFFICES ASSUME Loose(query)
               PROVE  \A y \in (observed \cup K) \ G :
                        Cardinality(AsNear(query, G, y)) >= query.k
    OBVIOUS
  <2>1. \A y \in observed \ Held : Cardinality(AsNear(query, Held, y)) >= query.k
    BY <1>1 DEF KeptInv
  <2> QED
    BY <1>2, <1>4, <2>1, ExpandKeeps
<1> HIDE DEF G
<1> QED
  BY <1>1, <1>2, <1>4, <1>5, <1>6, <1>7 DEF KeptInv

(* A larger beam preserves it.                                             *)
LEMMA LargerKeeps ==
  ASSUME NEW q, IsQuery(q), NEW F, NEW G \in SUBSET DOMAIN q.dist, F \subseteq G, NEW O,
         \A x \in O \ F : Cardinality(AsNear(q, F, x)) >= q.k
  PROVE  \A x \in O \ G : Cardinality(AsNear(q, G, x)) >= q.k
<1> TAKE x \in O \ G
<1>1. Cardinality(AsNear(q, F, x)) >= q.k
  OBVIOUS
<1> QED
  BY <1>1, MoreIsNear

(* So a continuation does.                                                 *)
LEMMA WidenKept ==
  ASSUME KeptInv, NEW H, NEW extra, Abstract!Widen(H, extra)
  PROVE  KeptInv'
<1>1. /\ phase = "searching" /\ phase' = "searching" /\ query' = query
      /\ width' = query.beam + AddedWidth /\ top' = Nearest(query, Held, query.k)
      /\ served' = served /\ observed' = observed /\ Seen' = Seen
      /\ Held' = Held \cup H /\ H \subseteq observed
  BY SameOrder DEF Abstract!Widen, Held, Seen
<1>2. IsQuery(query) /\ Held \subseteq observed /\ observed \subseteq DOMAIN query.dist
  BY <1>1 DEF KeptInv
<1>3. width' \in Nat /\ query.k <= width'
  BY <1>1, <1>2, NodesAre, BatchedAssumption
<1>4. Nearest(query, Held, query.k) \subseteq observed
  BY <1>2 DEF Nearest
<1>5. Loose(query) => \A x \in observed \ (Held \cup H) :
                        Cardinality(AsNear(query, Held \cup H, x)) >= query.k
  <2> DEFINE G == Held \cup H
  <2>1. G \in SUBSET DOMAIN query.dist /\ Held \subseteq G
    BY <1>1, <1>2
  <2>2. Loose(query) => \A x \in observed \ Held :
                          Cardinality(AsNear(query, Held, x)) >= query.k
    BY <1>1 DEF KeptInv
  <2> HIDE DEF G
  <2>3. Loose(query) => \A x \in observed \ G : Cardinality(AsNear(query, G, x)) >= query.k
    BY <1>2, <2>1, <2>2, LargerKeeps
  <2> QED
    BY <2>3 DEF G
<1> QED
  BY <1>1, <1>2, <1>3, <1>4, <1>5 DEF KeptInv

(* And so does the answer, which adds the top.                             *)
LEMMA AnswerKept ==
  ASSUME KeptInv, Abstract!Answer
  PROVE  KeptInv'
<1>1. /\ phase = "searching" /\ phase' = "answered" /\ query' = query
      /\ width' = width /\ top' = top /\ served' = served /\ observed' = observed
      /\ Seen' = Seen /\ Held' = Held \cup top
  BY SameOrder DEF Abstract!Answer, Held, Seen
<1>2. /\ IsQuery(query) /\ Held \subseteq observed /\ observed \subseteq DOMAIN query.dist
      /\ top \subseteq observed
  BY <1>1 DEF KeptInv
<1>3. Loose(query) => \A x \in observed \ (Held \cup top) :
                        Cardinality(AsNear(query, Held \cup top, x)) >= query.k
  <2> DEFINE G == Held \cup top
  <2>1. G \in SUBSET DOMAIN query.dist /\ Held \subseteq G
    BY <1>1, <1>2
  <2>2. Loose(query) => \A x \in observed \ Held :
                          Cardinality(AsNear(query, Held, x)) >= query.k
    BY <1>1 DEF KeptInv
  <2> HIDE DEF G
  <2>3. Loose(query) => \A x \in observed \ G : Cardinality(AsNear(query, G, x)) >= query.k
    BY <1>2, <2>1, <2>2, LargerKeeps
  <2> QED
    BY <2>3 DEF G
<1> QED
  BY <1>1, <1>2, <1>3 DEF KeptInv

(* Every search that implements the reference keeps the k nearest          *)
(* distances of all it has scored, whatever the filter, the cutoff, the    *)
(* trimming and the continuation drop (the beam update of                  *)
(* categorical_bench.cpp), when the cut is loose.                          *)
THEOREM NearestKept == ImplementsBeamSearch => []NearestAreKept
<1>1. Abstract!Init => KeptInv
  BY DEF Abstract!Init, KeptInv
<1>2. KeptInv /\ [Abstract!Next]_Abstract!vars => KeptInv'
  <2> SUFFICES ASSUME KeptInv, [Abstract!Next]_Abstract!vars PROVE KeptInv'
    OBVIOUS
  <2>1. ASSUME NEW q \in UNION ToSet(Queries), Abstract!Begin(q) PROVE KeptInv'
    BY <2>1, BeginKept
  <2>2. CASE Abstract!Expand
    BY <2>2, ExpandKept
  <2>3. ASSUME NEW H, NEW extra, Abstract!Widen(H, extra) PROVE KeptInv'
    BY <2>3, WidenKept
  <2>4. CASE Abstract!Answer
    BY <2>4, AnswerKept
  <2>5. CASE UNCHANGED Abstract!vars
    <3>1. /\ phase' = phase /\ query' = query /\ width' = width /\ top' = top
          /\ served' = served /\ observed' = observed /\ Seen' = Seen /\ Held' = Held
      BY <2>5, SameOrder DEF Abstract!vars, Held, Seen
    <3> QED
      BY <3>1 DEF KeptInv
  <2> QED
    BY <2>1, <2>2, <2>3, <2>4, <2>5, SameSets DEF Abstract!Next
<1>3. KeptInv => NearestAreKept
  BY SameLoose, SameSets DEF KeptInv, NearestAreKept, Abstract!NearestAreKept, AsNear, Held
<1> QED
  BY <1>1, <1>2, <1>3, PTL DEF ImplementsBeamSearch, Abstract!Spec

-----------------------------------------------------------------------------
(* Sorted candidates.                                                      *)

(* A sorted sequence has the vertices of its set, each once and in order.  *)
LEMMA SortedIs ==
  ASSUME NEW q, IsQuery(q), NEW S \in SUBSET DOMAIN q.dist
  PROVE  /\ Sorted(q, S) \in Seq(DOMAIN q.dist)
         /\ Len(Sorted(q, S)) = Cardinality(S)
         /\ ToSet(Sorted(q, S)) = S
         /\ \A n, m \in 1 .. Len(Sorted(q, S)) :
              n < m <=> Less(q, Sorted(q, S)[n], Sorted(q, S)[m])
<1> DEFINE s == Sorted(q, S)
           c == Cardinality(S)
           f == [x \in S |-> Cardinality(Before(q, S, x))]
<1>1. c \in Nat
  BY FiniteBefore
<1>2. ASSUME NEW n \in 1 .. c PROVE s[n] \in S /\ f[s[n]] = n - 1
  <2>1. n - 1 \in 0 .. c - 1
    BY <1>1
  <2>2. Ranked(q, S, n - 1) \in S /\ Cardinality(Before(q, S, Ranked(q, S, n - 1))) = n - 1
    BY <2>1, RankedIs
  <2>3. s[n] = Ranked(q, S, n - 1)
    BY DEF Sorted
  <2> QED
    BY <2>2, <2>3
<1>3. s \in [1 .. c -> DOMAIN q.dist]
  <2>1. \A n \in 1 .. c : Ranked(q, S, n - 1) \in DOMAIN q.dist
    BY <1>2 DEF Sorted
  <2> QED
    BY <2>1 DEF Sorted
<1>4. s \in Seq(DOMAIN q.dist) /\ Len(s) = c
  <2> HIDE DEF s, c
  <2> QED
    BY <1>1, <1>3
<1>5. \A x \in S : f[x] \in 0 .. c - 1
  BY Ranks
<1>6. \A x, y \in S : f[x] = f[y] => x = y
  BY Ranks
<1>7. ASSUME NEW x \in S PROVE \E n \in 1 .. c : s[n] = x
  <2> DEFINE m == f[x] + 1
  <2> HIDE DEF s, f, c
  <2>1. m \in 1 .. c /\ m - 1 = f[x]
    BY <1>1, <1>5
  <2> HIDE DEF m
  <2>2. s[m] \in S /\ f[s[m]] = f[x]
    BY <1>2, <2>1
  <2> QED
    BY <1>6, <2>1, <2>2
<1>8. ToSet(s) = S
  <2> HIDE DEF s, f, c
  <2> QED
    BY <1>2, <1>4, <1>7 DEF ToSet
<1>9. \A x, y \in S : f[x] < f[y] <=> Less(q, x, y)
  <2> TAKE x, y \in S
  <2>1. f[x] \in Nat /\ f[y] \in Nat
    BY <1>1, <1>5
  <2>2. Less(q, x, y) => f[x] + 1 <= f[y]
    BY RankRises
  <2>3. Less(q, y, x) => f[y] + 1 <= f[x]
    BY RankRises
  <2>4. Less(q, x, y) \/ Less(q, y, x) \/ x = y
    BY LessOrders
  <2> HIDE DEF f
  <2>5. Less(q, x, y) => f[x] < f[y]
    BY <2>1, <2>2
  <2>6. ~Less(q, x, y) => ~ (f[x] < f[y])
    BY <2>1, <2>3, <2>4
  <2> QED
    BY <2>5, <2>6
<1>10. \A n, m \in 1 .. c : n < m <=> Less(q, s[n], s[m])
  <2> TAKE n, m \in 1 .. c
  <2> HIDE DEF s, f
  <2>1. f[s[n]] < f[s[m]] <=> Less(q, s[n], s[m])
    BY <1>2, <1>9
  <2>2. f[s[n]] = n - 1 /\ f[s[m]] = m - 1
    BY <1>2
  <2> QED
    BY <1>1, <2>1, <2>2
<1> QED
  BY <1>4, <1>8, <1>10

(* The cutoff is a distance.                                               *)
LEMMA CutoffIs ==
  ASSUME NEW q, IsQuery(q), NEW S \in SUBSET DOMAIN q.dist, NEW w \in Nat, q.k <= w
  PROVE  Cutoff(q, S, w) \in Nat
<1> DEFINE n == Cardinality(S)
<1>1. n \in Nat /\ q.k \in Nat \ {0}
  BY FiniteBefore, NodesAre
<1>2. CASE n < w
  BY <1>2 DEF Cutoff, Infinite
<1>3. CASE ~ (n < w)
  <2>1. n - 1 \in 0 .. n - 1
    BY <1>1, <1>3
  <2>2. Ranked(q, S, n - 1) \in S
    BY <2>1, RankedIs
  <2>3. q.dist[Ranked(q, S, n - 1)] \in Nat
    BY <2>2, NodesAre
  <2> QED
    BY <1>3, <2>3 DEF Cutoff
<1> QED
  BY <1>2, <1>3

(* Rejecting by prefix first loses no candidate, and a memo hit passes     *)
(* without its prefix: a prefix never exceeds its distance.                *)
LEMMA StagedIs ==
  ASSUME NEW q, IsQuery(q), NEW keep, ToSet(keep) \subseteq DOMAIN q.dist,
         NEW c \in Nat
  PROVE  /\ ToSet(StagedCandidates(q, keep, c)) = {y \in ToSet(keep) : q.dist[y] < c}
         /\ \A m : ToSet(MemoCandidates(m, q, keep, c))
              = {y \in ToSet(keep) : q.dist[y] < c}
<1> DEFINE C == {y \in ToSet(keep) : q.dist[y] < c}
<1>1. \A y \in DOMAIN q.dist : q.prefix[y] \in Nat /\ q.dist[y] \in Nat
        /\ q.prefix[y] <= q.dist[y]
  <2>1. q.prefix \in [DOMAIN q.dist -> Nat]
    BY DEF IsQuery
  <2>2. \A y \in DOMAIN q.dist : q.prefix[y] <= q.dist[y]
    BY DEF IsQuery
  <2> QED
    BY <2>1, <2>2, NodesAre
<1>2. {y \in ToSet(keep) : q.prefix[y] < c /\ q.dist[y] < c} = C
  BY <1>1
<1>3. \A m : {y \in ToSet(keep) : q.dist[y] < c /\ (Hit(m, y) \/ q.prefix[y] < c)} = C
  BY <1>1
<1>4. ToSet(Sorted(q, C)) = C
  BY SortedIs
<1> QED
  BY <1>2, <1>3, <1>4 DEF StagedCandidates, MemoCandidates

-----------------------------------------------------------------------------
(* The stamped filter.                                                     *)

(* Cells no later than the filter's epoch.                                 *)
Cells(h) == [0 .. SlotMax - 1 -> [id : Int, epoch : 0 .. h.epoch]]

(* States of a look through the stamped cells.                             *)
FilterLooks(h, q) == [keep : Seq(Vertices(q)), cells : Cells(h)]

(* One place of a row, looked at or not, through the cells.                *)
FilterSeeOne(h, q, x, a, k) ==
  IF k \notin Row(q, x) THEN a ELSE FilterLook(h, q, a, q.edges[x][k])

(* The filter's slots are among its cells.                                 *)
FitsFilter(h, q) == h.epoch \in Nat /\ h.cells \in Cells(h) /\ q.slots <= SlotMax

(* A look keeps the state of the look one.                                 *)
LEMMA FilterSeeIsTyped ==
  ASSUME NEW q, IsQuery(q), NEW h, FitsFilter(h, q), NEW x \in Vertices(q),
         NEW a \in FilterLooks(h, q), NEW k \in 1 .. Len(q.edges[x])
  PROVE  FilterSeeOne(h, q, x, a, k) \in FilterLooks(h, q)
<1> DEFINE y == q.edges[x][k]
           cell == [id |-> y, epoch |-> h.epoch]
<1>1. y \in Vertices(q) /\ y \in Int /\ Slot(q, y) \in 0 .. SlotMax - 1
  BY EdgesAre, FilterAssumption DEF Slots, FitsFilter
<1>2. cell \in [id : Int, epoch : 0 .. h.epoch]
  BY <1>1 DEF FitsFilter
<1> HIDE DEF y, cell
<1>3. a.keep \in Seq(Vertices(q)) /\ a.cells \in Cells(h)
  BY DEF FilterLooks
<1>4. Append(a.keep, y) \in Seq(Vertices(q))
  BY <1>1, <1>3
<1>5. [a.cells EXCEPT ![Slot(q, y)] = cell] \in Cells(h)
  BY <1>1, <1>2, <1>3 DEF Cells
<1>6. FilterLook(h, q, a, y) \in FilterLooks(h, q)
  BY <1>4, <1>5 DEF FilterLook, FilterLooks, cell
<1> QED
  BY <1>6 DEF FilterSeeOne, y

(* The values of FilterUnseen's recursion, place by place.                 *)
IsFilterLook(h, q, x, a) ==
  /\ a \in [0 .. Len(q.edges[x]) -> FilterLooks(h, q)]
  /\ a[0] = [keep |-> <<>>, cells |-> h.cells]
  /\ \A k \in 0 .. Len(q.edges[x]) - 1 :
       a[k + 1] = FilterSeeOne(h, q, x, a[k], k + 1)

(* FilterUnseen is the last of these values.                               *)
LEMMA FilterUnseenIs ==
  ASSUME NEW q, IsQuery(q), NEW h, FitsFilter(h, q), NEW x \in Vertices(q)
  PROVE  \E a : IsFilterLook(h, q, x, a)
                /\ FilterUnseen(h, q, x) = a[Len(q.edges[x])]
<1> DEFINE n == Len(q.edges[x])
           b == [keep |-> <<>>, cells |-> h.cells]
           T == FilterLooks(h, q)
           Eq(r) == r = [k \in 0 .. n |-> IF k = 0 THEN b
                                          ELSE IF k \notin Row(q, x) THEN r[k - 1]
                                          ELSE FilterLook(h, q, r[k - 1], q.edges[x][k])]
           G == [p \in (0 .. n - 1) \X T |-> FilterSeeOne(h, q, x, p[2], p[1] + 1)]
<1>1. n \in Nat /\ b \in T
  BY EdgesAre DEF FilterLooks, FitsFilter
<1>2. \A p \in (0 .. n - 1) \X T : FilterSeeOne(h, q, x, p[2], p[1] + 1) \in T
  <2> TAKE p \in (0 .. n - 1) \X T
  <2>1. p[2] \in T /\ p[1] + 1 \in 1 .. n
    BY <1>1
  <2> QED
    BY <2>1, FilterSeeIsTyped
<1>3. PICK r \in [0 .. n -> T] :
        r[0] = b /\ \A k \in 0 .. n - 1 : r[k + 1] = FilterSeeOne(h, q, x, r[k], k + 1)
  <2>1. b \in T /\ n \in Nat /\ IsStep(G, n, T)
    BY <1>1, <1>2 DEF IsStep
  <2>2. \A k \in 0 .. n - 1, s \in T : G[<<k, s>>] = FilterSeeOne(h, q, x, s, k + 1)
    OBVIOUS
  <2> HIDE DEF G, b, n, T
  <2>3. PICK r \in [0 .. n -> T] : IsRun(r, n, b, G)
    BY <2>1, RunExists
  <2>4. r[0] = b /\ \A k \in 0 .. n - 1 : r[k + 1] = FilterSeeOne(h, q, x, r[k], k + 1)
    <3>1. \A k \in 0 .. n - 1 : r[k] \in T
      BY <1>1
    <3> QED
      BY <2>2, <2>3, <3>1 DEF IsRun
  <2> QED
    BY <2>4
<1>4. Eq(r)
  <2>1. ASSUME NEW k \in 0 .. n
        PROVE  r[k] = IF k = 0 THEN b
                      ELSE IF k \notin Row(q, x) THEN r[k - 1]
                      ELSE FilterLook(h, q, r[k - 1], q.edges[x][k])
    <3>1. CASE k = 0
      BY <1>3, <3>1
    <3>2. CASE k # 0
      <4>1. k - 1 \in 0 .. n - 1 /\ k - 1 + 1 = k
        BY <1>1, <3>2
      <4> HIDE DEF b, n
      <4>2. r[k] = FilterSeeOne(h, q, x, r[k - 1], k)
        BY <1>3, <4>1
      <4> QED
        BY <3>2, <4>2 DEF FilterSeeOne
    <3> QED
      BY <3>1, <3>2
  <2> HIDE DEF b, n
  <2> QED
    BY <1>3, <2>1
<1>5. Eq(CHOOSE g : Eq(g))
  <2> HIDE DEF Eq
  <2> QED
    BY <1>4
<1> DEFINE g == CHOOSE j : Eq(j)
<1>6. FilterUnseen(h, q, x) = g[n]
  BY DEF FilterUnseen
<1>7. g = [k \in 0 .. n |-> IF k = 0 THEN b
                            ELSE IF k \notin Row(q, x) THEN g[k - 1]
                            ELSE FilterLook(h, q, g[k - 1], q.edges[x][k])]
  BY <1>5
<1> HIDE DEF g, b, n
<1>8. g[0] = b /\ \A k \in 0 .. n - 1 : g[k + 1] = FilterSeeOne(h, q, x, g[k], k + 1)
  <2>1. 0 \in 0 .. n
    BY <1>1
  <2>2. ASSUME NEW k \in 0 .. n - 1 PROVE g[k + 1] = FilterSeeOne(h, q, x, g[k], k + 1)
    <3> DEFINE j == k + 1
    <3>1. j \in 0 .. n /\ j # 0 /\ j - 1 = k
      BY <1>1
    <3> HIDE DEF j
    <3>2. g[j] = FilterSeeOne(h, q, x, g[j - 1], j)
      BY <1>7, <3>1 DEF FilterSeeOne
    <3> QED
      BY <3>1, <3>2 DEF j
  <2> QED
    BY <1>7, <2>1, <2>2
<1>9. g \in [0 .. n -> T]
  <2> HIDE DEF T
  <2> DEFINE S == {k \in 0 .. n : g[k] \in T}
  <2>1. 0 \in S
    BY <1>1, <1>8
  <2>2. ASSUME NEW k \in 0 .. n - 1, k \in S PROVE k + 1 \in S
    <3>1. k + 1 \in 1 .. n /\ k + 1 \in 0 .. n
      BY <1>1
    <3>2. FilterSeeOne(h, q, x, g[k], k + 1) \in T
      BY <2>2, <3>1, FilterSeeIsTyped DEF n, T
    <3> QED
      BY <1>8, <3>1, <3>2
  <2> HIDE DEF S
  <2>3. \A k \in 0 .. n : k \in S
    BY <1>1, <2>1, <2>2, CountUp
  <2>4. \A k \in 0 .. n : g[k] \in T
    BY <2>3 DEF S
  <2> QED
    BY <1>7, <2>4
<1> QED
  BY <1>6, <1>8, <1>9 DEF IsFilterLook, b, n, T

(* What the cells stand for: the vertices of this epoch.                   *)
Stands(h, q, cells) ==
  [n \in Slots(q) |-> IF cells[n].epoch = h.epoch THEN cells[n].id ELSE None]

(* One place looked at through the cells does what it does through the     *)
(* filter they stand for.                                                  *)
LEMMA OneLooksAlike ==
  ASSUME NEW q, IsQuery(q), NEW h, FitsFilter(h, q), NEW x \in Vertices(q),
         NEW k \in 1 .. Len(q.edges[x]),
         NEW a \in Looks(q), NEW c \in FilterLooks(h, q),
         a.keep = c.keep, a.filter = Stands(h, q, c.cells)
  PROVE  LET d == SeeOne(q, x, a, k)
             e == FilterSeeOne(h, q, x, c, k)
         IN d.keep = e.keep /\ d.filter = Stands(h, q, e.cells)
<1> DEFINE y == q.edges[x][k]
           s == Slot(q, y)
           cell == [id |-> y, epoch |-> h.epoch]
<1>1. y \in Nat /\ s \in Slots(q) /\ s \in 0 .. SlotMax - 1
  BY EdgesAre, FilterAssumption DEF Slots, FitsFilter
<1>2. c.cells \in Cells(h) /\ a.filter \in [Slots(q) -> Int]
  BY DEF Looks, FilterLooks
<1>3. c.cells[s] \in [id : Int, epoch : 0 .. h.epoch]
  BY <1>1, <1>2 DEF Cells
<1>4. a.filter[s] = y <=> c.cells[s] = cell
  <2>1. a.filter[s] = IF c.cells[s].epoch = h.epoch THEN c.cells[s].id ELSE None
    BY <1>1 DEF Stands
  <2>2. c.cells[s] = cell <=> c.cells[s].id = y /\ c.cells[s].epoch = h.epoch
    BY <1>3
  <2> HIDE DEF s, cell, y
  <2> QED
    BY <1>1, <2>1, <2>2 DEF None
<1>5. CASE k \notin Row(q, x) \/ y = q.self \/ a.filter[s] = y
  <2>1. SeeOne(q, x, a, k) = a
    BY <1>5 DEF SeeOne, Look
  <2>2. FilterSeeOne(h, q, x, c, k) = c
    BY <1>4, <1>5 DEF FilterSeeOne, FilterLook
  <2> QED
    BY <2>1, <2>2
<1>6. CASE ~ (k \notin Row(q, x) \/ y = q.self \/ a.filter[s] = y)
  <2>1. SeeOne(q, x, a, k) = [keep |-> Append(a.keep, y),
                              filter |-> [a.filter EXCEPT ![s] = y]]
    BY <1>6 DEF SeeOne, Look
  <2>2. FilterSeeOne(h, q, x, c, k)
          = [keep |-> Append(c.keep, y), cells |-> [c.cells EXCEPT ![s] = cell]]
    BY <1>4, <1>6 DEF FilterSeeOne, FilterLook
  <2>3. [a.filter EXCEPT ![s] = y] = Stands(h, q, [c.cells EXCEPT ![s] = cell])
    <3> DEFINE cells == [c.cells EXCEPT ![s] = cell]
    <3>1. \A n \in Slots(q) : n \in 0 .. SlotMax - 1
      BY EdgesAre, FilterAssumption DEF Slots, FitsFilter
    <3>2. \A n \in Slots(q) : n # s => cells[n] = c.cells[n]
      BY <1>2, <3>1 DEF Cells
    <3>3. cells[s] = cell
      BY <1>1, <1>2 DEF Cells
    <3>4. cell.id = y /\ cell.epoch = h.epoch
      OBVIOUS
    <3> HIDE DEF cells, cell, s, y
    <3>5. \A n \in Slots(q) : [a.filter EXCEPT ![s] = y][n] = Stands(h, q, cells)[n]
      BY <1>1, <1>2, <3>2, <3>3, <3>4 DEF Stands
    <3>6. [a.filter EXCEPT ![s] = y] \in [Slots(q) -> Int]
      BY <1>1, <1>2
    <3> QED
      BY <3>5, <3>6 DEF Stands, cells
  <2> QED
    BY <2>1, <2>2, <2>3
<1> QED
  BY <1>5, <1>6

(* So the cells find what the filter finds, and stand for it then.         *)
LEMMA FilterSees ==
  ASSUME NEW q, IsQuery(q), NEW h, FitsFilter(h, q), NEW x \in Vertices(q)
  PROVE  LET f == FilterUnseen(h, q, x)
             u == Unseen(q, x, Stands(h, q, h.cells))
         IN /\ f \in FilterLooks(h, q)
            /\ f.keep = u.keep
            /\ u.filter = Stands(h, q, f.cells)
<1> DEFINE n == Len(q.edges[x])
           f0 == Stands(h, q, h.cells)
<1>1. f0 \in [Slots(q) -> Int]
  <2>1. \A m \in Slots(q) : m \in 0 .. SlotMax - 1
    BY EdgesAre, FilterAssumption DEF Slots, FitsFilter
  <2>2. \A m \in Slots(q) : h.cells[m] \in [id : Int, epoch : 0 .. h.epoch]
    BY <2>1 DEF FitsFilter, Cells
  <2> QED
    BY <2>2 DEF Stands, None
<1>2. PICK a : IsLook(q, x, f0, a) /\ Unseen(q, x, f0) = a[n]
  BY <1>1, UnseenIs
<1>3. PICK c : IsFilterLook(h, q, x, c) /\ FilterUnseen(h, q, x) = c[n]
  BY FilterUnseenIs
<1>4. n \in Nat
  BY EdgesAre
<1>5. \A k \in 0 .. n : a[k] \in Looks(q) /\ c[k] \in FilterLooks(h, q)
  BY <1>2, <1>3 DEF IsLook, IsFilterLook
<1> DEFINE S == {k \in 0 .. n : a[k].keep = c[k].keep
                                /\ a[k].filter = Stands(h, q, c[k].cells)}
<1>6. 0 \in S
  <2>1. a[0] = [keep |-> <<>>, filter |-> f0] /\ c[0] = [keep |-> <<>>, cells |-> h.cells]
    BY <1>2, <1>3 DEF IsLook, IsFilterLook
  <2>2. 0 \in 0 .. n
    BY <1>4
  <2>3. a[0].keep = c[0].keep /\ a[0].filter = Stands(h, q, c[0].cells)
    BY <2>1
  <2> QED
    BY <2>2, <2>3
<1>7. ASSUME NEW k \in 0 .. n - 1, k \in S PROVE k + 1 \in S
  <2>1. k + 1 \in 1 .. n /\ k + 1 \in 0 .. n /\ k \in 0 .. n
    BY <1>4
  <2>2. a[k + 1] = SeeOne(q, x, a[k], k + 1)
          /\ c[k + 1] = FilterSeeOne(h, q, x, c[k], k + 1)
    BY <1>2, <1>3 DEF IsLook, IsFilterLook
  <2>3. a[k].keep = c[k].keep /\ a[k].filter = Stands(h, q, c[k].cells)
    BY <1>7
  <2>4. a[k + 1].keep = c[k + 1].keep /\ a[k + 1].filter = Stands(h, q, c[k + 1].cells)
    BY <1>5, <2>1, <2>2, <2>3, OneLooksAlike
  <2> QED
    BY <2>1, <2>4
<1>8. n \in S
  <2> HIDE DEF S
  <2>1. \A k \in 0 .. n : k \in S
    BY <1>4, <1>6, <1>7, CountUp
  <2> QED
    BY <1>4, <2>1
<1> QED
  BY <1>2, <1>3, <1>4, <1>5, <1>8

-----------------------------------------------------------------------------
(* Numbers, and places in a sorted sequence.                               *)

(* Quotient and remainder.                                                 *)
LEMMA Division ==
  ASSUME NEW a \in Nat, NEW w \in Nat \ {0},
         NEW c, NEW d, c = a \div w, d = a % w
  PROVE  c \in Int /\ d \in 0 .. w - 1 /\ a = w * c + d
<1>1. c \in Int
  BY SMT
<1>2. d \in 0 .. w - 1
  BY SMT
<1>3. a = w * c + d
  <2>1. d \in Int
    BY <1>2
  <2> QED
    BY <1>1, <2>1, SMT
<1> QED
  BY <1>1, <1>2, <1>3

(* Distances between multiples of w.                                       *)
LEMMA Multiples ==
  ASSUME NEW w \in Nat \ {0}, NEW c \in Int, NEW d \in Int
  PROVE  /\ w * (d - c) = w * d - w * c
         /\ d - c >= 1 => w * d - w * c >= w
         /\ d - c <= 0 => w * d - w * c <= 0
<1> DEFINE e == d - c
<1>1. e \in Int
  OBVIOUS
<1>2. w * (d - c) = w * d - w * c
  BY SMT
<1>3. w * e = w * d - w * c
  BY <1>2
<1> HIDE DEF e
<1>4. e >= 1 => w * e >= w
  BY <1>1, SMT
<1>5. e <= 0 => w * e <= 0
  BY <1>1, SMT
<1> USE DEF e
<1> QED
  BY <1>2, <1>3, <1>4, <1>5

(* A member that none exceeds is the greatest.                             *)
LEMMA GreatestIs ==
  ASSUME NEW S \in SUBSET Int, NEW m \in S, \A x \in S : x <= m
  PROVE  Max(S) = m
<1>1. \A x \in S : (\A y \in S : x >= y) => x = m
  OBVIOUS
<1>2. \A y \in S : m >= y
  OBVIOUS
<1> QED
  BY <1>1, <1>2 DEF Max

(* A vertex is the one of its rank.                                        *)
LEMMA RankIs ==
  ASSUME NEW q, IsQuery(q), NEW S \in SUBSET DOMAIN q.dist, NEW x \in S
  PROVE  Ranked(q, S, Cardinality(Before(q, S, x))) = x
<1> DEFINE n == Cardinality(Before(q, S, x))
           y == Ranked(q, S, n)
<1>1. n \in 0 .. Cardinality(S) - 1
  BY Ranks
<1> HIDE DEF n
<1>2. y \in S /\ Cardinality(Before(q, S, y)) = n
  BY <1>1, RankedIs
<1> HIDE DEF y
<1>3. y = x
  BY <1>2, Ranks DEF n
<1> QED
  BY <1>3 DEF y, n

(* What all others come before is the farthest, and ranks last.            *)
LEMMA LastIs ==
  ASSUME NEW q, IsQuery(q), NEW S \in SUBSET DOMAIN q.dist, NEW x \in S,
         \A y \in S : y # x => Less(q, y, x)
  PROVE  Ranked(q, S, Cardinality(S) - 1) = x
<1>1. Before(q, S, x) = S \ {x}
  BY LessOrders DEF Before
<1>2. IsFiniteSet(S) /\ Cardinality(S \ {x}) = Cardinality(S) - 1
  BY FiniteBefore, FS_RemoveElement
<1>3. Cardinality(Before(q, S, x)) = Cardinality(S) - 1
  BY <1>1, <1>2
<1> QED
  BY <1>3, RankIs

(* The farthest of some is one of them and all others come before it.      *)
LEMMA FarthestIs ==
  ASSUME NEW q, IsQuery(q), NEW S \in SUBSET DOMAIN q.dist, S # {}
  PROVE  LET x == Ranked(q, S, Cardinality(S) - 1)
         IN x \in S /\ \A y \in S : y # x => Less(q, y, x)
<1> DEFINE c == Cardinality(S)
           x == Ranked(q, S, c - 1)
<1>1. IsFiniteSet(S) /\ c \in Nat /\ c # 0
  BY FiniteBefore, FS_EmptySet
<1>2. c - 1 \in 0 .. c - 1
  BY <1>1
<1>3. x \in S /\ Cardinality(Before(q, S, x)) = c - 1
  BY <1>2, RankedIs
<1> HIDE DEF x
<1>4. Before(q, S, x) \subseteq S \ {x}
  BY LessOrders DEF Before
<1>5. IsFiniteSet(S \ {x}) /\ Cardinality(S \ {x}) = c - 1
  BY <1>1, <1>3, FS_RemoveElement
<1>6. Before(q, S, x) = S \ {x}
  BY <1>3, <1>4, <1>5, FS_Subset
<1> QED
  BY <1>3, <1>6 DEF Before, x

(* Inserting into a sequence, element by element,                          *)
LEMMA InsertIs ==
  ASSUME NEW S, NEW s \in Seq(S), NEW x \in S, NEW p \in 1 .. Len(s) + 1
  PROVE  LET t == InsertAt(s, p, x)
         IN /\ t \in Seq(S) /\ Len(t) = Len(s) + 1
            /\ \A n \in 1 .. Len(s) + 1 :
                 t[n] = IF n < p THEN s[n] ELSE IF n = p THEN x ELSE s[n - 1]
<1> DEFINE a == SubSeq(s, 1, p - 1)
           b == SubSeq(s, p, Len(s))
           c == a \o <<x>>
           t == c \o b
<1>1. Len(s) \in Nat /\ p \in Int /\ \A n \in 1 .. Len(s) : s[n] \in S
  OBVIOUS
<1>2. /\ a \in Seq(S) /\ Len(a) = p - 1
      /\ \A n \in 1 .. p - 1 : a[n] = s[n]
  <2>1. p - 1 \in Int /\ 1 \in Int /\ \A n \in 1 .. p - 1 : s[n] \in S
    BY <1>1
  <2>2. /\ a \in Seq(S) /\ Len(a) = IF 1 <= p - 1 THEN p - 1 - 1 + 1 ELSE 0
        /\ \A n \in 1 .. p - 1 - 1 + 1 : a[n] = s[1 + n - 1]
    BY <2>1, SubSeqProperties
  <2> HIDE DEF a
  <2> QED
    BY <1>1, <2>2
<1>3. /\ b \in Seq(S) /\ Len(b) = Len(s) - p + 1
      /\ \A n \in 1 .. Len(s) - p + 1 : b[n] = s[p + n - 1]
  <2>1. \A n \in p .. Len(s) : s[n] \in S
    BY <1>1
  <2>2. /\ b \in Seq(S) /\ Len(b) = IF p <= Len(s) THEN Len(s) - p + 1 ELSE 0
        /\ \A n \in 1 .. Len(s) - p + 1 : b[n] = s[p + n - 1]
    BY <1>1, <2>1, SubSeqProperties
  <2> HIDE DEF b
  <2> QED
    BY <1>1, <2>2
<1> HIDE DEF a, b
<1>4. /\ c \in Seq(S) /\ Len(c) = p
      /\ \A n \in 1 .. p : c[n] = IF n < p THEN s[n] ELSE x
  <2>1. <<x>> \in Seq(S) /\ Len(<<x>>) = 1 /\ <<x>>[1] = x
    OBVIOUS
  <2>2. /\ c \in Seq(S) /\ Len(c) = Len(a) + Len(<<x>>)
        /\ \A n \in 1 .. Len(a) + Len(<<x>>) :
             c[n] = IF n <= Len(a) THEN a[n] ELSE <<x>>[n - Len(a)]
    BY <1>2, <2>1, ConcatProperties
  <2> HIDE DEF c
  <2> QED
    BY <1>1, <1>2, <2>1, <2>2
<1> HIDE DEF c
<1>5. /\ t \in Seq(S) /\ Len(t) = Len(c) + Len(b)
      /\ \A n \in 1 .. Len(c) + Len(b) : t[n] = IF n <= Len(c) THEN c[n] ELSE b[n - Len(c)]
  BY <1>3, <1>4, ConcatProperties
<1> HIDE DEF t
<1>6. t \in Seq(S) /\ Len(t) = Len(s) + 1
  BY <1>1, <1>3, <1>4, <1>5
<1>7. ASSUME NEW n \in 1 .. Len(s) + 1
      PROVE t[n] = IF n < p THEN s[n] ELSE IF n = p THEN x ELSE s[n - 1]
  <2>1. t[n] = IF n <= p THEN c[n] ELSE b[n - p]
    BY <1>1, <1>3, <1>4, <1>5
  <2>2. CASE n <= p
    BY <1>4, <2>1, <2>2
  <2>3. CASE n > p
    <3>1. t[n] = b[n - p] /\ n - p \in 1 .. Len(s) - p + 1
      BY <1>1, <2>1, <2>3
    <3>2. b[n - p] = s[p + (n - p) - 1] /\ p + (n - p) - 1 = n - 1
      BY <1>3, <3>1
    <3> QED
      BY <1>1, <2>3, <3>1, <3>2
  <2> QED
    BY <1>1, <2>2, <2>3
<1>8. InsertAt(s, p, x) = t
  BY DEF InsertAt, t, c, a, b
<1> QED
  BY <1>6, <1>7, <1>8

(* and dropping its last.                                                  *)
LEMMA FrontIs ==
  ASSUME NEW S, NEW s \in Seq(S), Len(s) # 0
  PROVE  /\ Front(s) \in Seq(S) /\ Len(Front(s)) = Len(s) - 1
         /\ \A n \in 1 .. Len(s) - 1 : Front(s)[n] = s[n]
<1> DEFINE t == SubSeq(s, 1, Len(s) - 1)
<1>1. Len(s) \in Nat /\ 1 \in Int /\ Len(s) - 1 \in Int
      /\ \A n \in 1 .. Len(s) - 1 : s[n] \in S
  OBVIOUS
<1>2. /\ t \in Seq(S) /\ Len(t) = IF 1 <= Len(s) - 1 THEN Len(s) - 1 - 1 + 1 ELSE 0
      /\ \A n \in 1 .. Len(s) - 1 - 1 + 1 : t[n] = s[1 + n - 1]
  BY <1>1, SubSeqProperties
<1>3. Front(s) = t
  BY DEF Front
<1> HIDE DEF t
<1> QED
  BY <1>1, <1>2, <1>3

(* Inserting a vertex at its place keeps a sequence sorted.                *)
LEMMA InsertSorts ==
  ASSUME NEW q, IsQuery(q), NEW S \in SUBSET DOMAIN q.dist,
         NEW x \in DOMAIN q.dist, x \notin S
  PROVE  InsertAt(Sorted(q, S), Place(q, Sorted(q, S), x), x) = Sorted(q, S \cup {x})
<1> DEFINE s == Sorted(q, S)
           c == Cardinality(S)
           T == S \cup {x}
           P == {n \in 1 .. Len(s) : Less(q, s[n], x)}
           p == Place(q, s, x)
           t == InsertAt(s, p, x)
<1>1. /\ s \in Seq(DOMAIN q.dist) /\ Len(s) = c /\ ToSet(s) = S
      /\ \A n, m \in 1 .. Len(s) : n < m <=> Less(q, s[n], s[m])
  BY SortedIs
<1>2. c \in Nat /\ IsFiniteSet(S) /\ T \in SUBSET DOMAIN q.dist /\ x \in T
  BY FiniteBefore
<1>3. Cardinality(T) = c + 1
  BY <1>2, FS_AddElement
<1>4. \A n \in 1 .. c : /\ s[n] \in S /\ Cardinality(Before(q, S, s[n])) = n - 1
  <2> TAKE n \in 1 .. c
  <2>1. n - 1 \in 0 .. c - 1
    BY <1>2
  <2>2. s[n] = Ranked(q, S, n - 1)
    BY DEF Sorted
  <2> QED
    BY <2>1, <2>2, RankedIs
<1>5. Cardinality(P) = Cardinality(Before(q, S, x)) /\ IsFiniteSet(P)
  <2>1. P \subseteq 1 .. c
    BY <1>1
  <2>2. IsFiniteSet(P)
    <3> HIDE DEF P, c
    <3>1. c \in Int /\ 1 \in Int
      BY <1>2
    <3>2. IsFiniteSet(1 .. c)
      BY <3>1, FS_Interval
    <3> QED
      BY <2>1, <3>2, FS_Subset
  <2>3. \A n, m \in P : s[n] = s[m] => n = m
    <3> TAKE n, m \in P
    <3>1. n \in 1 .. Len(s) /\ m \in 1 .. Len(s)
      OBVIOUS
    <3>2. s[n] \in DOMAIN q.dist /\ s[m] \in DOMAIN q.dist
      BY <1>1, <3>1
    <3>3. ~Less(q, s[n], s[n])
      BY <3>2, LessOrders
    <3> HIDE DEF s
    <3> QED
      BY <1>1, <1>2, <3>1, <3>3
  <2>4. {s[n] : n \in P} = Before(q, S, x)
    <3>1. \A y \in S : \E n \in 1 .. Len(s) : s[n] = y
      BY <1>1 DEF ToSet
    <3> HIDE DEF s
    <3> QED
      BY <1>1, <1>4, <3>1 DEF Before
  <2> HIDE DEF P, s
  <2> QED
    BY <2>2, <2>3, <2>4, ImageCard
<1>6. p = 1 + Cardinality(Before(q, S, x))
  BY <1>5 DEF Place
<1>7. Cardinality(Before(q, S, x)) \in Nat /\ Cardinality(Before(q, S, x)) <= c
  <2>1. Before(q, S, x) \subseteq S
    BY DEF Before
  <2> QED
    BY <1>2, <2>1, FiniteBefore, FS_Subset
<1>8. p \in 1 .. c + 1
  <2> HIDE DEF p, c
  <2> QED
    BY <1>2, <1>6, <1>7
<1>9. ASSUME NEW n \in 1 .. c
      PROVE /\ n < p => Less(q, s[n], x)
            /\ n >= p => Less(q, x, s[n])
  <2>1. s[n] \in S /\ s[n] # x /\ Cardinality(Before(q, S, s[n])) = n - 1
    BY <1>4
  <2>2. CASE Less(q, s[n], x)
    <3>1. n - 1 + 1 <= Cardinality(Before(q, S, x))
      BY <2>1, <2>2, RankRises
    <3> HIDE DEF p, s
    <3> QED
      BY <1>6, <1>7, <2>2, <3>1
  <2>3. CASE Less(q, x, s[n])
    <3>1. Before(q, S, x) \subseteq Before(q, S, s[n])
      BY <2>1, <2>3, LessOrders DEF Before
    <3>2. Cardinality(Before(q, S, x)) <= n - 1
      BY <2>1, <3>1, FiniteBefore, FS_Subset
    <3> HIDE DEF p, s
    <3> QED
      BY <1>6, <1>7, <2>3, <3>2
  <2> QED
    BY <2>1, <2>2, <2>3, LessOrders
<1>10. /\ t \in Seq(DOMAIN q.dist) /\ Len(t) = c + 1
       /\ \A n \in 1 .. c + 1 : t[n] = IF n < p THEN s[n] ELSE IF n = p THEN x ELSE s[n - 1]
  <2> HIDE DEF s, p, c, t
  <2> QED
    <3>1. p \in 1 .. Len(s) + 1
      BY <1>1, <1>8
    <3> QED
      <4>1. s \in Seq(DOMAIN q.dist) /\ Len(s) = c
        BY <1>1
      <4>2. /\ t \in Seq(DOMAIN q.dist) /\ Len(t) = Len(s) + 1
            /\ \A n \in 1 .. Len(s) + 1 :
                 t[n] = IF n < p THEN s[n] ELSE IF n = p THEN x ELSE s[n - 1]
        BY <3>1, <4>1, InsertIs DEF t
      <4> QED
        BY <4>1, <4>2
<1>11. ASSUME NEW n \in 1 .. c + 1 PROVE t[n] = Ranked(q, T, n - 1)
  <2>1. CASE n < p
    <3>1. n \in 1 .. c /\ t[n] = s[n]
      <4> HIDE DEF t, s, p, c
      <4> QED
        BY <1>2, <1>8, <1>10, <2>1
    <3>2. Less(q, s[n], x) /\ s[n] \in S
      BY <1>4, <1>9, <2>1, <3>1
    <3>3. Before(q, T, s[n]) = Before(q, S, s[n])
      BY <3>2, LessOrders DEF Before
    <3>4. Cardinality(Before(q, T, s[n])) = n - 1 /\ s[n] \in T
      BY <1>4, <3>1, <3>2, <3>3
    <3> HIDE DEF t, s, T
    <3> QED
      BY <1>2, <3>1, <3>4, RankIs
  <2>2. CASE n = p
    <3>1. t[n] = x
      <4> HIDE DEF t, s, p, c
      <4> QED
        BY <1>10, <2>2
    <3>2. Before(q, T, x) = Before(q, S, x)
      BY LessOrders DEF Before
    <3>3. Cardinality(Before(q, T, x)) = n - 1
      <4> HIDE DEF p
      <4> QED
        BY <1>6, <1>7, <2>2, <3>2
    <3> HIDE DEF t, T
    <3> QED
      BY <1>2, <3>1, <3>3, RankIs
  <2>3. CASE n > p
    <3> DEFINE m == n - 1
    <3>1. m \in 1 .. c /\ m >= p /\ t[n] = s[m]
      <4> HIDE DEF t, s, p, c
      <4> QED
        BY <1>2, <1>8, <1>10, <2>3
    <3> HIDE DEF m
    <3>2. Less(q, x, s[m]) /\ s[m] \in S /\ Cardinality(Before(q, S, s[m])) = m - 1
      BY <1>4, <1>9, <3>1
    <3>3. /\ Before(q, T, s[m]) = Before(q, S, s[m]) \cup {x}
          /\ x \notin Before(q, S, s[m])
      BY <3>2 DEF Before
    <3>4. Cardinality(Before(q, T, s[m])) = m /\ s[m] \in T
      <4>1. IsFiniteSet(Before(q, S, s[m]))
        BY FiniteBefore
      <4>2. Cardinality(Before(q, T, s[m])) = m - 1 + 1
        BY <3>2, <3>3, <4>1, FS_AddElement
      <4> QED
        BY <3>1, <3>2, <4>2
    <3> HIDE DEF t, s, T
    <3> QED
      BY <1>2, <3>1, <3>4, RankIs DEF m
  <2> HIDE DEF p
  <2> QED
    BY <1>8, <2>1, <2>2, <2>3
<1>12. t = [n \in 1 .. Cardinality(T) |-> Ranked(q, T, n - 1)]
  <2> HIDE DEF t, T, p, s, c
  <2>1. t = [n \in 1 .. c + 1 |-> t[n]]
    BY <1>2, <1>10
  <2> QED
    BY <1>3, <1>11, <2>1
<1> QED
  BY <1>12 DEF Sorted

(* Without its farthest a sequence is sorted as it was.                    *)
LEMMA FrontSorts ==
  ASSUME NEW q, IsQuery(q), NEW S \in SUBSET DOMAIN q.dist, NEW x \in S,
         \A y \in S : y # x => Less(q, y, x)
  PROVE  /\ Last(Sorted(q, S)) = x
         /\ Front(Sorted(q, S)) = Sorted(q, S \ {x})
         /\ Front(Sorted(q, S)) = <<>> <=> S = {x}
<1> DEFINE s == Sorted(q, S)
           c == Cardinality(S)
           T == S \ {x}
           t == Front(s)
<1>1. s \in Seq(DOMAIN q.dist) /\ Len(s) = c /\ c \in Nat /\ IsFiniteSet(S)
  BY SortedIs, FiniteBefore
<1>2. c # 0
  BY <1>1, FS_EmptySet
<1>3. Cardinality(T) = c - 1 /\ T \in SUBSET DOMAIN q.dist /\ IsFiniteSet(T)
  BY <1>1, FS_RemoveElement
<1>4. \A n \in 1 .. c : s[n] = Ranked(q, S, n - 1)
  BY DEF Sorted
<1>5. Last(s) = x
  <2>1. Ranked(q, S, c - 1) = x
    BY LastIs
  <2> HIDE DEF s, c
  <2> QED
    BY <1>1, <1>2, <1>4, <2>1 DEF Last
<1>6. Len(t) = c - 1 /\ t \in Seq(DOMAIN q.dist) /\ \A n \in 1 .. c - 1 : t[n] = s[n]
  <2> HIDE DEF s, c
  <2> QED
    BY <1>1, <1>2, FrontIs
<1>7. ASSUME NEW n \in 1 .. c - 1 PROVE t[n] = Ranked(q, T, n - 1)
  <2> DEFINE y == Ranked(q, S, n - 1)
  <2>1. t[n] = y
    <3> HIDE DEF s, t, c, y
    <3> QED
      BY <1>1, <1>4, <1>6 DEF y
  <2>2. n - 1 \in 0 .. c - 1
    BY <1>1
  <2>3. y \in S /\ Cardinality(Before(q, S, y)) = n - 1
    BY <2>2, RankedIs
  <2> HIDE DEF y
  <2>4. y # x
    <3>1. Before(q, S, x) = S \ {x}
      BY LessOrders DEF Before
    <3>2. Cardinality(Before(q, S, x)) = c - 1
      BY <1>3, <3>1
    <3> HIDE DEF c
    <3> QED
      BY <1>1, <2>3, <3>2
  <2>5. Before(q, T, y) = Before(q, S, y)
    <3>1. ~Less(q, x, y)
      BY <2>3, <2>4, LessOrders
    <3> QED
      BY <3>1 DEF Before
  <2>6. y \in T /\ Cardinality(Before(q, T, y)) = n - 1
    BY <2>3, <2>4, <2>5
  <2> HIDE DEF T
  <2> QED
    BY <1>3, <2>1, <2>6, RankIs
<1>8. t = Sorted(q, T)
  <2>1. t = [n \in 1 .. c - 1 |-> t[n]]
    <3> HIDE DEF t, c
    <3> QED
      BY <1>6
  <2> HIDE DEF t, T, c
  <2> QED
    BY <1>3, <1>7, <2>1 DEF Sorted
<1>9. t = <<>> <=> S = {x}
  <2>1. t = <<>> <=> c - 1 = 0
    <3> HIDE DEF t, c
    <3> QED
      BY <1>1, <1>6
  <2>2. c - 1 = 0 <=> T = {}
    BY <1>3, FS_EmptySet
  <2> QED
    BY <2>1, <2>2
<1> QED
  BY <1>5, <1>8, <1>9

-----------------------------------------------------------------------------
(* The radix frontier: sorted buckets of distances.                        *)

(* A nearer vertex is in no later bucket.                                  *)
LEMMA BucketRises ==
  ASSUME NEW q, IsQuery(q), NEW x \in DOMAIN q.dist, NEW y \in DOMAIN q.dist
  PROVE  /\ Bucket(q, x) \in Int
         /\ Less(q, x, y) => Bucket(q, x) <= Bucket(q, y)
<1> DEFINE w == RadixWidth
           a == q.dist[x]
           b == q.dist[y]
           c == a \div w
           d == b \div w
           r == a % w
           t == b % w
<1>1. w \in Nat \ {0} /\ a \in Nat /\ b \in Nat
  BY FixedAssumption, NodesAre
<1>2. /\ c \in Int /\ d \in Int /\ r \in 0 .. w - 1 /\ t \in 0 .. w - 1
      /\ a = w * c + r /\ b = w * d + t
  <2>1. c = a \div w /\ d = b \div w /\ r = a % w /\ t = b % w
    OBVIOUS
  <2> HIDE DEF c, d, r, t, a, b, w
  <2> QED
    BY <1>1, <2>1, Division
<1>3. Less(q, x, y) => a <= b
  BY <1>1 DEF Less
<1>4. d - c <= -1 => w * c - w * d >= w
  <2> HIDE DEF c, d, r, t, a, b, w
  <2>1. c - d >= 1 => w * c - w * d >= w
    BY <1>1, <1>2, Multiples
  <2> QED
    BY <1>2, <2>1
<1>5. a <= b => c <= d
  <2> DEFINE m == w * c
             n == w * d
  <2>1. m \in Int /\ n \in Int
    <3> HIDE DEF c, d, w
    <3> QED
      BY <1>1, <1>2
  <2>2. a = m + r /\ b = n + t /\ (d - c <= -1 => m - n >= w)
    BY <1>2, <1>4
  <2> HIDE DEF c, d, r, t, a, b, w, m, n
  <2> QED
    BY <1>1, <1>2, <2>1, <2>2
<1>6. Bucket(q, x) = c /\ Bucket(q, y) = d
  BY DEF Bucket
<1> HIDE DEF a, b, c, d, w
<1> QED
  BY <1>2, <1>3, <1>5, <1>6

(* The vertices of S in a bucket,                                          *)
Layer(q, S, k) == {x \in S : Bucket(q, x) = k}

(* the buckets of S,                                                       *)
Layers(q, S) == [k \in {Bucket(q, x) : x \in S} |-> Sorted(q, Layer(q, S, k))]

(* the radix frontier, field by field,                                     *)
RadixBeam(r, a, u, v, z) ==
  [radix |-> r, active |-> a, unvisited |-> u, visited |-> v, failed |-> z]

(* and the one over S that awaits U and has visited V.                     *)
RadixOver(q, S, U, V) == RadixBeam(Layers(q, S), S, U, V, FALSE)

(* Its fields.                                                             *)
LEMMA RadixFields ==
  ASSUME NEW b, NEW r, NEW a, NEW u, NEW v, NEW z, b = RadixBeam(r, a, u, v, z)
  PROVE  b.radix = r /\ b.active = a /\ b.unvisited = u /\ b.visited = v /\ b.failed = z
BY DEF RadixBeam

(* What an insertion replaces,                                             *)
RadixGrown(b, A, W, R) == [b EXCEPT !.active = A, !.unvisited = W, !.radix = R]

(* it replaces;                                                            *)
LEMMA RadixGrows ==
  ASSUME NEW b, NEW r, NEW a, NEW u, NEW v, NEW z, b = RadixBeam(r, a, u, v, z),
         NEW R, NEW A, NEW W
  PROVE  RadixGrown(b, A, W, R) = RadixBeam(R, A, W, v, z)
<1>1. [RadixBeam(r, a, u, v, z) EXCEPT !.active = A] = RadixBeam(r, A, u, v, z)
  BY DEF RadixBeam
<1>2. [RadixBeam(r, A, u, v, z) EXCEPT !.unvisited = W] = RadixBeam(r, A, W, v, z)
  BY DEF RadixBeam
<1>3. [RadixBeam(r, A, W, v, z) EXCEPT !.radix = R] = RadixBeam(R, A, W, v, z)
  BY DEF RadixBeam
<1>4. [[[b EXCEPT !.active = A] EXCEPT !.unvisited = W] EXCEPT !.radix = R]
        = RadixBeam(R, A, W, v, z)
  BY <1>1, <1>2, <1>3
<1>5. RadixGrown(b, A, W, R)
        = [[[b EXCEPT !.active = A] EXCEPT !.unvisited = W] EXCEPT !.radix = R]
  BY DEF RadixGrown
<1> QED
  BY <1>4, <1>5

(* what a removal replaces                                                 *)
RadixShrunk(b, A, R) == [b EXCEPT !.active = A, !.radix = R]

(* too;                                                                    *)
LEMMA RadixShrinks ==
  ASSUME NEW b, NEW r, NEW a, NEW u, NEW v, NEW z, b = RadixBeam(r, a, u, v, z),
         NEW R, NEW A
  PROVE  RadixShrunk(b, A, R) = RadixBeam(R, A, u, v, z)
<1>1. [RadixBeam(r, a, u, v, z) EXCEPT !.active = A] = RadixBeam(r, A, u, v, z)
  BY DEF RadixBeam
<1>2. [RadixBeam(r, A, u, v, z) EXCEPT !.radix = R] = RadixBeam(R, A, u, v, z)
  BY DEF RadixBeam
<1>3. [[b EXCEPT !.active = A] EXCEPT !.radix = R] = RadixBeam(R, A, u, v, z)
  BY <1>1, <1>2
<1>4. RadixShrunk(b, A, R) = [[b EXCEPT !.active = A] EXCEPT !.radix = R]
  BY DEF RadixShrunk
<1> QED
  BY <1>3, <1>4

(* and what a visit replaces                                               *)
RadixSeen(b, V, W) == [b EXCEPT !.visited = V, !.unvisited = W]

(* as well.                                                                *)
LEMMA RadixVisits ==
  ASSUME NEW b, NEW r, NEW a, NEW u, NEW v, NEW z, b = RadixBeam(r, a, u, v, z),
         NEW V, NEW W
  PROVE  RadixSeen(b, V, W) = RadixBeam(r, a, W, V, z)
<1>1. [RadixBeam(r, a, u, v, z) EXCEPT !.visited = V] = RadixBeam(r, a, u, V, z)
  BY DEF RadixBeam
<1>2. [RadixBeam(r, a, u, V, z) EXCEPT !.unvisited = W] = RadixBeam(r, a, W, V, z)
  BY DEF RadixBeam
<1>3. [[b EXCEPT !.visited = V] EXCEPT !.unvisited = W] = RadixBeam(r, a, W, V, z)
  BY <1>1, <1>2
<1>4. RadixSeen(b, V, W) = [[b EXCEPT !.visited = V] EXCEPT !.unvisited = W]
  BY DEF RadixSeen
<1> QED
  BY <1>3, <1>4

(* A vertex goes to its bucket and to its place in it.                     *)
LEMMA RadixInsertIs ==
  ASSUME NEW q, IsQuery(q), NEW S \in SUBSET DOMAIN q.dist, NEW U, NEW V,
         NEW x \in DOMAIN q.dist
  PROVE  RadixInsert(RadixOver(q, S, U, V), q, x)
           = RadixOver(q, S \cup {x}, U \cup ({x} \ S), V)
<1> DEFINE b == RadixOver(q, S, U, V)
           k == Bucket(q, x)
           L == Layers(q, S)
           T == S \cup {x}
           z == FALSE
           s == IF k \in DOMAIN b.radix THEN b.radix[k] ELSE <<>>
<1>1. /\ b = RadixBeam(L, S, U, V, z)
      /\ b.radix = L /\ b.active = S /\ b.unvisited = U
  <2>1. b = RadixBeam(L, S, U, V, z)
    BY DEF RadixOver
  <2> HIDE DEF b, L, z
  <2> QED
    BY <2>1, RadixFields
<1>2. CASE x \in S
  <2>1. S \cup {x} = S /\ U \cup ({x} \ S) = U
    BY <1>2
  <2>2. RadixInsert(b, q, x) = b
    BY <1>1, <1>2 DEF RadixInsert
  <2> QED
    BY <2>1, <2>2
<1>3. CASE x \notin S
  <2>1. DOMAIN L = {Bucket(q, y) : y \in S}
          /\ \A m \in DOMAIN L : L[m] = Sorted(q, Layer(q, S, m))
    BY DEF Layers
  <2>2. s = Sorted(q, Layer(q, S, k))
    <3>1. CASE k \in DOMAIN L
      BY <1>1, <2>1, <3>1
    <3>2. CASE k \notin DOMAIN L
      <4>1. Layer(q, S, k) = {}
        BY <2>1, <3>2 DEF Layer
      <4>2. Sorted(q, {}) = <<>>
        <5>1. Cardinality({}) = 0
          BY FS_EmptySet
        <5>2. Len(Sorted(q, {})) = 0
          BY <5>1, SortedIs
        <5>3. Sorted(q, {}) \in Seq(DOMAIN q.dist)
          BY SortedIs
        <5> QED
          BY <5>2, <5>3, EmptySeq
      <4>3. s = <<>>
        BY <1>1, <3>2
      <4> QED
        BY <4>1, <4>2, <4>3
    <3> QED
      BY <3>1, <3>2
  <2> HIDE DEF s
  <2> DEFINE R == [m \in DOMAIN L \cup {k} |->
                     IF m = k THEN InsertAt(s, Place(q, s, x), x) ELSE L[m]]
  <2>3. RadixInsert(b, q, x) = RadixBeam(R, S \cup {x}, U \cup {x}, V, z)
    <3>1. RadixInsert(b, q, x)
            = [b EXCEPT !.active = S \cup {x}, !.unvisited = U \cup {x}, !.radix = R]
      <4> HIDE DEF L, b, k
      <4>1. x \notin b.active
        BY <1>1, <1>3
      <4>2. RadixInsert(b, q, x)
              = [b EXCEPT !.active = b.active \cup {x}, !.unvisited = b.unvisited \cup {x},
                          !.radix = [m \in DOMAIN b.radix \cup {k} |->
                                       IF m = k THEN InsertAt(s, Place(q, s, x), x)
                                       ELSE b.radix[m]]]
        BY <4>1 DEF RadixInsert, s, k
      <4> QED
        BY <1>1, <4>2
    <3> DEFINE A == S \cup {x}
               W == U \cup {x}
    <3>2. RadixInsert(b, q, x) = RadixGrown(b, A, W, R)
      BY <3>1 DEF RadixGrown
    <3> HIDE DEF b, L, R, z, A, W
    <3>3. RadixGrown(b, A, W, R) = RadixBeam(R, A, W, V, z)
      BY <1>1, RadixGrows
    <3> QED
      BY <3>2, <3>3 DEF A, W
  <2>4. R = Layers(q, T)
    <3>1. DOMAIN L \cup {k} = {Bucket(q, y) : y \in T}
      BY <2>1
    <3>2. InsertAt(s, Place(q, s, x), x) = Sorted(q, Layer(q, T, k))
      <4>1. /\ Layer(q, S, k) \in SUBSET DOMAIN q.dist /\ x \notin Layer(q, S, k)
            /\ Layer(q, T, k) = Layer(q, S, k) \cup {x}
        BY <1>3 DEF Layer
      <4> QED
        BY <2>2, <4>1, InsertSorts
    <3>3. ASSUME NEW m \in DOMAIN L, m # k PROVE L[m] = Sorted(q, Layer(q, T, m))
      <4>1. Layer(q, T, m) = Layer(q, S, m)
        BY <3>3 DEF Layer
      <4> QED
        BY <2>1, <4>1
    <3> HIDE DEF L, T, k
    <3> QED
      BY <3>1, <3>2, <3>3 DEF Layers
  <2>5. U \cup {x} = U \cup ({x} \ S)
    BY <1>3
  <2> HIDE DEF R
  <2> QED
    BY <2>3, <2>4, <2>5 DEF RadixOver, z
<1> QED
  BY <1>2, <1>3

(* Two runs that start and go on alike end alike.                          *)
LEMMA SameRun ==
  ASSUME NEW n \in Nat, NEW g, NEW r, g[0] = r[0],
         \A k \in 0 .. n - 1 : g[k] = r[k] => g[k + 1] = r[k + 1]
  PROVE  g[n] = r[n]
<1> DEFINE S == {k \in 0 .. n : g[k] = r[k]}
<1>1. 0 \in S /\ \A k \in 0 .. n - 1 : k \in S => k + 1 \in S
  OBVIOUS
<1> HIDE DEF S
<1>2. n \in S
  BY <1>1, CountUp
<1> QED
  BY <1>2 DEF S

(* The vertices of a sequence are inserted one by one.                     *)
LEMMA RadixInsertsIs ==
  ASSUME NEW q, IsQuery(q), NEW S \in SUBSET DOMAIN q.dist, NEW U, NEW V,
         NEW s \in Seq(DOMAIN q.dist)
  PROVE  RadixInserts(RadixOver(q, S, U, V), q, s)
           = RadixOver(q, S \cup ToSet(s), U \cup (ToSet(s) \ S), V)
<1> DEFINE b == RadixOver(q, S, U, V)
           n == Len(s)
           T(k) == {s[m] : m \in 1 .. k}
           r == [k \in 0 .. n |-> RadixOver(q, S \cup T(k), U \cup (T(k) \ S), V)]
           Eq(h) == h = [k \in 0 .. n |-> IF k = 0 THEN b ELSE RadixInsert(h[k - 1], q, s[k])]
<1>1. n \in Nat /\ \A m \in 1 .. n : s[m] \in DOMAIN q.dist
  OBVIOUS
<1>2. r[0] = b
  <2>1. T(0) = {}
    OBVIOUS
  <2>2. S \cup T(0) = S /\ U \cup (T(0) \ S) = U
    BY <2>1
  <2>3. r[0] = RadixOver(q, S \cup T(0), U \cup (T(0) \ S), V)
    BY <1>1
  <2> QED
    BY <2>2, <2>3
<1>3. ASSUME NEW k \in 0 .. n - 1 PROVE r[k + 1] = RadixInsert(r[k], q, s[k + 1])
  <2> DEFINE x == s[k + 1]
             A == S \cup T(k)
             W == U \cup (T(k) \ S)
  <2>1. x \in DOMAIN q.dist /\ A \in SUBSET DOMAIN q.dist
    BY <1>1
  <2>2. T(k + 1) = T(k) \cup {x}
    BY <1>1
  <2>3. A \cup {x} = S \cup T(k + 1) /\ W \cup ({x} \ A) = U \cup (T(k + 1) \ S)
    BY <2>2
  <2>4. k \in 0 .. n /\ k + 1 \in 0 .. n
    BY <1>1
  <2>5. r[k] = RadixOver(q, A, W, V)
        /\ r[k + 1] = RadixOver(q, S \cup T(k + 1), U \cup (T(k + 1) \ S), V)
    BY <2>4
  <2> HIDE DEF A, W, x, r, T
  <2>6. RadixInsert(RadixOver(q, A, W, V), q, x) = RadixOver(q, A \cup {x}, W \cup ({x} \ A), V)
    BY <2>1, RadixInsertIs
  <2> QED
    BY <2>3, <2>5, <2>6 DEF x
<1>4. Eq(r)
  <2>1. ASSUME NEW k \in 0 .. n, k # 0 PROVE r[k] = RadixInsert(r[k - 1], q, s[k])
    <3>1. k - 1 \in 0 .. n - 1 /\ k - 1 + 1 = k
      BY <1>1, <2>1
    <3> HIDE DEF r, n
    <3> QED
      BY <1>3, <3>1
  <2>2. DOMAIN r = 0 .. n /\ r = [k \in 0 .. n |-> r[k]]
    OBVIOUS
  <2> HIDE DEF r, b, n
  <2> QED
    BY <1>2, <2>1, <2>2
<1> DEFINE g == CHOOSE h : Eq(h)
<1>5. Eq(g)
  <2> HIDE DEF Eq
  <2> QED
    BY <1>4
<1>6. RadixInserts(b, q, s) = g[n]
  BY DEF RadixInserts
<1>7. g[0] = b /\ \A k \in 0 .. n - 1 : g[k + 1] = RadixInsert(g[k], q, s[k + 1])
  <2>1. g = [k \in 0 .. n |-> IF k = 0 THEN b ELSE RadixInsert(g[k - 1], q, s[k])]
    BY <1>5
  <2> HIDE DEF g, b, n
  <2>2. ASSUME NEW k \in 0 .. n - 1 PROVE g[k + 1] = RadixInsert(g[k], q, s[k + 1])
    <3> DEFINE h == k + 1
    <3>1. h \in 0 .. n /\ h # 0 /\ h - 1 = k
      BY <1>1
    <3> HIDE DEF h
    <3>2. g[h] = RadixInsert(g[h - 1], q, s[h])
      BY <2>1, <3>1
    <3> QED
      BY <3>1, <3>2 DEF h
  <2> QED
    BY <1>1, <2>1, <2>2
<1>8. g[n] = r[n]
  <2> HIDE DEF g, r, b, n
  <2> QED
    BY <1>1, <1>2, <1>3, <1>7, SameRun
<1>9. T(n) = ToSet(s)
  BY DEF ToSet
<1>10. r[n] = RadixOver(q, S \cup T(n), U \cup (T(n) \ S), V)
  BY <1>1
<1> HIDE DEF g, r, b, n, T
<1> QED
  BY <1>6, <1>8, <1>9, <1>10 DEF b

(* The farthest vertex is the last of the last bucket.                     *)
LEMMA RadixFarthestIs ==
  ASSUME NEW q, IsQuery(q), NEW S \in SUBSET DOMAIN q.dist, S # {}, NEW U, NEW V
  PROVE  LET b == RadixOver(q, S, U, V)
             x == Ranked(q, S, Cardinality(S) - 1)
         IN Max(DOMAIN b.radix) = Bucket(q, x) /\ RadixFarthest(b) = x
<1> DEFINE b == RadixOver(q, S, U, V)
           x == Ranked(q, S, Cardinality(S) - 1)
           L == Layers(q, S)
           k == Bucket(q, x)
           z == FALSE
<1>1. b.radix = L
  <2>1. b = RadixBeam(L, S, U, V, z)
    BY DEF RadixOver
  <2> HIDE DEF b, L, z
  <2> QED
    BY <2>1, RadixFields
<1>2. x \in S /\ \A y \in S : y # x => Less(q, y, x)
  BY FarthestIs
<1> HIDE DEF x
<1>3. DOMAIN L = {Bucket(q, y) : y \in S} /\ L[k] = Sorted(q, Layer(q, S, k))
  BY <1>2 DEF Layers
<1>4. \A y \in S : Bucket(q, y) \in Int /\ Bucket(q, y) <= k
  <2> TAKE y \in S
  <2>1. Bucket(q, y) \in Int /\ (Less(q, y, x) => Bucket(q, y) <= k)
    BY <1>2, BucketRises
  <2>2. CASE y = x
    BY <2>1, <2>2
  <2>3. CASE y # x
    BY <1>2, <2>1, <2>3
  <2> QED
    BY <2>2, <2>3
<1>5. Max(DOMAIN L) = k
  <2> DEFINE D == {Bucket(q, y) : y \in S}
  <2>1. D \in SUBSET Int /\ k \in D /\ \A n \in D : n <= k
    BY <1>2, <1>4
  <2> HIDE DEF D, k
  <2>2. Max(D) = k
    BY <2>1, GreatestIs
  <2> QED
    BY <1>3, <2>2 DEF D
<1>6. Last(Sorted(q, Layer(q, S, k))) = x
  <2>1. /\ Layer(q, S, k) \in SUBSET DOMAIN q.dist /\ x \in Layer(q, S, k)
        /\ \A y \in Layer(q, S, k) : y # x => Less(q, y, x)
    BY <1>2 DEF Layer
  <2> QED
    BY <2>1, FrontSorts
<1>7. RadixFarthest(b) = x
  <2> HIDE DEF b, L, k
  <2> QED
    BY <1>1, <1>3, <1>5, <1>6 DEF RadixFarthest
<1> HIDE DEF b, L, k
<1> QED
  BY <1>1, <1>5, <1>7 DEF b, k, x

(* Removing it leaves the frontier over the others.                        *)
LEMMA RadixRemoveIs ==
  ASSUME NEW q, IsQuery(q), NEW S \in SUBSET DOMAIN q.dist, S # {}, NEW U, NEW V
  PROVE  RadixRemoveFarthest(RadixOver(q, S, U, V))
           = RadixOver(q, S \ {Ranked(q, S, Cardinality(S) - 1)}, U, V)
<1> DEFINE b == RadixOver(q, S, U, V)
           x == Ranked(q, S, Cardinality(S) - 1)
           L == Layers(q, S)
           k == Bucket(q, x)
           T == S \ {x}
           s == Front(b.radix[k])
           z == FALSE
           R == IF s = <<>> THEN [m \in DOMAIN L \ {k} |-> L[m]] ELSE [L EXCEPT ![k] = s]
<1>1. b = RadixBeam(L, S, U, V, z) /\ b.radix = L /\ b.active = S
  <2>1. b = RadixBeam(L, S, U, V, z)
    BY DEF RadixOver
  <2> HIDE DEF b, L, z
  <2> QED
    BY <2>1, RadixFields
<1>2. x \in S /\ \A y \in S : y # x => Less(q, y, x)
  BY FarthestIs
<1>3. Max(DOMAIN b.radix) = k /\ RadixFarthest(b) = x
  BY RadixFarthestIs
<1>4. RadixRemoveFarthest(b) = RadixShrunk(b, T, R)
  <2> HIDE DEF b, L, x, k, z
  <2>1. RadixRemoveFarthest(b)
          = [b EXCEPT !.active = b.active \ {x},
                      !.radix = IF s = <<>> THEN [m \in DOMAIN b.radix \ {k} |-> b.radix[m]]
                                ELSE [b.radix EXCEPT ![k] = s]]
    BY <1>3 DEF RadixRemoveFarthest
  <2> HIDE DEF s
  <2> QED
    BY <1>1, <2>1 DEF RadixShrunk
<1> HIDE DEF x
<1>5. /\ DOMAIN L = {Bucket(q, y) : y \in S}
      /\ L = [m \in DOMAIN L |-> Sorted(q, Layer(q, S, m))]
      /\ \A m \in DOMAIN L : L[m] = Sorted(q, Layer(q, S, m))
  BY DEF Layers
<1>6. k \in DOMAIN L
  BY <1>2, <1>5
<1>7. /\ s = Sorted(q, Layer(q, T, k))
      /\ s = <<>> <=> Layer(q, T, k) = {}
  <2> DEFINE A == Layer(q, S, k)
  <2>1. /\ A \in SUBSET DOMAIN q.dist /\ x \in A
        /\ \A y \in A : y # x => Less(q, y, x)
    BY <1>2 DEF Layer
  <2>2. Layer(q, T, k) = A \ {x}
    BY DEF Layer
  <2>3. s = Front(Sorted(q, A))
    BY <1>1, <1>5, <1>6
  <2> HIDE DEF A, s, k, T
  <2>4. Front(Sorted(q, A)) = Sorted(q, A \ {x}) /\ (Front(Sorted(q, A)) = <<>> <=> A = {x})
    BY <2>1, FrontSorts
  <2>5. A = {x} <=> A \ {x} = {}
    BY <2>1
  <2> QED
    BY <2>2, <2>3, <2>4, <2>5
<1>8. \A m \in DOMAIN L : m # k => L[m] = Sorted(q, Layer(q, T, m))
  <2> TAKE m \in DOMAIN L
  <2> HAVE m # k
  <2>1. Layer(q, S, m) = Layer(q, T, m)
    BY DEF Layer
  <2> QED
    BY <1>5, <2>1
<1>9. R = Layers(q, T)
  <2> DEFINE D == {Bucket(q, y) : y \in T}
  <2>1. CASE s = <<>>
    <3>1. D = DOMAIN L \ {k}
      <4>1. \A y \in T : Bucket(q, y) # k
        BY <1>7, <2>1 DEF Layer
      <4>2. \A m \in DOMAIN L : m # k => \E y \in T : Bucket(q, y) = m
        BY <1>5
      <4>3. D \subseteq DOMAIN L
        BY <1>5
      <4> HIDE DEF L, T, k
      <4> QED
        BY <4>1, <4>2, <4>3
    <3>2. R = [m \in DOMAIN L \ {k} |-> L[m]]
      BY <2>1
    <3>3. Layers(q, T) = [m \in D |-> Sorted(q, Layer(q, T, m))]
      BY DEF Layers
    <3> HIDE DEF L, k, T, R, D
    <3> QED
      BY <1>8, <3>1, <3>2, <3>3
  <2>2. CASE s # <<>>
    <3>1. D = DOMAIN L
      <4>1. \E y \in T : Bucket(q, y) = k
        BY <1>7, <2>2 DEF Layer
      <4>2. \A m \in DOMAIN L : m # k => \E y \in T : Bucket(q, y) = m
        BY <1>5
      <4>3. D \subseteq DOMAIN L
        BY <1>5
      <4> HIDE DEF L, T, k
      <4> QED
        BY <4>1, <4>2, <4>3
    <3>2. R = [L EXCEPT ![k] = s]
      BY <2>2
    <3>3. Layers(q, T) = [m \in D |-> Sorted(q, Layer(q, T, m))]
      BY DEF Layers
    <3>4. R = [m \in DOMAIN L |-> IF m = k THEN s ELSE L[m]]
      <4> HIDE DEF s, L, k, R
      <4> QED
        BY <3>2
    <3> HIDE DEF L, k, T, R, D, s
    <3> QED
      BY <1>7, <1>8, <3>1, <3>3, <3>4
  <2> QED
    BY <2>1, <2>2
<1>10. RadixShrunk(b, T, R) = RadixBeam(R, T, U, V, z)
  <2> HIDE DEF b, L, T, R, z
  <2> QED
    BY <1>1, RadixShrinks
<1> HIDE DEF R, T, b
<1> QED
  BY <1>4, <1>9, <1>10 DEF RadixOver, b, T, x

(* What is nearer than a member of F is one.                               *)
Closed(q, S, F) == F \subseteq S /\ \A x \in F, y \in S : Less(q, y, x) => y \in F

(* F with the nearest m of S.                                              *)
With(q, S, F, m) == F \cup Nearest(q, S, m)

(* With the nearest m of S, such a set shrinks from S to itself, by its    *)
(* farthest member each time.                                              *)
LEMMA Shrinks ==
  ASSUME NEW q, IsQuery(q), NEW S \in SUBSET DOMAIN q.dist, NEW F, Closed(q, S, F),
         NEW m \in 0 .. Cardinality(S) - 1
  PROVE  LET A == With(q, S, F, m + 1)
             B == With(q, S, F, m)
         IN /\ A = F => B = F
            /\ A # F => A # {} /\ B = A \ {Ranked(q, A, Cardinality(A) - 1)}
<1> DEFINE N == Nearest(q, S, m + 1)
           A == F \cup N
           B == F \cup Nearest(q, S, m)
<1> USE DEF Closed
<1>1. Cardinality(S) \in Nat /\ m \in Nat /\ \A y \in S : Cardinality(Before(q, S, y)) \in Nat
  BY FiniteBefore
<1>2. Nearest(q, S, m) \subseteq N
  BY <1>1 DEF Nearest
<1>3. A = F => B = F
  BY <1>2
<1>4. ASSUME A # F PROVE A # {} /\ B = A \ {Ranked(q, A, Cardinality(A) - 1)}
  <2>1. PICK x \in N : x \notin F
    BY <1>4
  <2>2. x \in S /\ Cardinality(Before(q, S, x)) <= m
    BY <1>1, <2>1 DEF Nearest
  <2> DEFINE z == Ranked(q, S, m)
  <2>3. z \in S /\ Cardinality(Before(q, S, z)) = m
    BY RankedIs
  <2> HIDE DEF z
  <2>4. ASSUME NEW y \in F PROVE y \in S /\ Less(q, y, x)
    <3>1. y \in S /\ y # x /\ ~Less(q, x, y)
      BY <2>1, <2>2, <2>4
    <3> QED
      BY <2>2, <3>1, LessOrders
  <2>5. F \subseteq Nearest(q, S, m)
    <3> SUFFICES ASSUME NEW y \in F PROVE y \in Nearest(q, S, m)
      OBVIOUS
    <3>1. Cardinality(Before(q, S, y)) + 1 <= Cardinality(Before(q, S, x))
      BY <2>2, <2>4, RankRises
    <3>2. Cardinality(Before(q, S, y)) < m
      BY <1>1, <2>2, <2>4, <3>1
    <3> QED
      BY <2>4, <3>2 DEF Nearest
  <2>6. A = N /\ B = Nearest(q, S, m)
    BY <1>2, <2>5
  <2>7. N = Nearest(q, S, m) \cup {z}
    <3>1. \A y \in S : Cardinality(Before(q, S, y)) = m => y = z
      BY <2>3, Ranks
    <3>2. \A y \in S : Cardinality(Before(q, S, y)) < m + 1 <=>
            Cardinality(Before(q, S, y)) < m \/ Cardinality(Before(q, S, y)) = m
      BY <1>1
    <3> QED
      BY <2>3, <3>1, <3>2 DEF Nearest
  <2>8. z \notin Nearest(q, S, m)
    BY <1>1, <2>3 DEF Nearest
  <2>9. \A y \in A : y # z => Less(q, y, z)
    <3> TAKE y \in A
    <3> HAVE y # z
    <3>1. y \in S /\ Cardinality(Before(q, S, y)) < m
      BY <2>6, <2>7 DEF Nearest
    <3>2. ~Less(q, z, y)
      <4> SUFFICES ASSUME Less(q, z, y) PROVE FALSE
        OBVIOUS
      <4>1. m + 1 <= Cardinality(Before(q, S, y))
        BY <2>3, <3>1, RankRises
      <4> QED
        BY <1>1, <3>1, <4>1
    <3> QED
      BY <2>3, <3>1, <3>2, LessOrders
  <2>10. A \in SUBSET DOMAIN q.dist /\ z \in A
    BY <2>6, <2>7 DEF Nearest
  <2> HIDE DEF A, B, N
  <2>11. Ranked(q, A, Cardinality(A) - 1) = z
    BY <2>9, <2>10, LastIs
  <2> QED
    BY <2>6, <2>7, <2>8, <2>10, <2>11
<1> HIDE DEF A, B
<1> QED
  BY <1>3, <1>4 DEF A, B, N, With

(* S, k removals on the way to F.                                          *)
Drained(q, S, F, k) == With(q, S, F, Cardinality(S) - k)

(* The whole and the nearest none.                                         *)
LEMMA NearestAll ==
  ASSUME NEW q, IsQuery(q), NEW S \in SUBSET DOMAIN q.dist
  PROVE  Nearest(q, S, Cardinality(S)) = S /\ Nearest(q, S, 0) = {}
<1>1. Cardinality(S) \in Nat /\ \A y \in S : Cardinality(Before(q, S, y)) \in Nat
  BY FiniteBefore
<1>2. \A y \in S : Cardinality(Before(q, S, y)) \in 0 .. Cardinality(S) - 1
  BY Ranks
<1>3. \A y \in S : Cardinality(Before(q, S, y)) < Cardinality(S)
  BY <1>1, <1>2
<1>4. \A y \in S : ~ (Cardinality(Before(q, S, y)) < 0)
  BY <1>1
<1> QED
  BY <1>3, <1>4 DEF Nearest

(* The frontier is drained from S to F, then stays.                        *)
DrainsTo(q, S, F, U, V) ==
  LET c == Cardinality(S)
      D(k) == Drained(q, S, F, k)
      b(k) == RadixOver(q, D(k), U, V)
  IN /\ c \in Nat /\ D(0) = S /\ D(c) = F
     /\ \A k \in 0 .. c - 1 :
          /\ D(k) \in SUBSET S /\ F \subseteq D(k)
          /\ D(k) # F => D(k) # {}
          /\ b(k + 1) = IF D(k) = F THEN b(k) ELSE RadixRemoveFarthest(b(k))

(* Removals do that.                                                       *)
LEMMA Drains ==
  ASSUME NEW q, IsQuery(q), NEW S \in SUBSET DOMAIN q.dist, NEW F, Closed(q, S, F),
         NEW U, NEW V
  PROVE  DrainsTo(q, S, F, U, V)
<1> DEFINE c == Cardinality(S)
           D(k) == Drained(q, S, F, k)
           b(k) == RadixOver(q, D(k), U, V)
<1>1. c \in Nat
  BY FiniteBefore
<1>2. D(0) = S /\ D(c) = F
  <2>1. c - 0 = c /\ c - c = 0
    BY <1>1
  <2> QED
    BY <2>1, NearestAll DEF Drained, With, Closed
<1>3. ASSUME NEW k \in 0 .. c - 1
      PROVE  /\ D(k) \in SUBSET S /\ F \subseteq D(k)
             /\ D(k) # F => D(k) # {}
             /\ b(k + 1) = IF D(k) = F THEN b(k) ELSE RadixRemoveFarthest(b(k))
  <2> DEFINE m == c - (k + 1)
             A == With(q, S, F, m + 1)
             B == With(q, S, F, m)
  <2>1. m \in 0 .. c - 1 /\ m + 1 = c - k
    BY <1>1
  <2>2. D(k) = A /\ D(k + 1) = B
    BY <2>1 DEF Drained
  <2>3. A \in SUBSET S /\ F \subseteq A
    BY DEF Nearest, Closed, With
  <2>4. /\ A = F => B = F
        /\ A # F => A # {} /\ B = A \ {Ranked(q, A, Cardinality(A) - 1)}
    <3> HIDE DEF m
    <3> QED
      BY <2>1, Shrinks
  <2>5. CASE A = F
    BY <2>2, <2>3, <2>4, <2>5
  <2>6. CASE A # F
    <3> HIDE DEF A, B
    <3>1. RadixRemoveFarthest(RadixOver(q, A, U, V)) = RadixOver(q, B, U, V)
      BY <2>3, <2>4, <2>6, RadixRemoveIs
    <3> HIDE DEF D
    <3> QED
      BY <2>2, <2>3, <2>4, <2>6, <3>1
  <2> QED
    BY <2>5, <2>6
<1> QED
  BY <1>1, <1>2, <1>3 DEF DrainsTo

(* Trimming keeps the nearest n.                                           *)
LEMMA RadixTrimIs ==
  ASSUME NEW q, IsQuery(q), NEW S \in SUBSET DOMAIN q.dist, NEW U, NEW V, NEW n \in Nat
  PROVE  RadixTrim(RadixOver(q, S, U, V), n) = RadixOver(q, Nearest(q, S, n), U, V)
<1> DEFINE b == RadixOver(q, S, U, V)
           F == Nearest(q, S, n)
           c == Cardinality(S)
           D(k) == Drained(q, S, F, k)
           r == [k \in 0 .. c |-> RadixOver(q, D(k), U, V)]
           Shorter(a) == IF Cardinality(a.active) <= n THEN a ELSE RadixRemoveFarthest(a)
           Eq(h) == h = [m \in 0 .. c |-> IF m = 0 THEN b ELSE Shorter(h[m - 1])]
<1>1. Closed(q, S, F)
  <2>1. F \in SUBSET S
    BY DEF Nearest
  <2>2. ASSUME NEW x \in F, NEW y \in S, Less(q, y, x) PROVE y \in F
    <3>1. /\ x \in S /\ Cardinality(Before(q, S, x)) < n
          /\ Cardinality(Before(q, S, x)) \in Nat /\ Cardinality(Before(q, S, y)) \in Nat
      BY FiniteBefore DEF Nearest
    <3>2. Cardinality(Before(q, S, y)) + 1 <= Cardinality(Before(q, S, x))
      BY <2>2, <3>1, RankRises
    <3>3. Cardinality(Before(q, S, y)) < n
      BY <3>1, <3>2
    <3> QED
      BY <3>3 DEF Nearest
  <2> QED
    BY <2>1, <2>2 DEF Closed
<1>2. IsFiniteSet(F) /\ Cardinality(F) = IF n <= c THEN n ELSE c
  BY NearestIs
<1> HIDE DEF F
<1>3. /\ c \in Nat /\ D(0) = S /\ D(c) = F
      /\ \A k \in 0 .. c - 1 :
           /\ D(k) \in SUBSET S /\ F \subseteq D(k)
           /\ RadixOver(q, D(k + 1), U, V)
                = IF D(k) = F THEN RadixOver(q, D(k), U, V)
                  ELSE RadixRemoveFarthest(RadixOver(q, D(k), U, V))
  <2>1. DrainsTo(q, S, F, U, V)
    BY <1>1, Drains
  <2> QED
    BY <2>1 DEF DrainsTo
<1>4. \A A : RadixOver(q, A, U, V).active = A
  <2> TAKE A
  <2> DEFINE d == RadixOver(q, A, U, V)
             L == Layers(q, A)
             z == FALSE
  <2>1. d = RadixBeam(L, A, U, V, z)
    BY DEF RadixOver
  <2> HIDE DEF d, L, z
  <2>2. d.active = A
    BY <2>1, RadixFields
  <2> QED
    BY <2>2 DEF d
<1>5. ASSUME NEW A \in SUBSET S, F \subseteq A
      PROVE  Cardinality(A) <= n <=> A = F
  <2>1. IsFiniteSet(A) /\ IsFiniteSet(S) /\ Cardinality(A) \in Nat /\ Cardinality(S) \in Nat
    BY FiniteBefore
  <2>2. Cardinality(A) <= c /\ (Cardinality(A) = c => A = S)
    BY <2>1, FS_Subset
  <2>3. Cardinality(F) <= Cardinality(A) /\ (Cardinality(F) = Cardinality(A) => A = F)
    BY <1>2, <1>5, <2>1, FS_Subset
  <2> HIDE DEF c
  <2> QED
    BY <1>2, <1>3, <2>1, <2>2, <2>3
<1>6. /\ r[0] = b /\ r[c] = RadixOver(q, F, U, V)
      /\ \A k \in 0 .. c - 1 : r[k + 1] = Shorter(r[k])
  <2>1. \A k \in 0 .. c : r[k] = RadixOver(q, D(k), U, V)
    OBVIOUS
  <2> HIDE DEF r
  <2>2. ASSUME NEW k \in 0 .. c - 1 PROVE r[k + 1] = Shorter(r[k])
    <3> DEFINE A == D(k)
    <3>1. k \in 0 .. c /\ k + 1 \in 0 .. c
      BY <1>3
    <3>2. A \in SUBSET S /\ F \subseteq A
      BY <1>3
    <3>3. r[k] = RadixOver(q, A, U, V)
          /\ r[k + 1] = IF A = F THEN r[k] ELSE RadixRemoveFarthest(r[k])
      BY <1>3, <2>1, <3>1
    <3> HIDE DEF A
    <3>4. r[k].active = A
      BY <1>4, <3>3
    <3> QED
      BY <1>5, <3>2, <3>3, <3>4
  <2> QED
    BY <1>3, <2>1, <2>2
<1>7. Eq(r)
  <2>1. ASSUME NEW k \in 0 .. c, k # 0 PROVE r[k] = Shorter(r[k - 1])
    <3>1. k - 1 \in 0 .. c - 1 /\ k - 1 + 1 = k
      BY <1>3, <2>1
    <3> HIDE DEF r, c, Shorter
    <3> QED
      BY <1>6, <3>1
  <2>2. r = [k \in 0 .. c |-> r[k]]
    OBVIOUS
  <2> HIDE DEF r, b, c, Shorter
  <2> QED
    BY <1>6, <2>1, <2>2
<1> DEFINE g == CHOOSE h : Eq(h)
<1>8. Eq(g)
  <2> HIDE DEF Eq
  <2> QED
    BY <1>7
<1>9. RadixTrim(b, n) = g[c]
  <2>1. b.active = S
    BY <1>4
  <2> HIDE DEF b
  <2> QED
    BY <2>1 DEF RadixTrim
<1>10. g[0] = b /\ \A k \in 0 .. c - 1 : g[k + 1] = Shorter(g[k])
  <2>1. g = [m \in 0 .. c |-> IF m = 0 THEN b ELSE Shorter(g[m - 1])]
    BY <1>8
  <2> HIDE DEF g, b, c, Shorter
  <2>2. ASSUME NEW k \in 0 .. c - 1 PROVE g[k + 1] = Shorter(g[k])
    <3> DEFINE h == k + 1
    <3>1. h \in 0 .. c /\ h # 0 /\ h - 1 = k
      BY <1>3
    <3> HIDE DEF h
    <3>2. g[h] = Shorter(g[h - 1])
      BY <2>1, <3>1
    <3> QED
      BY <3>1, <3>2 DEF h
  <2> QED
    BY <1>3, <2>1, <2>2
<1>11. g[c] = r[c]
  <2> HIDE DEF g, r, b, c, Shorter
  <2> QED
    BY <1>3, <1>6, <1>10, SameRun
<1> HIDE DEF g, r, b, c
<1> QED
  BY <1>6, <1>9, <1>11 DEF b, F

(* What comes after a vertex beyond d is beyond it.                        *)
LEMMA BeyondRises ==
  ASSUME NEW q, IsQuery(q), NEW d \in Int, NEW x \in DOMAIN q.dist, NEW y \in DOMAIN q.dist,
         Less(q, x, y), Beyond(q, d, x)
  PROVE  Beyond(q, d, y)
<1>1. x \in Nat /\ y \in Nat /\ q.dist[x] \in Nat /\ q.dist[y] \in Nat
  BY NodesAre
<1> QED
  BY <1>1 DEF Beyond, Less

(* The metric cut removes what is beyond its distance.                     *)
LEMMA RadixCutIs ==
  ASSUME NEW q, IsQuery(q), NEW S \in SUBSET DOMAIN q.dist, NEW U, NEW V, NEW d \in Int
  PROVE  RadixCut(RadixOver(q, S, U, V), q, d)
           = RadixOver(q, {x \in S : ~Beyond(q, d, x)}, U, V)
<1> DEFINE b == RadixOver(q, S, U, V)
           F == {x \in S : ~Beyond(q, d, x)}
           c == Cardinality(S)
           D(k) == Drained(q, S, F, k)
           r == [k \in 0 .. c |-> RadixOver(q, D(k), U, V)]
           Halts(a) == a.active = {} \/ ~Beyond(q, d, RadixFarthest(a))
           Shorter(a) == IF Halts(a) THEN a ELSE RadixRemoveFarthest(a)
           Eq(h) == h = [m \in 0 .. c |-> IF m = 0 THEN b ELSE Shorter(h[m - 1])]
<1>1. Closed(q, S, F)
  <2>1. F \in SUBSET S
    OBVIOUS
  <2>2. ASSUME NEW x \in F, NEW y \in S, Less(q, y, x) PROVE y \in F
    BY <2>2, BeyondRises
  <2> QED
    BY <2>1, <2>2 DEF Closed
<1>2. \A x \in S : x \in F <=> ~Beyond(q, d, x)
  OBVIOUS
<1> HIDE DEF F
<1>3. /\ c \in Nat /\ D(0) = S /\ D(c) = F
      /\ \A k \in 0 .. c - 1 :
           /\ D(k) \in SUBSET S /\ F \subseteq D(k)
           /\ RadixOver(q, D(k + 1), U, V)
                = IF D(k) = F THEN RadixOver(q, D(k), U, V)
                  ELSE RadixRemoveFarthest(RadixOver(q, D(k), U, V))
  <2>1. DrainsTo(q, S, F, U, V)
    BY <1>1, Drains
  <2> QED
    BY <2>1 DEF DrainsTo
<1>4. \A A : RadixOver(q, A, U, V).active = A
  <2> TAKE A
  <2> DEFINE e == RadixOver(q, A, U, V)
             L == Layers(q, A)
             z == FALSE
  <2>1. e = RadixBeam(L, A, U, V, z)
    BY DEF RadixOver
  <2> HIDE DEF e, L, z
  <2>2. e.active = A
    BY <2>1, RadixFields
  <2> QED
    BY <2>2 DEF e
<1>5. ASSUME NEW A \in SUBSET S, F \subseteq A
      PROVE  Halts(RadixOver(q, A, U, V)) <=> A = F
  <2> DEFINE e == RadixOver(q, A, U, V)
             x == Ranked(q, A, Cardinality(A) - 1)
  <2>1. e.active = A
    BY <1>4
  <2>2. CASE A = {}
    <3> HIDE DEF e
    <3> QED
      BY <1>5, <2>1, <2>2 DEF e
  <2>3. CASE A # {}
    <3>1. RadixFarthest(e) = x
      BY <2>3, RadixFarthestIs
    <3>2. x \in A /\ \A y \in A : y # x => Less(q, y, x)
      BY <2>3, FarthestIs
    <3> HIDE DEF e, x
    <3>3. Halts(e) <=> ~Beyond(q, d, x)
      BY <2>1, <2>3, <3>1
    <3>4. ~Beyond(q, d, x) => \A y \in A : ~Beyond(q, d, y)
      BY <3>2, BeyondRises
    <3>5. ~Beyond(q, d, x) <=> A = F
      BY <1>2, <1>5, <3>2, <3>4
    <3> QED
      BY <3>3, <3>5 DEF e
  <2> QED
    BY <2>2, <2>3
<1>6. /\ r[0] = b /\ r[c] = RadixOver(q, F, U, V)
      /\ \A k \in 0 .. c - 1 : r[k + 1] = Shorter(r[k])
  <2>1. \A k \in 0 .. c : r[k] = RadixOver(q, D(k), U, V)
    OBVIOUS
  <2> HIDE DEF r, Halts
  <2>2. ASSUME NEW k \in 0 .. c - 1 PROVE r[k + 1] = Shorter(r[k])
    <3> DEFINE A == D(k)
    <3>1. k \in 0 .. c /\ k + 1 \in 0 .. c
      BY <1>3
    <3>2. A \in SUBSET S /\ F \subseteq A
      BY <1>3
    <3>3. r[k] = RadixOver(q, A, U, V)
          /\ r[k + 1] = IF A = F THEN r[k] ELSE RadixRemoveFarthest(r[k])
      BY <1>3, <2>1, <3>1
    <3> HIDE DEF A
    <3> QED
      BY <1>5, <3>2, <3>3
  <2> QED
    BY <1>3, <2>1, <2>2
<1>7. Eq(r)
  <2>1. ASSUME NEW k \in 0 .. c, k # 0 PROVE r[k] = Shorter(r[k - 1])
    <3>1. k - 1 \in 0 .. c - 1 /\ k - 1 + 1 = k
      BY <1>3, <2>1
    <3> HIDE DEF r, c, Shorter
    <3> QED
      BY <1>6, <3>1
  <2>2. r = [k \in 0 .. c |-> r[k]]
    OBVIOUS
  <2> HIDE DEF r, b, c, Shorter
  <2> QED
    BY <1>6, <2>1, <2>2
<1> DEFINE g == CHOOSE h : Eq(h)
<1>8. Eq(g)
  <2> HIDE DEF Eq
  <2> QED
    BY <1>7
<1>9. RadixCut(b, q, d) = g[c]
  <2>1. b.active = S
    BY <1>4
  <2> HIDE DEF b
  <2> QED
    BY <2>1 DEF RadixCut
<1>10. g[0] = b /\ \A k \in 0 .. c - 1 : g[k + 1] = Shorter(g[k])
  <2>1. g = [m \in 0 .. c |-> IF m = 0 THEN b ELSE Shorter(g[m - 1])]
    BY <1>8
  <2> HIDE DEF g, b, c, Shorter
  <2>2. ASSUME NEW k \in 0 .. c - 1 PROVE g[k + 1] = Shorter(g[k])
    <3> DEFINE h == k + 1
    <3>1. h \in 0 .. c /\ h # 0 /\ h - 1 = k
      BY <1>3
    <3> HIDE DEF h
    <3>2. g[h] = Shorter(g[h - 1])
      BY <2>1, <3>1
    <3> QED
      BY <3>1, <3>2 DEF h
  <2> QED
    BY <1>3, <2>1, <2>2
<1>11. g[c] = r[c]
  <2> HIDE DEF g, r, b, c, Shorter
  <2> QED
    BY <1>3, <1>6, <1>10, SameRun
<1> HIDE DEF g, r, b, c
<1> QED
  BY <1>6, <1>9, <1>11 DEF b, F

(* What is in earlier buckets than k.                                      *)
Lower(q, S, k) == {x \in S : Bucket(q, x) < k}

(* Buckets under one of S and that one split what comes before a vertex.   *)
LEMMA BelowIs ==
  ASSUME NEW q, IsQuery(q), NEW S \in SUBSET DOMAIN q.dist, NEW y \in S
  PROVE  LET k == Bucket(q, y)
         IN /\ Before(q, S, y) = Lower(q, S, k) \cup Before(q, Layer(q, S, k), y)
            /\ Lower(q, S, k) \cap Before(q, Layer(q, S, k), y) = {}
            /\ Cardinality(Before(q, S, y))
                 = Cardinality(Lower(q, S, k)) + Cardinality(Before(q, Layer(q, S, k), y))
<1> DEFINE k == Bucket(q, y)
           A == Lower(q, S, k)
           B == Before(q, Layer(q, S, k), y)
<1>1. \A x \in S : /\ Bucket(q, x) \in Int /\ k \in Int
                   /\ Less(q, x, y) => Bucket(q, x) <= k
                   /\ Less(q, y, x) => k <= Bucket(q, x)
  BY BucketRises
<1>2. \A x \in S : Less(q, x, y) \/ Less(q, y, x) \/ x = y
  BY LessOrders
<1> HIDE DEF k
<1>3. \A x \in S : Bucket(q, x) < k => Less(q, x, y)
  <2>1. k = Bucket(q, y)
    BY DEF k
  <2> QED
    BY <1>1, <1>2, <2>1
<1>4. \A x \in S : Less(q, x, y) <=> Bucket(q, x) < k \/ (Bucket(q, x) = k /\ Less(q, x, y))
  <2> TAKE x \in S
  <2>1. Less(q, x, y) => Bucket(q, x) < k \/ Bucket(q, x) = k
    BY <1>1
  <2> QED
    BY <1>3, <2>1
<1>5. Before(q, S, y) = A \cup B
  BY <1>4 DEF Before, Lower, Layer
<1>6. A \cap B = {}
  BY <1>1 DEF Before, Lower, Layer
<1>7. A \in SUBSET DOMAIN q.dist /\ B \in SUBSET DOMAIN q.dist
  BY DEF Lower, Before, Layer
<1> HIDE DEF A, B
<1>8. IsFiniteSet(A) /\ IsFiniteSet(B) /\ Cardinality(A) \in Nat /\ Cardinality(B) \in Nat
  BY <1>7, FiniteBefore
<1>9. Cardinality(A \cup B) = Cardinality(A) + Cardinality(B) - Cardinality(A \cap B)
  BY <1>8, FS_Union
<1>10. Cardinality(A \cup B) = Cardinality(A) + Cardinality(B)
  <2>1. Cardinality(A \cap B) = 0
    BY <1>6, FS_EmptySet
  <2> QED
    BY <1>8, <1>9, <2>1
<1> QED
  BY <1>5, <1>6, <1>10 DEF A, B, k

(* The places of the buckets under one.                                    *)
Places(L, k) == UNION {{m} \X (1 .. Len(L[m])) : m \in {m \in DOMAIN L : m < k}}

(* They are as many as the vertices in these buckets.                      *)
LEMMA PlacesAre ==
  ASSUME NEW q, IsQuery(q), NEW S \in SUBSET DOMAIN q.dist, NEW k \in Int
  PROVE  Cardinality(Places(Layers(q, S), k)) = Cardinality(Lower(q, S, k))
<1> DEFINE L == Layers(q, S)
           A == Lower(q, S, k)
           P == Places(L, k)
           rank(x) == Cardinality(Before(q, Layer(q, S, Bucket(q, x)), x))
           f == [x \in A |-> <<Bucket(q, x), 1 + rank(x)>>]
<1>1. /\ DOMAIN L = {Bucket(q, x) : x \in S}
      /\ \A m \in DOMAIN L : L[m] = Sorted(q, Layer(q, S, m))
  BY DEF Layers
<1>2. \A m : Layer(q, S, m) \in SUBSET DOMAIN q.dist
  BY DEF Layer
<1>3. \A m \in DOMAIN L : Len(L[m]) = Cardinality(Layer(q, S, m))
  BY <1>1, <1>2, SortedIs
<1>4. \A m : Cardinality(Layer(q, S, m)) \in Nat
  BY <1>2, FiniteBefore
<1>5. \A m : \A x \in Layer(q, S, m) :
        Cardinality(Before(q, Layer(q, S, m), x)) \in 0 .. Cardinality(Layer(q, S, m)) - 1
  <2> TAKE m
  <2> DEFINE Y == Layer(q, S, m)
  <2>1. Y \in SUBSET DOMAIN q.dist
    BY <1>2
  <2> HIDE DEF Y
  <2>2. \A x \in Y : Cardinality(Before(q, Y, x)) \in 0 .. Cardinality(Y) - 1
    BY <2>1, Ranks
  <2> QED
    BY <2>2 DEF Y
<1> HIDE DEF L
<1>6. \A x \in A : x \in S /\ Bucket(q, x) \in DOMAIN L /\ Bucket(q, x) < k
        /\ x \in Layer(q, S, Bucket(q, x))
  BY <1>1 DEF Lower, Layer
<1>7. IsFiniteSet(A)
  <2>1. A \in SUBSET DOMAIN q.dist
    BY DEF Lower
  <2> HIDE DEF A
  <2> QED
    BY <2>1, FiniteBefore
<1>8. ASSUME NEW x \in A PROVE f[x] \in P
  <2> DEFINE m == Bucket(q, x)
             n == 1 + rank(x)
  <2>1. m \in DOMAIN L /\ m < k /\ x \in Layer(q, S, m)
    BY <1>6
  <2>2. Cardinality(Before(q, Layer(q, S, m), x)) \in 0 .. Cardinality(Layer(q, S, m)) - 1
    BY <1>5, <2>1
  <2>3. n \in 1 .. Len(L[m])
    BY <1>3, <1>4, <2>1, <2>2
  <2>4. f[x] = <<m, n>>
    OBVIOUS
  <2> HIDE DEF f, m, n, A
  <2> QED
    BY <2>1, <2>3, <2>4 DEF Places
<1>9. ASSUME NEW p \in P PROVE \E x \in A : f[x] = p
  <2>1. PICK m \in DOMAIN L : m < k /\ p \in {m} \X (1 .. Len(L[m]))
    BY DEF Places
  <2>2. PICK n \in 1 .. Len(L[m]) : p = <<m, n>>
    BY <2>1
  <2>3. n - 1 \in 0 .. Cardinality(Layer(q, S, m)) - 1
    BY <1>3, <1>4, <2>1, <2>2
  <2>4. PICK x \in Layer(q, S, m) : Cardinality(Before(q, Layer(q, S, m), x)) = n - 1
    <3> DEFINE Y == Layer(q, S, m)
    <3>1. Y \in SUBSET DOMAIN q.dist /\ n - 1 \in 0 .. Cardinality(Y) - 1
      BY <1>2, <2>3
    <3> HIDE DEF Y
    <3>2. \E x \in Y : Cardinality(Before(q, Y, x)) = n - 1
      BY <3>1, RankedIs
    <3> QED
      BY <3>2 DEF Y
  <2>5. x \in A /\ Bucket(q, x) = m
    BY <2>1, <2>4 DEF Lower, Layer
  <2>6. f[x] = <<m, 1 + (n - 1)>>
    BY <2>4, <2>5
  <2>7. 1 + (n - 1) = n
    BY <2>2
  <2> QED
    BY <2>2, <2>5, <2>6, <2>7
<1>10. ASSUME NEW x \in A, NEW y \in A, f[x] = f[y] PROVE x = y
  <2> DEFINE m == Bucket(q, x)
             Y == Layer(q, S, m)
  <2>1. Bucket(q, y) = m /\ 1 + rank(x) = 1 + rank(y)
    BY <1>10
  <2>2. x \in Y /\ y \in Y
    BY <1>6, <2>1
  <2>3. Y \in SUBSET DOMAIN q.dist
    BY <1>2
  <2>4. rank(x) = Cardinality(Before(q, Y, x)) /\ rank(y) = Cardinality(Before(q, Y, y))
    BY <2>1
  <2>5. Cardinality(Before(q, Y, x)) \in Nat /\ Cardinality(Before(q, Y, y)) \in Nat
    BY <2>3, FiniteBefore
  <2> HIDE DEF Y, f, A, m
  <2>6. Cardinality(Before(q, Y, x)) = Cardinality(Before(q, Y, y))
    BY <2>1, <2>4, <2>5
  <2> QED
    BY <2>2, <2>3, <2>6, Ranks
<1>11. P = {f[x] : x \in A}
  <2> HIDE DEF f, A, P
  <2> QED
    BY <1>8, <1>9
<1> HIDE DEF f, A, P
<1>12. Cardinality(P) = Cardinality(A)
  BY <1>7, <1>10, <1>11, ImageCard
<1> QED
  BY <1>12 DEF P, A, L

(* Counting through the buckets finds the vertex of a rank.                *)
LEMMA RadixRankedIs ==
  ASSUME NEW q, IsQuery(q), NEW S \in SUBSET DOMAIN q.dist, NEW U, NEW V,
         NEW n \in 0 .. Cardinality(S) - 1
  PROVE  RadixRanked(RadixOver(q, S, U, V), n) = Ranked(q, S, n)
<1> DEFINE b == RadixOver(q, S, U, V)
           L == Layers(q, S)
           y == Ranked(q, S, n)
           h == Bucket(q, y)
           z == FALSE
           below(k) == Cardinality(Places(L, k))
           Holds(k) == below(k) <= n /\ n < below(k) + Len(L[k])
<1>1. b.radix = L
  <2>1. b = RadixBeam(L, S, U, V, z)
    BY DEF RadixOver
  <2> HIDE DEF b, L, z
  <2> QED
    BY <2>1, RadixFields
<1>2. y \in S /\ Cardinality(Before(q, S, y)) = n
  BY RankedIs
<1>3. n \in Nat
  BY FiniteBefore
<1> HIDE DEF y
<1>4. /\ DOMAIN L = {Bucket(q, x) : x \in S}
      /\ \A m \in DOMAIN L : L[m] = Sorted(q, Layer(q, S, m))
  BY DEF Layers
<1>5. DOMAIN L \subseteq Int /\ h \in DOMAIN L
  BY <1>2, <1>4, BucketRises
<1>6. \A m : Layer(q, S, m) \in SUBSET DOMAIN q.dist /\ Lower(q, S, m) \in SUBSET DOMAIN q.dist
  BY DEF Layer, Lower
<1>7. \A m : /\ IsFiniteSet(Layer(q, S, m)) /\ Cardinality(Layer(q, S, m)) \in Nat
             /\ IsFiniteSet(Lower(q, S, m)) /\ Cardinality(Lower(q, S, m)) \in Nat
  BY <1>6, FiniteBefore
<1>8. \A m \in DOMAIN L : /\ Len(L[m]) = Cardinality(Layer(q, S, m))
                          /\ below(m) = Cardinality(Lower(q, S, m))
  <2> TAKE m \in DOMAIN L
  <2>1. Len(L[m]) = Cardinality(Layer(q, S, m))
    BY <1>4, <1>6, SortedIs
  <2>2. below(m) = Cardinality(Lower(q, S, m))
    BY <1>5, PlacesAre
  <2> QED
    BY <2>1, <2>2
<1> DEFINE low(m) == Cardinality(Lower(q, S, m))
           size(m) == Cardinality(Layer(q, S, m))
           B == Before(q, Layer(q, S, h), y)
<1>9. n = low(h) + Cardinality(B)
  BY <1>2, BelowIs
<1>10. y \in Layer(q, S, h) /\ Cardinality(B) \in 0 .. size(h) - 1
  <2>1. y \in Layer(q, S, h)
    BY <1>2 DEF Layer
  <2> DEFINE Y == Layer(q, S, h)
  <2>2. Y \in SUBSET DOMAIN q.dist
    BY <1>6
  <2> HIDE DEF Y, h
  <2>3. Cardinality(Before(q, Y, y)) \in 0 .. Cardinality(Y) - 1
    BY <2>1, <2>2, Ranks DEF Y
  <2> QED
    BY <2>1, <2>3 DEF Y
<1>11. \A k, m \in DOMAIN L : k < m => low(k) + size(k) <= low(m)
  <2> TAKE k, m \in DOMAIN L
  <2> HAVE k < m
  <2> DEFINE A == Lower(q, S, k)
             C == Layer(q, S, k)
             E == Lower(q, S, m)
  <2>1. k \in Int /\ m \in Int
    BY <1>5
  <2>2. \A x \in S : Bucket(q, x) \in Int
    BY BucketRises
  <2>3. A \cup C \subseteq E /\ A \cap C = {}
    BY <2>1, <2>2 DEF Lower, Layer
  <2>4. IsFiniteSet(A) /\ IsFiniteSet(C) /\ IsFiniteSet(E)
        /\ Cardinality(A) \in Nat /\ Cardinality(C) \in Nat /\ Cardinality(E) \in Nat
    BY <1>7
  <2> HIDE DEF A, C, E
  <2>5. Cardinality(A \cup C) = Cardinality(A) + Cardinality(C) - Cardinality(A \cap C)
    BY <2>4, FS_Union
  <2>6. Cardinality(A \cap C) = 0
    BY <2>3, FS_EmptySet
  <2>7. Cardinality(A \cup C) <= Cardinality(E)
    BY <2>3, <2>4, FS_Subset
  <2>8. Cardinality(A) + Cardinality(C) <= Cardinality(E)
    BY <2>4, <2>5, <2>6, <2>7
  <2> QED
    BY <2>8 DEF A, C, E
<1>12. Holds(h)
  <2>1. below(h) = low(h) /\ Len(L[h]) = size(h)
    BY <1>5, <1>8
  <2>2. low(h) \in Nat /\ size(h) \in Nat
    BY <1>7
  <2> HIDE DEF low, size, B, h, L, below
  <2> QED
    BY <1>3, <1>9, <1>10, <2>1, <2>2
<1>13. ASSUME NEW k \in DOMAIN L, Holds(k) PROVE k = h
  <2>1. low(k) <= n /\ n < low(k) + size(k) /\ low(h) <= n /\ n < low(h) + size(h)
    BY <1>5, <1>8, <1>12, <1>13
  <2>2. k \in Int /\ h \in Int /\ low(k) \in Nat /\ low(h) \in Nat
        /\ size(k) \in Nat /\ size(h) \in Nat
    BY <1>5, <1>7
  <2>3. (k < h => low(k) + size(k) <= low(h)) /\ (h < k => low(h) + size(h) <= low(k))
    BY <1>5, <1>11
  <2> HIDE DEF low, size, h
  <2> QED
    BY <1>3, <2>1, <2>2, <2>3
<1>14. (CHOOSE m \in DOMAIN L : Holds(m)) = h
  <2> HIDE DEF L, Holds, h
  <2> QED
    BY <1>5, <1>12, <1>13
<1>15. RadixRanked(b, n) = L[h][n - below(h) + 1]
  <2> DEFINE k == CHOOSE m \in DOMAIN L : Holds(m)
  <2>1. RadixRanked(b, n) = L[k][n - below(k) + 1]
    <3> HIDE DEF b, L
    <3> QED
      BY <1>1 DEF RadixRanked, Places
  <2>2. k = h
    BY <1>14
  <2> HIDE DEF k
  <2> QED
    BY <2>1, <2>2
<1>16. L[h][n - below(h) + 1] = y
  <2> DEFINE Y == Layer(q, S, h)
             r == Cardinality(Before(q, Y, y))
  <2>1. Y \in SUBSET DOMAIN q.dist /\ L[h] = Sorted(q, Y) /\ y \in Y
    BY <1>4, <1>5, <1>6, <1>10
  <2>2. below(h) = low(h) /\ n = low(h) + r /\ low(h) \in Nat
        /\ r \in 0 .. Cardinality(Y) - 1 /\ Cardinality(Y) \in Nat
    BY <1>5, <1>7, <1>8, <1>9, <1>10
  <2>3. Ranked(q, Y, r) = y
    <3> HIDE DEF Y, y
    <3> QED
      BY <2>1, RankIs
  <2> DEFINE m == n - below(h) + 1
  <2>4. m \in 1 .. Cardinality(Y) /\ m - 1 = r
    <3> HIDE DEF Y, h, L, low, below, r
    <3> QED
      BY <2>2
  <2> HIDE DEF Y, h, L, m
  <2>5. Sorted(q, Y)[m] = Ranked(q, Y, m - 1)
    BY <2>4 DEF Sorted
  <2>6. L[h][m] = y
    BY <2>1, <2>3, <2>4, <2>5
  <2> QED
    BY <2>6 DEF m
<1> HIDE DEF b, L, h, below
<1> QED
  BY <1>15, <1>16 DEF b, y

(* A search begins over its starts.                                        *)
LEMMA RadixResetIs ==
  ASSUME NEW q, IsQuery(q)
  PROVE  RadixReset(q) = RadixOver(q, ToSet(q.starts), ToSet(q.starts), {})
<1> DEFINE S == ToSet(q.starts)
           b == RadixOver(q, {}, {}, {})
<1>1. q.starts \in Seq(DOMAIN q.dist) /\ {} \in SUBSET DOMAIN q.dist
  BY DEF IsQuery
<1>2. Layers(q, {}) = <<>>
  <2> DEFINE L == Layers(q, {})
  <2>1. {Bucket(q, x) : x \in {}} = 1 .. 0
    OBVIOUS
  <2>2. L = [k \in 1 .. 0 |-> Sorted(q, Layer(q, {}, k))]
    BY <2>1 DEF Layers
  <2>3. L \in [1 .. 0 -> {}] /\ Len(L) = 0
    <3> DEFINE e(k) == Sorted(q, Layer(q, {}, k))
    <3>1. L = [k \in 1 .. 0 |-> e(k)] /\ \A k \in 1 .. 0 : e(k) \in {}
      BY <2>2
    <3> HIDE DEF L, e
    <3> QED
      BY <3>1
  <2> HIDE DEF L
  <2>4. L \in Seq({})
    BY <2>3
  <2> QED
    BY <2>3, <2>4, EmptySeq DEF L
<1>3. b = [radix |-> <<>>, active |-> {}, unvisited |-> {}, visited |-> {}, failed |-> FALSE]
  BY <1>2 DEF RadixOver, RadixBeam
<1>4. RadixReset(q) = RadixInserts(b, q, q.starts)
  BY <1>3 DEF RadixReset
<1>5. RadixInserts(b, q, q.starts) = RadixOver(q, {} \cup S, {} \cup (S \ {}), {})
  BY <1>1, RadixInsertsIs
<1>6. {} \cup S = S /\ {} \cup (S \ {}) = S
  OBVIOUS
<1> HIDE DEF b, S
<1> QED
  BY <1>4, <1>5, <1>6 DEF S

(* A step visits the nearest unvisited vertex and merges what beats the    *)
(* cutoff; what is stale in its queue is dropped, all else is kept.        *)
LEMMA RadixStepIs ==
  ASSUME NEW q, IsQuery(q), NEW S \in SUBSET DOMAIN q.dist, NEW U, NEW V,
         S \ V \subseteq U, S \ V # {}, NEW keep, ToSet(keep) \subseteq DOMAIN q.dist
  PROVE  LET x == Ranked(q, S \ V, 0)
             N == {y \in ToSet(keep) : q.dist[y] < Cutoff(q, S, q.beam)}
             T == MetricCut(q, Nearest(q, S \cup N, q.beam))
         IN \E W : /\ RadixStep(RadixOver(q, S, U, V), q, keep)
                        = RadixOver(q, T, W, V \cup {x})
                   /\ T \ (V \cup {x}) \subseteq W
<1> DEFINE b == RadixOver(q, S, U, V)
           x == Ranked(q, S \ V, 0)
           cutoff == Cutoff(q, S, q.beam)
           N == {y \in ToSet(keep) : q.dist[y] < cutoff}
           M == Nearest(q, S \cup N, q.beam)
           T == MetricCut(q, M)
           Y == V \cup {x}
           R == {y \in U : Less(q, x, y)}
           W == R \cup (N \ S)
           v == RadixSeen(b, Y, R)
           z == FALSE
           L == Layers(q, S)
           d == CutDistance(q, q.dist[Ranked(q, M, q.k)])
           c == RadixTrim(RadixInserts(v, q, Candidates(q, keep, cutoff)), q.beam)
<1>1. q.beam \in Nat /\ q.k \in Nat \ {0} /\ q.k <= q.beam
  BY NodesAre
<1>2. x \in S \ V /\ \A y \in S \ V : y # x => Less(q, x, y)
  <2> DEFINE O == S \ V
  <2>1. O \in SUBSET DOMAIN q.dist /\ O # {}
    OBVIOUS
  <2> HIDE DEF O
  <2>2. IsFiniteSet(O) /\ Cardinality(O) \in Nat /\ Cardinality(O) # 0
    BY <2>1, FiniteBefore, FS_EmptySet
  <2>3. 0 \in 0 .. Cardinality(O) - 1
    BY <2>2
  <2> DEFINE o == Ranked(q, O, 0)
  <2>4. o \in O /\ Cardinality(Before(q, O, o)) = 0
    BY <2>1, <2>3, RankedIs
  <2>5. Before(q, O, o) = {}
    BY <2>1, <2>4, FiniteBefore, FS_EmptySet
  <2> HIDE DEF o
  <2>6. \A y \in O : y # o => Less(q, o, y)
    BY <2>1, <2>4, <2>5, LessOrders DEF Before
  <2> QED
    BY <2>4, <2>6 DEF o, O
<1>3. /\ b = RadixBeam(L, S, U, V, z)
      /\ b.radix = L /\ b.active = S /\ b.unvisited = U /\ b.visited = V
  <2>1. b = RadixBeam(L, S, U, V, z)
    BY DEF RadixOver
  <2> HIDE DEF b, L, z
  <2> QED
    BY <2>1, RadixFields
<1>4. RadixOpen(b) = S \ V
  <2> HIDE DEF b
  <2> QED
    BY <1>3 DEF RadixOpen
<1>5. v = RadixOver(q, S, R, Y)
  <2>1. v = RadixBeam(L, S, R, Y, z)
    <3> HIDE DEF b, L, Y, R, z
    <3> QED
      BY <1>3, RadixVisits
  <2> HIDE DEF v
  <2> QED
    BY <2>1 DEF RadixOver
<1>6. (IF Cardinality(v.active) < q.beam THEN Infinite ELSE q.dist[RadixFarthest(v)]) = cutoff
  <2>1. v.active = S
    <3>1. v = RadixBeam(L, S, R, Y, z)
      BY <1>5 DEF RadixOver
    <3> HIDE DEF v, L, R, Y, z
    <3> QED
      BY <3>1, RadixFields
  <2>2. S # {} /\ RadixFarthest(v) = Ranked(q, S, Cardinality(S) - 1)
    <3>1. S # {}
      BY <1>2
    <3> HIDE DEF v, R, Y
    <3> QED
      BY <1>5, <3>1, RadixFarthestIs
  <2> HIDE DEF v
  <2> QED
    BY <2>1, <2>2 DEF Cutoff
<1>7. RadixStep(b, q, keep) =
        IF q.metric /\ Cardinality(c.active) > q.k
        THEN RadixCut(c, q, CutDistance(q, q.dist[RadixRanked(c, q.k)])) ELSE c
  <2>1. v = [b EXCEPT !.visited = b.visited \cup {x},
                      !.unvisited = {y \in b.unvisited : Less(q, x, y)}]
    <3> HIDE DEF b, x
    <3> QED
      BY <1>3 DEF RadixSeen
  <2>2. x = Ranked(q, RadixOpen(b), 0)
    BY <1>4
  <2> HIDE DEF b, x
  <2>3. v = [b EXCEPT !.visited = @ \cup {x}, !.unvisited = {y \in @ : Less(q, x, y)}]
    BY <2>1
  <2> HIDE DEF v, cutoff
  <2> QED
    BY <1>6, <2>2, <2>3 DEF RadixStep
<1>8. N \in SUBSET DOMAIN q.dist
  OBVIOUS
<1> HIDE DEF N
<1>9. Candidates(q, keep, cutoff) \in Seq(DOMAIN q.dist)
      /\ ToSet(Candidates(q, keep, cutoff)) = N
  <2>1. Candidates(q, keep, cutoff) = Sorted(q, N)
    BY DEF Candidates, N
  <2> QED
    BY <1>8, <2>1, SortedIs
<1>10. c = RadixOver(q, M, W, Y)
  <2> DEFINE s == Candidates(q, keep, cutoff)
             A == S \cup N
  <2>1. RadixInserts(RadixOver(q, S, R, Y), q, s) = RadixOver(q, A, W, Y)
    <3> HIDE DEF s, R, Y
    <3>1. s \in Seq(DOMAIN q.dist) /\ ToSet(s) = N
      BY <1>9 DEF s
    <3>2. RadixInserts(RadixOver(q, S, R, Y), q, s)
            = RadixOver(q, S \cup ToSet(s), R \cup (ToSet(s) \ S), Y)
      BY <3>1, RadixInsertsIs
    <3> QED
      BY <3>1, <3>2
  <2>2. A \in SUBSET DOMAIN q.dist
    BY <1>8
  <2> HIDE DEF s, A, W, Y, v, R
  <2>3. RadixTrim(RadixOver(q, A, W, Y), q.beam) = RadixOver(q, Nearest(q, A, q.beam), W, Y)
    BY <1>1, <2>2, RadixTrimIs
  <2>4. c = RadixTrim(RadixInserts(v, q, s), q.beam)
    BY DEF s
  <2> QED
    BY <1>5, <2>1, <2>3, <2>4 DEF A
<1> HIDE DEF c
<1>11. c.active = M
  <2> DEFINE K == Layers(q, M)
  <2>1. c = RadixBeam(K, M, W, Y, z)
    BY <1>10 DEF RadixOver
  <2> HIDE DEF K, M, W, Y, z
  <2> QED
    BY <2>1, RadixFields
<1>12. M \in SUBSET DOMAIN q.dist /\ IsFiniteSet(M) /\ Cardinality(M) \in Nat
  <2>1. M \in SUBSET DOMAIN q.dist
    BY <1>8 DEF Nearest
  <2> HIDE DEF M
  <2> QED
    BY <2>1, FiniteBefore
<1>13. T \subseteq M
  BY DEF MetricCut
<1>14. T \ Y \subseteq W
  <2>1. M \subseteq S \cup N
    BY DEF Nearest
  <2> HIDE DEF M, T
  <2> QED
    BY <1>2, <1>13, <2>1
<1> HIDE DEF M
<1>15. RadixStep(b, q, keep) = RadixOver(q, T, W, Y)
  <2>1. CASE q.metric /\ Cardinality(M) > q.k
    <3>1. q.k \in 0 .. Cardinality(M) - 1
      BY <1>1, <1>12, <2>1
    <3>2. RadixRanked(c, q.k) = Ranked(q, M, q.k)
      <4> HIDE DEF W, Y
      <4> QED
        BY <1>10, <1>12, <3>1, RadixRankedIs
    <3>3. d \in Int
      <4>1. Ranked(q, M, q.k) \in M
        BY <1>12, <3>1, RankedIs
      <4> DEFINE e == q.dist[Ranked(q, M, q.k)]
      <4>2. e \in Nat /\ q.num \in Nat /\ q.den \in Nat \ {0}
        BY <1>12, <4>1, NodesAre
      <4> HIDE DEF e
      <4>3. CutDistance(q, e) \in Int
        <5> DEFINE m == q.num * e
        <5>1. m \in Int
          BY <4>2
        <5> HIDE DEF m
        <5>2. m \div q.den \in Int
          BY <4>2, <5>1
        <5> QED
          BY <5>2 DEF CutDistance, m
      <4> QED
        BY <4>3 DEF e
    <3>4. RadixStep(b, q, keep) = RadixCut(c, q, d)
      <4> HIDE DEF b
      <4> QED
        BY <1>7, <1>11, <2>1, <3>2
    <3> HIDE DEF d
    <3>5. RadixCut(c, q, d) = RadixOver(q, {y \in M : ~Beyond(q, d, y)}, W, Y)
      <4> HIDE DEF W, Y
      <4> QED
        BY <1>10, <1>12, <3>3, RadixCutIs
    <3>6. T = {y \in M : ~Beyond(q, d, y)}
      BY <2>1 DEF MetricCut, d
    <3> HIDE DEF T, b, W, Y
    <3> QED
      BY <3>4, <3>5, <3>6
  <2>2. CASE ~ (q.metric /\ Cardinality(M) > q.k)
    <3>1. T = M
      BY <2>2 DEF MetricCut
    <3> HIDE DEF T, b, W, Y
    <3> QED
      BY <1>7, <1>10, <1>11, <2>2, <3>1
  <2> QED
    BY <2>1, <2>2
<1> HIDE DEF b, T, W, Y
<1>16. \E w : RadixStep(b, q, keep) = RadixOver(q, T, w, Y) /\ T \ Y \subseteq w
  BY <1>14, <1>15
<1> QED
  BY <1>16 DEF b, T, Y, M, N

-----------------------------------------------------------------------------
(* The invariant of the plain searches.                                    *)

(* The searches over a sorted vector, the fixed or the radix frontier.     *)
Plain == {"reusable", "batched", "memo", "spill", "fixed", "radix"}

(* No cell has a later epoch than the filter's.                            *)
FilterInv ==
  /\ filter = [size |-> filter.size, epoch |-> filter.epoch, cells |-> filter.cells]
  /\ filter.epoch \in Nat /\ filter.cells \in Cells(filter)

(* No stamp is later than the memo's epoch, and what it holds of the       *)
(* current query is exact.                                                 *)
MemoInv ==
  /\ memo = [value |-> memo.value, stamp |-> memo.stamp, epoch |-> memo.epoch]
  /\ memo.epoch \in Nat
  /\ memo.value \in [Nodes -> Nat] /\ memo.stamp \in [Nodes -> 0 .. memo.epoch]
  /\ Started /\ engine = "memo" =>
       \A x \in Nodes : Hit(memo, x) => memo.value[x] = query.dist[x]

(* The sorted vector, which never fails.                                   *)
VectorInv ==
  /\ beam = [frontier |-> beam.frontier, visited |-> beam.visited, failed |-> beam.failed]
  /\ beam.failed = FALSE

(* The fixed frontier, field by field.                                     *)
FixedBeam(f, g, e, v, s, z) ==
  [frontier |-> f, flags |-> g, epoch |-> e, visited |-> v, status |-> s, failed |-> z]

(* No status is later than the frontier's epoch.                           *)
FixedShape ==
  /\ beam = FixedBeam(beam.frontier, beam.flags, beam.epoch, beam.visited,
                      beam.status, beam.failed)
  /\ beam.failed = FALSE
  /\ beam.epoch \in Nat
  /\ beam.status \in [Nodes -> [stamp : 0 .. beam.epoch, visited : BOOLEAN]]

(* The fixed frontier is sorted, its flags agree with the statuses and     *)
(* both with what was visited.                                             *)
FixedInv ==
  /\ beam.frontier = Sorted(query, ToSet(beam.frontier))
  /\ beam.flags \in [1 .. Len(beam.frontier) -> BOOLEAN]
  /\ FixedAgrees(beam)
  /\ \A x \in Nodes : EverVisited(beam, x) <=> x \in beam.visited

(* The radix frontier holds its vertices in sorted buckets, and all it has *)
(* not visited awaits a visit.                                             *)
RadixInv ==
  /\ beam = RadixOver(query, beam.active, beam.unvisited, beam.visited)
  /\ beam.active \ beam.visited \subseteq beam.unvisited

(* The container, as the search in use has it.                             *)
ContainerInv ==
  /\ engine = "fixed" => FixedShape /\ (Started => FixedInv)
  /\ engine = "radix" /\ Started => RadixInv
  /\ Vector /\ Started => VectorInv

(* All that is in the beam, visited, kept or spilled was scored; each      *)
(* expansion visits one more vertex; only a continuation is wider.         *)
SearchInv ==
  Started =>
    /\ Active \subseteq observed /\ observed \subseteq Nodes
    /\ beam.visited \subseteq observed
    /\ visits = Cardinality(beam.visited)
    /\ ~widened => width = query.beam /\ top = {}
    /\ widened => engine = "spill" /\ width = query.beam + AddedWidth
    /\ phase = "searching" => Cardinality(Active) <= width
    /\ top \subseteq observed
    /\ spill.width \subseteq observed /\ spill.cutoff \subseteq observed
    /\ DOMAIN spill.prefix \subseteq observed

(* The inductive invariant of these searches.                              *)
PlainInv ==
  /\ engine \in Plain /\ served \in Nat /\ widened \in BOOLEAN
  /\ phase \in {"idle", "searching", "answered"}
  /\ \E n \in 1 .. Len(Queries) : query \in Queries[n]
  /\ scored = query.dist
  /\ served > 0 => Started
  /\ FilterInv /\ MemoInv /\ ContainerInv /\ SearchInv

(* The view of the query with its own distances is the query.              *)
LEMMA SameQuery ==
  ASSUME NEW q, IsQuery(q)
  PROVE  [q EXCEPT !.dist = q.dist] = q
<1>1. \E E, D, P, S : q \in [edges : E, dist : D,
            prefix : P, starts : S, self : Int,
            beam : Nat, k : Nat \ {0}, num : Nat, den : Nat \ {0},
            metric : BOOLEAN, limit : Nat, degree : Nat, offset : Nat,
            stride : Nat \ {0}, slots : Nat \ {0}, eligible : BOOLEAN,
            force : BOOLEAN]
  BY DEF IsQuery
<1> QED
  BY <1>1

(* The query is one, its view is itself, and it fits the filter.           *)
LEMMA QueryFacts ==
  ASSUME PlainInv
  PROVE  /\ IsQuery(query) /\ query.slots <= SlotMax /\ View = query
         /\ FitsFilter(filter, query)
         /\ \A n \in 1 .. Len(Queries) : \A q \in Queries[n] : DOMAIN q.dist = Nodes
<1>1. PICK n \in 1 .. Len(Queries) : query \in Queries[n]
  BY DEF PlainInv
<1>2. IsQuery(query) /\ query.slots <= SlotMax
  BY <1>1, QueryIs
<1>3. View = query
  BY <1>2, SameQuery DEF PlainInv, View
<1>4. FitsFilter(filter, query)
  BY <1>2 DEF FitsFilter, PlainInv, FilterInv
<1>5. ASSUME NEW m \in 1 .. Len(Queries), NEW q \in Queries[m]
      PROVE DOMAIN q.dist = Nodes
  BY <1>1, QueryAssumption DEF Nodes
<1> QED
  BY <1>2, <1>3, <1>4, <1>5

(* What the case distinctions come to for these searches.                  *)
LEMMA PlainCases ==
  ASSUME engine \in Plain
  PROVE  /\ engine = "fixed" \/ engine = "radix" \/ Vector
         /\ Vector => engine # "fixed" /\ engine # "radix"
         /\ Active = IF engine = "fixed" THEN ToSet(beam.frontier)
                     ELSE IF engine = "radix" THEN beam.active ELSE beam.frontier
         /\ Open = IF engine = "fixed"
                   THEN IF FixedIndex(beam) = 0 THEN {} ELSE {beam.frontier[FixedIndex(beam)]}
                   ELSE IF engine = "radix" THEN RadixOpen(beam)
                   ELSE beam.frontier \ beam.visited
         /\ NextVertex = Ranked(View, Open, 0)
         /\ \A q : Reset(q) = IF engine = "fixed" THEN FixedReset(beam, q)
              ELSE IF engine = "radix" THEN RadixReset(q) ELSE VectorReset(q)
         /\ \A q, keep :
              Step(q, keep) =
                IF engine = "fixed" THEN FixedStep(beam, q, keep)
                ELSE IF engine = "radix" THEN RadixStep(beam, q, keep)
                ELSE IF engine = "memo" THEN MemoStep(beam, memo, q, keep)
                ELSE VectorStep(beam, q, keep, width)
<1> USE DEF Plain, Vector
<1>1. /\ engine = "fixed" \/ engine = "radix" \/ Vector
      /\ Vector => engine # "fixed" /\ engine # "radix"
  OBVIOUS
<1>2. Active = IF engine = "fixed" THEN ToSet(beam.frontier)
               ELSE IF engine = "radix" THEN beam.active ELSE beam.frontier
  BY DEF Active
<1>3. Open = IF engine = "fixed"
             THEN IF FixedIndex(beam) = 0 THEN {} ELSE {beam.frontier[FixedIndex(beam)]}
             ELSE IF engine = "radix" THEN RadixOpen(beam) ELSE beam.frontier \ beam.visited
  BY DEF Open
<1>4. NextVertex = Ranked(View, Open, 0)
  BY DEF NextVertex
<1>5. \A q : Reset(q) = IF engine = "fixed" THEN FixedReset(beam, q)
        ELSE IF engine = "radix" THEN RadixReset(q) ELSE VectorReset(q)
  BY DEF Reset
<1>6. \A q, keep :
        Step(q, keep) =
          IF engine = "fixed" THEN FixedStep(beam, q, keep)
          ELSE IF engine = "radix" THEN RadixStep(beam, q, keep)
          ELSE IF engine = "memo" THEN MemoStep(beam, memo, q, keep)
          ELSE VectorStep(beam, q, keep, width)
  BY DEF Step
<1> QED
  BY <1>1, <1>2, <1>3, <1>4, <1>5, <1>6

(* The fields of the radix frontier.                                       *)
LEMMA RadixHolds ==
  ASSUME NEW b, NEW q, NEW S, NEW U, NEW V, b = RadixOver(q, S, U, V)
  PROVE  b.active = S /\ b.unvisited = U /\ b.visited = V
BY DEF RadixOver, RadixBeam

-----------------------------------------------------------------------------
(* Beginning a search.                                                     *)

(* A new epoch, or new cells, empty the filter.                            *)
LEMMA FilterBegins ==
  ASSUME FilterInv, NEW q, IsQuery(q), q.slots <= SlotMax
  PROVE  LET g == FilterBegin(filter, q)
         IN /\ g = [size |-> g.size, epoch |-> g.epoch, cells |-> g.cells]
            /\ g.epoch \in Nat /\ g.cells \in Cells(g)
            /\ Stands(g, q, g.cells) = EmptyFilter(q)
<1> DEFINE renewed == \/ FilterKind = "fresh" \/ filter.epoch + 1 > FilterEpochMax
                      \/ FilterKind = "packed" /\ filter.size # q.slots
           g == FilterBegin(filter, q)
           D == 0 .. SlotMax - 1
<1>1. /\ filter.epoch \in Nat
      /\ filter.cells \in [D -> [id : Int, epoch : 0 .. filter.epoch]]
  BY DEF FilterInv, Cells
<1>2. g = [size |-> q.slots, epoch |-> IF renewed THEN 1 ELSE filter.epoch + 1,
           cells |-> IF renewed THEN [n \in DOMAIN filter.cells |-> NoCell]
             ELSE filter.cells]
  BY DEF FilterBegin
<1> HIDE DEF renewed, g
<1>3. g = [size |-> g.size, epoch |-> g.epoch, cells |-> g.cells] /\ g.epoch \in Nat
  BY <1>1, <1>2
<1>4. g.cells \in [D -> [id : Int, epoch : 0 .. g.epoch]]
        /\ \A n \in D : g.cells[n].epoch # g.epoch
  <2>1. CASE renewed
    <3>1. g.epoch = 1 /\ g.cells = [n \in D |-> NoCell]
      BY <1>1, <1>2, <2>1
    <3>2. NoCell \in [id : Int, epoch : 0 .. 1] /\ NoCell.epoch = 0
      BY DEF NoCell
    <3> QED
      BY <3>1, <3>2
  <2>2. CASE ~renewed
    <3>1. g.epoch = filter.epoch + 1 /\ g.cells = filter.cells
      BY <1>2, <2>2
    <3>2. [id : Int, epoch : 0 .. filter.epoch]
            \subseteq [id : Int, epoch : 0 .. filter.epoch + 1]
      BY <1>1
    <3>3. \A n \in D : filter.cells[n] \in [id : Int, epoch : 0 .. filter.epoch]
      BY <1>1
    <3>4. \A n \in D : filter.cells[n].epoch # filter.epoch + 1
      BY <1>1, <3>3
    <3> QED
      BY <1>1, <3>1, <3>2, <3>4
  <2> QED
    BY <2>1, <2>2
<1>5. \A n \in Slots(q) : n \in D
  BY NodesAre, FilterAssumption DEF Slots, IsQuery
<1>6. Stands(g, q, g.cells) = EmptyFilter(q)
  BY <1>4, <1>5 DEF Stands, EmptyFilter, Slots
<1> QED
  BY <1>3, <1>4, <1>6 DEF Cells, g

(* A new epoch, or new stamps, empty the memo of all but the starts.       *)
LEMMA MemoBegins ==
  ASSUME PlainInv, NEW q, IsQuery(q), DOMAIN q.dist = Nodes
  PROVE  LET m == MemoInsert(MemoBegin(memo), q, ToSet(q.starts))
         IN /\ m = [value |-> m.value, stamp |-> m.stamp, epoch |-> m.epoch]
            /\ m.epoch \in Nat
            /\ m.value \in [Nodes -> Nat] /\ m.stamp \in [Nodes -> 0 .. m.epoch]
            /\ \A x \in Nodes : Hit(m, x) => m.value[x] = q.dist[x]
<1> DEFINE b == MemoBegin(memo)
           new == ToSet(q.starts)
           m == MemoInsert(b, q, new)
<1>1. /\ memo = [value |-> memo.value, stamp |-> memo.stamp, epoch |-> memo.epoch]
      /\ memo.epoch \in Nat
      /\ memo.value \in [Nodes -> Nat] /\ memo.stamp \in [Nodes -> 0 .. memo.epoch]
  BY DEF PlainInv, MemoInv
<1>2. /\ b = [value |-> memo.value, stamp |-> b.stamp, epoch |-> b.epoch]
      /\ b.epoch \in Nat \ {0} /\ b.stamp \in [Nodes -> 0 .. b.epoch]
      /\ \A x \in Nodes : b.stamp[x] # b.epoch
  <2>1. CASE memo.epoch = MemoEpochMax
    <3>1. b = [memo EXCEPT !.stamp = [x \in DOMAIN memo.stamp |-> 0], !.epoch = 1]
      BY <2>1 DEF MemoBegin
    <3>2. b = [value |-> memo.value, stamp |-> [x \in Nodes |-> 0], epoch |-> 1]
      BY <1>1, <3>1
    <3> HIDE DEF b
    <3> QED
      BY <3>2
  <2>2. CASE memo.epoch # MemoEpochMax
    <3>1. b = [memo EXCEPT !.epoch = memo.epoch + 1]
      BY <2>2 DEF MemoBegin
    <3>2. b = [value |-> memo.value, stamp |-> memo.stamp, epoch |-> memo.epoch + 1]
      BY <1>1, <3>1
    <3> HIDE DEF b
    <3>3. 0 .. memo.epoch \subseteq 0 .. memo.epoch + 1
      BY <1>1
    <3>4. \A x \in Nodes : memo.stamp[x] \in 0 .. memo.epoch
      BY <1>1
    <3>5. \A x \in Nodes : memo.stamp[x] # memo.epoch + 1
      BY <1>1, <3>4
    <3> QED
      BY <1>1, <3>2, <3>3, <3>5
  <2> QED
    BY <2>1, <2>2
<1> HIDE DEF b
<1>3. m = [value |-> [x \in Nodes |-> IF x \in new THEN q.dist[x] ELSE memo.value[x]],
           stamp |-> [x \in Nodes |-> IF x \in new THEN b.epoch ELSE b.stamp[x]],
           epoch |-> b.epoch]
  <2>1. m = [b EXCEPT
               !.value = [x \in DOMAIN b.value |->
                            IF x \in new THEN q.dist[x] ELSE b.value[x]],
               !.stamp = [x \in DOMAIN b.stamp |->
                            IF x \in new THEN b.epoch ELSE b.stamp[x]]]
    BY DEF MemoInsert
  <2>2. b.value = memo.value /\ DOMAIN b.value = Nodes /\ DOMAIN b.stamp = Nodes
    BY <1>1, <1>2
  <2> HIDE DEF new, m
  <2> QED
    BY <1>2, <2>1, <2>2
<1> HIDE DEF m, new
<1>4. \A x \in Nodes : q.dist[x] \in Nat
  BY NodesAre
<1>5. m.value \in [Nodes -> Nat]
  BY <1>1, <1>3, <1>4
<1>6. m.stamp \in [Nodes -> 0 .. m.epoch] /\ m.epoch \in Nat
  BY <1>2, <1>3
<1>7. \A x \in Nodes : Hit(m, x) => m.value[x] = q.dist[x]
  BY <1>2, <1>3 DEF Hit
<1> QED
  BY <1>3, <1>5, <1>6, <1>7 DEF m, b, new

(* The fixed frontier starts over with the starts, none of them visited,   *)
(* whatever the last search left in its statuses.                          *)
LEMMA FixedBegins ==
  ASSUME FixedShape, NEW q, IsQuery(q), DOMAIN q.dist = Nodes
  PROVE  LET b == FixedReset(beam, q)
         IN /\ b = FixedBeam(Sorted(q, ToSet(q.starts)), b.flags, b.epoch, {}, b.status,
                 beam.failed)
            /\ b.epoch \in Nat
            /\ b.status \in [Nodes -> [stamp : 0 .. b.epoch, visited : BOOLEAN]]
            /\ b.frontier = Sorted(q, ToSet(q.starts)) /\ b.visited = {}
            /\ b.failed = beam.failed
            /\ b.flags = [n \in 1 .. Len(b.frontier) |-> FALSE]
            /\ \A x \in Nodes : ~EverVisited(b, x)
<1> DEFINE wraps == beam.epoch + 1 > FixedEpochMax
           start == Sorted(q, ToSet(q.starts))
           b == FixedReset(beam, q)
           clear == [x \in Nodes |-> [stamp |-> 0, visited |-> FALSE]]
<1>1. /\ beam.epoch \in Nat
      /\ beam.status \in [Nodes -> [stamp : 0 .. beam.epoch, visited : BOOLEAN]]
      /\ beam = FixedBeam(beam.frontier, beam.flags, beam.epoch, beam.visited, beam.status,
           beam.failed)
  BY DEF FixedShape
<1>2. DOMAIN beam.status = Nodes
  BY <1>1
<1>3. b = [frontier |-> start, flags |-> [n \in 1 .. Len(start) |-> FALSE],
           epoch |-> IF wraps THEN 1 ELSE beam.epoch + 1, visited |-> {},
           status |-> IF wraps THEN clear ELSE beam.status, failed |-> beam.failed]
  <2>1. b = [beam EXCEPT !.epoch = IF wraps THEN 1 ELSE @ + 1,
               !.status = IF wraps THEN clear ELSE @,
               !.frontier = start, !.flags = [n \in 1 .. Len(start) |-> FALSE],
               !.visited = {}]
    BY <1>2 DEF FixedReset
  <2> DEFINE e == IF wraps THEN 1 ELSE beam.epoch + 1
             t == IF wraps THEN clear ELSE beam.status
             f == [n \in 1 .. Len(start) |-> FALSE]
  <2>2. b = [beam EXCEPT !.epoch = e, !.status = t, !.frontier = start,
          !.flags = f, !.visited = {}]
    BY <2>1
  <2> DEFINE f0 == beam.frontier
             g0 == beam.flags
             e0 == beam.epoch
             v0 == beam.visited
             s0 == beam.status
             z0 == beam.failed
  <2>3. beam = FixedBeam(f0, g0, e0, v0, s0, z0)
    BY <1>1
  <2> HIDE DEF wraps, clear, start, b, e, t, f, f0, g0, e0, v0, s0, z0
  <2>4. [beam EXCEPT !.epoch = e, !.status = t, !.frontier = start, !.flags = f,
          !.visited = {}]
          = FixedBeam(start, f, e, {}, t, z0)
    <3>1. [FixedBeam(f0, g0, e0, v0, s0, z0) EXCEPT !.epoch = e]
            = FixedBeam(f0, g0, e, v0, s0, z0)
      BY DEF FixedBeam
    <3>2. [beam EXCEPT !.epoch = e]
          = FixedBeam(f0, g0, e, v0, s0, z0)
      BY <3>1, <2>3
    <3>3. [FixedBeam(f0, g0, e, v0, s0, z0) EXCEPT !.status = t]
            = FixedBeam(f0, g0, e, v0, t, z0)
      BY DEF FixedBeam
    <3>4. [[beam EXCEPT !.epoch = e] EXCEPT !.status = t]
          = FixedBeam(f0, g0, e, v0, t, z0)
      BY <3>3, <3>2
    <3>5. [FixedBeam(f0, g0, e, v0, t, z0) EXCEPT !.frontier = start]
            = FixedBeam(start, g0, e, v0, t, z0)
      BY DEF FixedBeam
    <3>6. [[[beam EXCEPT !.epoch = e] EXCEPT !.status = t] EXCEPT !.frontier = start]
          = FixedBeam(start, g0, e, v0, t, z0)
      BY <3>5, <3>4
    <3>7. [FixedBeam(start, g0, e, v0, t, z0) EXCEPT !.flags = f]
            = FixedBeam(start, f, e, v0, t, z0)
      BY DEF FixedBeam
    <3>8. [[[[beam EXCEPT !.epoch = e] EXCEPT !.status = t] EXCEPT !.frontier = start]
            EXCEPT !.flags = f]
          = FixedBeam(start, f, e, v0, t, z0)
      BY <3>7, <3>6
    <3>9. [FixedBeam(start, f, e, v0, t, z0) EXCEPT !.visited = {}]
            = FixedBeam(start, f, e, {}, t, z0)
      BY DEF FixedBeam
    <3>10. [[[[[beam EXCEPT !.epoch = e] EXCEPT !.status = t] EXCEPT !.frontier = start]
             EXCEPT !.flags = f] EXCEPT !.visited = {}]
          = FixedBeam(start, f, e, {}, t, z0)
      BY <3>9, <3>8
    <3>11. [beam EXCEPT !.epoch = e, !.status = t, !.frontier = start,
             !.flags = f, !.visited = {}]
          = [[[[[beam EXCEPT !.epoch = e] EXCEPT !.status = t] EXCEPT !.frontier = start]
            EXCEPT !.flags = f] EXCEPT !.visited = {}]
      OBVIOUS
    <3> QED
      BY <3>10, <3>11
  <2>5. b = FixedBeam(start, f, e, {}, t, z0)
    BY <2>2, <2>4
  <2> QED
    BY <2>5 DEF e, t, f, z0, FixedBeam
<1> HIDE DEF b, start, wraps
<1>4. /\ b.epoch \in Nat
      /\ b.status \in [Nodes -> [stamp : 0 .. b.epoch, visited : BOOLEAN]]
      /\ \A x \in Nodes : ~EverVisited(b, x)
  <2>1. CASE wraps
    <3>1. b.epoch = 1 /\ b.status = clear
      BY <1>3, <2>1
    <3> QED
      BY <3>1 DEF EverVisited
  <2>2. CASE ~wraps
    <3>1. b.epoch = beam.epoch + 1 /\ b.status = beam.status
      BY <1>3, <2>2
    <3>2. \A x \in Nodes : beam.status[x] \in [stamp : 0 .. beam.epoch, visited : BOOLEAN]
      BY <1>1
    <3>3. [stamp : 0 .. beam.epoch, visited : BOOLEAN]
            \subseteq [stamp : 0 .. beam.epoch + 1, visited : BOOLEAN]
      BY <1>1
    <3>4. \A x \in Nodes : beam.status[x].stamp # beam.epoch + 1
      BY <1>1, <3>2
    <3> QED
      BY <1>1, <3>1, <3>2, <3>3, <3>4 DEF EverVisited
  <2> QED
    BY <2>1, <2>2
<1>5. /\ b = FixedBeam(start, b.flags, b.epoch, {}, b.status, beam.failed)
      /\ b.frontier = start /\ b.visited = {} /\ b.failed = beam.failed
      /\ b.flags = [n \in 1 .. Len(b.frontier) |-> FALSE]
  BY <1>3 DEF FixedBeam
<1> QED
  BY <1>4, <1>5 DEF b, start

(* The visited vertices as the reference sees them.                        *)
Done == IF Started THEN beam.visited ELSE {}

(* A sequence has no more values than places.                              *)
LEMMA RangeCount ==
  ASSUME NEW S, NEW s \in Seq(S)
  PROVE  IsFiniteSet(ToSet(s)) /\ Cardinality(ToSet(s)) <= Len(s)
<1> DEFINE D == 1 .. Len(s)
<1>1. s \in Surjection(D, ToSet(s))
  BY DEF Surjection, ToSet
<1>2. Len(s) \in Nat /\ 1 \in Int
  OBVIOUS
<1>3. IsFiniteSet(D) /\ Cardinality(D) = Len(s)
  <2> DEFINE n == Len(s)
  <2>1. n \in Int /\ n \in Nat
    BY <1>2
  <2> HIDE DEF n
  <2>2. IsFiniteSet(1 .. n) /\ Cardinality(1 .. n) = IF 1 > n THEN 0 ELSE n - 1 + 1
    BY <2>1, FS_Interval
  <2> QED
    BY <2>1, <2>2 DEF n
<1> HIDE DEF D
<1>4. IsFiniteSet(ToSet(s)) /\ Cardinality(ToSet(s)) <= Cardinality(D)
  BY <1>1, <1>3, FS_Surjection
<1> QED
  BY <1>3, <1>4

(* The filter of the search is what its cells stand for.                   *)
LEMMA FilteredIs == Filtered = Stands(filter, query, filter.cells)
BY DEF Filtered, Stands, Slots

(* The starts fit the beam.                                                *)
LEMMA StartsAre ==
  ASSUME NEW q, IsQuery(q)
  PROVE  /\ ToSet(q.starts) \subseteq DOMAIN q.dist
         /\ Cardinality(ToSet(q.starts)) \in Nat
         /\ Cardinality(ToSet(q.starts)) <= q.beam
         /\ q.beam \in Nat /\ Len(q.starts) \in Nat
<1>1. q.starts \in Seq(DOMAIN q.dist) /\ Len(q.starts) <= q.beam /\ q.beam \in Nat
  BY DEF IsQuery
<1>2. ToSet(q.starts) \subseteq DOMAIN q.dist
  BY <1>1 DEF ToSet
<1>3. IsFiniteSet(ToSet(q.starts)) /\ Cardinality(ToSet(q.starts)) <= Len(q.starts)
  BY <1>1, RangeCount
<1>4. Cardinality(ToSet(q.starts)) \in Nat
  BY <1>3, FS_CardinalityType
<1> QED
  BY <1>1, <1>2, <1>3, <1>4

(* What beginning a search leaves and sets.                                *)
LEMMA BeginsPlain ==
  ASSUME PlainInv, NEW q \in UNION ToSet(Queries), Begin(q)
  PROVE  /\ IsQuery(q) /\ q.slots <= SlotMax /\ DOMAIN q.dist = Nodes
         /\ \E n \in 1 .. Len(Queries) : q \in Queries[n]
         /\ engine \in Plain /\ engine' = engine
         /\ phase' = "searching" /\ query' = q /\ served' = served + 1
         /\ served \in Nat /\ served' \in Nat
<1>1. served \in Nat /\ served < Len(Queries) /\ q \in Queries[served + 1]
  BY DEF PlainInv, Begin
<1>2. served + 1 \in 1 .. Len(Queries)
  BY <1>1, QueryAssumption
<1>3. IsQuery(q) /\ q.slots <= SlotMax
  BY <1>1, <1>2, QueryIs
<1>4. DOMAIN q.dist = Nodes
  BY <1>1, <1>2, QueryFacts
<1>5. engine \in Plain /\ engine' = engine
  BY DEF PlainInv, Begin
<1> QED
  BY <1>1, <1>2, <1>3, <1>4, <1>5 DEF Begin

(* It empties the filter,                                                  *)
LEMMA BeginFilter ==
  ASSUME PlainInv, NEW q \in UNION ToSet(Queries), Begin(q)
  PROVE  FilterInv' /\ Filtered' = EmptyFilter(q)
<1> DEFINE g == FilterBegin(filter, q)
<1>1. IsQuery(q) /\ q.slots <= SlotMax /\ query' = q
  BY BeginsPlain
<1>2. /\ g = [size |-> g.size, epoch |-> g.epoch, cells |-> g.cells]
      /\ g.epoch \in Nat /\ g.cells \in Cells(g)
      /\ Stands(g, q, g.cells) = EmptyFilter(q)
  BY <1>1, FilterBegins DEF PlainInv
<1>3. filter' = g
  BY DEF Begin
<1> HIDE DEF g
<1>4. FilterInv'
  BY <1>2, <1>3 DEF FilterInv, Cells
<1>5. Filtered' = EmptyFilter(q)
  BY <1>1, <1>2, <1>3 DEF Filtered, Stands, Slots
<1> QED
  BY <1>4, <1>5

(* keeps the memo exact, that of a replay and a new one,                   *)
LEMMA BeginMemo ==
  ASSUME PlainInv, NEW q \in UNION ToSet(Queries), Begin(q)
  PROVE  MemoInv' /\ scored' = q.dist
<1>1. /\ IsQuery(q) /\ query' = q /\ DOMAIN q.dist = Nodes /\ engine' = engine
      /\ phase' = "searching"
  BY BeginsPlain
<1>2. Nodes' = Nodes
  BY <1>1 DEF Nodes
<1>3. CASE Replays(q) /\ memo' = memo
  <2>1. engine = "memo" /\ served > 0 /\ q.dist = query.dist
    BY <1>3 DEF Replays
  <2>2. Started
    BY <2>1 DEF PlainInv
  <2>3. \A x \in Nodes : Hit(memo, x) => memo.value[x] = q.dist[x]
    BY <2>1, <2>2 DEF PlainInv, MemoInv
  <2>4. MemoInv'
    BY <1>1, <1>2, <1>3, <2>3 DEF PlainInv, MemoInv
  <2>5. scored' = Recalled(memo, q, q.dist, ToSet(q.starts))
    BY <1>3 DEF Begin
  <2>6. q.dist = [x \in Nodes |-> q.dist[x]]
    <3>1. q.dist \in [DOMAIN q.dist -> 0 .. Infinite - 1]
      BY <1>1 DEF IsQuery
    <3> QED
      BY <1>1, <3>1
  <2>7. Recalled(memo, q, q.dist, ToSet(q.starts)) = [x \in Nodes |-> q.dist[x]]
    BY <1>1, <2>3 DEF Recalled
  <2> QED
    BY <2>4, <2>5, <2>6, <2>7
<1>4. CASE ~Replays(q) /\ memo' = MemoInsert(MemoBegin(memo), q, ToSet(q.starts))
  <2> DEFINE m == MemoInsert(MemoBegin(memo), q, ToSet(q.starts))
  <2>1. /\ m = [value |-> m.value, stamp |-> m.stamp, epoch |-> m.epoch]
        /\ m.epoch \in Nat
        /\ m.value \in [Nodes -> Nat] /\ m.stamp \in [Nodes -> 0 .. m.epoch]
        /\ \A x \in Nodes : Hit(m, x) => m.value[x] = q.dist[x]
    BY <1>1, MemoBegins
  <2> HIDE DEF m
  <2>2. memo' = m
    BY <1>4 DEF m
  <2>3. MemoInv'
    BY <1>1, <1>2, <2>1, <2>2 DEF MemoInv, Hit
  <2>4. scored' = q.dist
    BY <1>4 DEF Begin
  <2> QED
    BY <2>3, <2>4
<1> QED
  BY <1>3, <1>4 DEF Begin

(* and fills the container with the starts:                                *)
LEMMA BeginContainer ==
  ASSUME PlainInv, NEW q \in UNION ToSet(Queries), Begin(q)
  PROVE  ContainerInv' /\ Active' = ToSet(q.starts) /\ beam'.visited = {}
<1> DEFINE S == ToSet(q.starts)
<1>1. /\ IsQuery(q) /\ query' = q /\ DOMAIN q.dist = Nodes /\ engine' = engine
      /\ phase' = "searching" /\ engine \in Plain
  BY BeginsPlain
<1>2. Nodes' = Nodes /\ Started'
  BY <1>1 DEF Nodes, Started
<1>3. beam' = Reset(q)
  BY DEF Begin
<1>4. S \subseteq DOMAIN q.dist
  BY <1>1, StartsAre
<1>5. CASE Vector
  <2>1. beam' = VectorReset(q)
    BY <1>1, <1>3, <1>5, PlainCases
  <2>2. beam' = [frontier |-> S, visited |-> {}, failed |-> FALSE]
    BY <2>1 DEF VectorReset
  <2>3. VectorInv' /\ beam'.visited = {} /\ beam'.frontier = S
    BY <2>2 DEF VectorInv
  <2>4. Active' = S
    BY <1>1, <1>5, <2>3 DEF Active, Vector
  <2>5. engine' # "fixed" /\ engine' # "radix"
    BY <1>1, <1>5 DEF Vector
  <2> QED
    BY <2>3, <2>4, <2>5 DEF ContainerInv
<1>6. CASE engine = "fixed"
  <2> DEFINE b == FixedReset(beam, q)
  <2>1. beam' = b
    BY <1>1, <1>3, <1>6, PlainCases
  <2>2. FixedShape
    BY <1>6 DEF PlainInv, ContainerInv
  <2>3. /\ b = FixedBeam(Sorted(q, S), b.flags, b.epoch, {}, b.status, beam.failed)
        /\ b.epoch \in Nat
        /\ b.status \in [Nodes -> [stamp : 0 .. b.epoch, visited : BOOLEAN]]
        /\ b.frontier = Sorted(q, S) /\ b.visited = {} /\ b.failed = beam.failed
        /\ b.flags = [n \in 1 .. Len(b.frontier) |-> FALSE]
        /\ \A x \in Nodes : ~EverVisited(b, x)
    BY <1>1, <2>2, FixedBegins
  <2>4. beam.failed = FALSE
    BY <2>2 DEF FixedShape
  <2>5. ToSet(Sorted(q, S)) = S
    BY <1>1, <1>4, SortedIs
  <2> HIDE DEF b, S
  <2>6. b.frontier = Sorted(q, S) /\ b.visited = {} /\ b.failed = FALSE
    BY <2>3, <2>4
  <2>7. FixedShape'
    BY <1>2, <2>1, <2>3, <2>4, <2>6 DEF FixedShape
  <2>8. b.frontier = Sorted(q, ToSet(b.frontier)) /\ ToSet(b.frontier) = S
    BY <2>5, <2>6
  <2>9. FixedAgrees(b) /\ \A x \in Nodes : EverVisited(b, x) <=> x \in b.visited
    <3>1. \A n \in 1 .. Len(b.frontier) : b.flags[n] = FALSE
      BY <2>3
    <3>2. \A x : x \notin b.visited
      BY <2>6
    <3>3. FixedAgrees(b)
      BY <3>1, <3>2 DEF FixedAgrees
    <3> QED
      BY <2>3, <3>2, <3>3
  <2>10. b.flags \in [1 .. Len(b.frontier) -> BOOLEAN]
    BY <2>3
  <2>11. FixedInv'
    <3>1. beam'.frontier = Sorted(query', ToSet(beam'.frontier))
      BY <1>1, <2>1, <2>8
    <3>2. beam'.flags \in [1 .. Len(beam'.frontier) -> BOOLEAN]
      BY <2>1, <2>10
    <3>3. FixedAgrees(beam') /\ \A x \in Nodes' :
            EverVisited(beam', x) <=> x \in beam'.visited
      BY <1>2, <2>1, <2>9
    <3> QED
      BY <3>1, <3>2, <3>3 DEF FixedInv, FixedAgrees, EverVisited
  <2>12. Active' = S
    <3>1. ToSet(beam'.frontier) = S
      BY <2>1, <2>8
    <3>2. engine' = "fixed"
      BY <1>1, <1>6
    <3>3. Active' = ToSet(beam'.frontier)
      BY <3>2 DEF Active, Vector
    <3> QED
      BY <3>1, <3>3
  <2> QED
    BY <1>1, <1>6, <2>1, <2>6, <2>7, <2>11, <2>12 DEF ContainerInv, Vector, S
<1>7. CASE engine = "radix"
  <2>1. beam' = RadixOver(q, S, S, {})
    BY <1>1, <1>3, <1>7, PlainCases, RadixResetIs
  <2> HIDE DEF S
  <2>2. beam'.active = S /\ beam'.unvisited = S /\ beam'.visited = {}
    BY <2>1, RadixHolds
  <2>3. RadixInv'
    BY <1>1, <2>1, <2>2 DEF RadixInv
  <2>4. engine' = "radix"
    BY <1>1, <1>7
  <2>5. Active' = S
    BY <2>2, <2>4 DEF Active, Vector
  <2> QED
    BY <2>2, <2>3, <2>4, <2>5 DEF ContainerInv, Vector, S
<1> QED
  BY <1>1, <1>5, <1>6, <1>7, PlainCases

(* Beginning preserves the invariant and begins the reference.             *)
LEMMA BeginPlain ==
  ASSUME PlainInv, NEW q \in UNION ToSet(Queries), Begin(q)
  PROVE  PlainInv' /\ Abstract!Begin(q)
<1> DEFINE S == ToSet(q.starts)
<1>1. /\ IsQuery(q) /\ query' = q /\ DOMAIN q.dist = Nodes /\ engine' = engine
      /\ phase' = "searching" /\ engine \in Plain
      /\ \E n \in 1 .. Len(Queries) : q \in Queries[n]
      /\ served' = served + 1 /\ served \in Nat /\ served' \in Nat
  BY BeginsPlain
<1>2. FilterInv' /\ Filtered' = EmptyFilter(q)
  BY BeginFilter
<1>3. MemoInv' /\ scored' = q.dist
  BY BeginMemo
<1>4. ContainerInv' /\ Active' = S /\ beam'.visited = {}
  BY BeginContainer
<1>5. /\ width' = q.beam /\ bound' = q.limit /\ visits' = 0 /\ spill' = NoSpill /\ top' = {}
      /\ widened' = FALSE /\ observed' = S /\ computed' = Len(q.starts)
      /\ phase # "searching" /\ served < Len(Queries) /\ q \in Queries[served + 1]
  BY DEF Begin
<1>6. Started' /\ Nodes' = DOMAIN q.dist
  BY <1>1 DEF Started, Nodes
<1>7. S \subseteq DOMAIN q.dist /\ Cardinality(S) <= q.beam
  BY <1>1, StartsAre
<1>8. Cardinality({}) = 0
  BY FS_EmptySet
<1>9. spill'.width = {} /\ spill'.cutoff = {} /\ DOMAIN spill'.prefix = {}
  BY <1>5 DEF NoSpill
<1> HIDE DEF S
<1>10. SearchInv'
  BY <1>1, <1>4, <1>5, <1>6, <1>7, <1>8, <1>9 DEF SearchInv
<1>11. PlainInv'
  BY <1>1, <1>2, <1>3, <1>4, <1>5, <1>6, <1>10 DEF PlainInv
<1>12. /\ Held' = S /\ Done' = {} /\ Seen' = EmptyFilter(q)
  BY <1>2, <1>4, <1>6 DEF Held, Done, Seen
<1>13. Abstract!Begin(q)
  BY <1>1, <1>5, <1>12, SameOrder, SameSets DEF Abstract!Begin, Held, Done, Seen, S
<1> QED
  BY <1>11, <1>13

-----------------------------------------------------------------------------
(* Handing out the nearest vertex.                                         *)

(* The members of S that are less than x.                                  *)
Under(S, x) == {y \in S : y < x}

(* Some member of a finite set has no fewer members under it than another. *)
LEMMA LeastUnder ==
  ASSUME NEW S, IsFiniteSet(S), S # {}
  PROVE  \E m \in S : \A y \in S :
           Under(S, y) \subseteq Under(S, m) => Under(S, y) = Under(S, m)
<1> DEFINE T == {Under(S, x) : x \in S}
<1>1. T \in SUBSET (SUBSET S) /\ T # {} /\ IsFiniteSet(S)
  BY DEF Under
<1>2. PICK t \in T : \A y \in T : ~ (y \subseteq t /\ y # t)
  <2> HIDE DEF T
  <2> QED
    BY <1>1, LeastSet
<1>3. PICK m \in S : t = Under(S, m)
  OBVIOUS
<1> QED
  BY <1>2, <1>3

(* A finite set of integers that is not empty has a least member.          *)
LEMMA MinIs ==
  ASSUME NEW S, S \subseteq Int, IsFiniteSet(S), S # {}
  PROVE  Min(S) \in S /\ \A y \in S : Min(S) <= y
<1>1. PICK m \in S : \A y \in S :
        Under(S, y) \subseteq Under(S, m) => Under(S, y) = Under(S, m)
  BY LeastUnder
<1>2. \A y \in S : m <= y
  <2> SUFFICES ASSUME NEW y \in S, y < m PROVE FALSE
    OBVIOUS
  <2>1. y \in Under(S, m) /\ y \notin Under(S, y)
    BY DEF Under
  <2>2. Under(S, y) \subseteq Under(S, m)
    <3>1. \A z \in S : z < y => z < m
      OBVIOUS
    <3> QED
      BY <3>1 DEF Under
  <2> QED
    BY <1>1, <2>1, <2>2
<1> QED
  BY <1>2 DEF Min

(* What nothing comes before is the nearest.                               *)
LEMMA FirstIs ==
  ASSUME NEW q, IsQuery(q), NEW S \in SUBSET DOMAIN q.dist, NEW x \in S,
         Before(q, S, x) = {}
  PROVE  Ranked(q, S, 0) = x
<1>1. Cardinality(Before(q, S, x)) = 0
  BY FS_EmptySet
<1>2. \A y \in S : Cardinality(Before(q, S, y)) = 0 => y = x
  BY <1>1, Ranks
<1> QED
  BY <1>1, <1>2 DEF Ranked

(* The first flag that is down is that of the nearest unvisited vertex.    *)
LEMMA FixedPicks ==
  ASSUME NEW q, IsQuery(q), NEW b, NEW S \in SUBSET DOMAIN q.dist,
         b.frontier = Sorted(q, S), b.flags \in [1 .. Len(b.frontier) -> BOOLEAN],
         FixedAgrees(b)
  PROVE  LET n == FixedIndex(b)
         IN /\ n = 0 <=> S \ b.visited = {}
            /\ n # 0 => /\ n \in 1 .. Len(b.frontier)
                        /\ b.frontier[n] \in S \ b.visited
                        /\ b.frontier[n] = Ranked(q, S \ b.visited, 0)
<1> DEFINE c == Len(b.frontier)
           open == {n \in 1 .. Len(b.flags) : ~b.flags[n]}
           U == S \ b.visited
           f == b.frontier
<1>1. /\ c \in Nat /\ f \in Seq(DOMAIN q.dist) /\ ToSet(f) = S
      /\ \A n, m \in 1 .. c : n < m <=> Less(q, f[n], f[m])
  BY SortedIs
<1>2. Len(b.flags) = c
  <2> HIDE DEF c
  <2> QED
    BY <1>1 DEF c
<1>3. \A n \in 1 .. c : f[n] \in S
  BY <1>1 DEF ToSet
<1>4. \A n \in 1 .. c : n \in open <=> f[n] \in U
  BY <1>2, <1>3 DEF FixedAgrees
<1>5. \A x \in S : \E n \in 1 .. c : x = f[n]
  BY <1>1 DEF ToSet
<1>6. open = {} <=> U = {}
  BY <1>2, <1>4, <1>5
<1>7. FixedIndex(b) = IF open = {} THEN 0 ELSE Min(open)
  BY DEF FixedIndex
<1>8. open \subseteq 1 .. c
  BY <1>2
<1> HIDE DEF open
<1>9. CASE open = {}
  BY <1>6, <1>7, <1>9
<1>10. CASE open # {}
  <2> DEFINE n == Min(open)
  <2>2. IsFiniteSet(open) /\ open \subseteq Int
    <3> HIDE DEF c, U, f, n
    <3>1. c \in Int /\ 1 \in Int
      BY <1>1
    <3>2. IsFiniteSet(1 .. c)
      BY <3>1, FS_Interval
    <3>3. IsFiniteSet(open)
      BY <1>8, <3>2, FS_Subset
    <3> QED
      BY <1>8, <3>1, <3>3
  <2>3. n \in open /\ \A m \in open : n <= m
    BY <1>10, <2>2, MinIs
  <2> HIDE DEF n
  <2>4. n \in 1 .. c /\ f[n] \in U
    BY <1>4, <1>8, <2>3
  <2>5. Before(q, U, f[n]) = {}
    <3> SUFFICES ASSUME NEW y \in U, Less(q, y, f[n]) PROVE FALSE
      BY DEF Before
    <3>1. PICK m \in 1 .. c : y = f[m]
      BY <1>5
    <3>2. m < n
      BY <1>1, <2>4, <3>1
    <3>3. m \in open
      BY <1>4, <3>1
    <3> QED
      BY <1>1, <2>3, <2>4, <3>2, <3>3
  <2>6. Ranked(q, U, 0) = f[n]
    BY <2>4, <2>5, FirstIs
  <2> QED
    BY <1>6, <1>7, <1>10, <2>4, <2>6 DEF n
<1> QED
  BY <1>9, <1>10

(* Of one vertex the nearest is itself.                                    *)
LEMMA OnlyOne ==
  ASSUME NEW q, IsQuery(q), NEW x \in DOMAIN q.dist
  PROVE  Ranked(q, {x}, 0) = x
<1>1. Before(q, {x}, x) = {}
  BY LessOrders DEF Before
<1> QED
  BY <1>1, FirstIs

(* The vertex handed out is the nearest unvisited one.                     *)
LEMMA HandsOutNearest ==
  ASSUME PlainInv, Started
  PROVE  /\ Open = {} <=> Active \ beam.visited = {}
         /\ Open # {} => /\ NextVertex = Ranked(query, Active \ beam.visited, 0)
                         /\ NextVertex \in Active \ beam.visited
                         /\ NextVertex \in Nodes
<1> DEFINE U == Active \ beam.visited
<1>1. IsQuery(query) /\ View = query /\ engine \in Plain /\ Active \subseteq Nodes
  BY QueryFacts DEF PlainInv, SearchInv
<1>2. NextVertex = Ranked(query, Open, 0)
  BY <1>1, PlainCases
<1>3. ASSUME U # {} PROVE Ranked(query, U, 0) \in U
  <2>1. U \in SUBSET DOMAIN query.dist
    BY <1>1 DEF Nodes
  <2> HIDE DEF U
  <2>2. Cardinality(U) \in Nat /\ Cardinality(U) # 0
    BY <1>1, <1>3, <2>1, FiniteBefore, FS_EmptySet
  <2>3. 0 \in 0 .. Cardinality(U) - 1
    BY <2>2
  <2> QED
    BY <1>1, <2>1, <2>3, RankedIs
<1>4. CASE Open = U
  <2>1. Open = U
    BY <1>4
  <2> HIDE DEF U
  <2> QED
    BY <1>1, <1>2, <1>3, <2>1 DEF U
<1>5. CASE engine = "fixed"
  <2>1. FixedInv
    BY <1>5 DEF PlainInv, ContainerInv
  <2>2. Active = ToSet(beam.frontier)
    BY <1>1, <1>5, PlainCases
  <2>3. Active \in SUBSET DOMAIN query.dist
    BY <1>1 DEF Nodes
  <2>4. beam.frontier = Sorted(query, Active)
    BY <2>1, <2>2 DEF FixedInv
  <2>5. beam.flags \in [1 .. Len(beam.frontier) -> BOOLEAN] /\ FixedAgrees(beam)
    BY <2>1 DEF FixedInv
  <2> DEFINE n == FixedIndex(beam)
             y == beam.frontier[n]
  <2>6. /\ n = 0 <=> U = {}
        /\ n # 0 => y \in U /\ y = Ranked(query, U, 0)
    BY <1>1, <2>3, <2>4, <2>5, FixedPicks
  <2>7. Open = IF n = 0 THEN {} ELSE {y}
    BY <1>1, <1>5, PlainCases
  <2>8. n # 0 => Ranked(query, {y}, 0) = y
    BY <1>1, <2>3, <2>6, OnlyOne
  <2> HIDE DEF n, y, U
  <2> QED
    BY <1>1, <1>2, <2>6, <2>7, <2>8 DEF U
<1>6. engine = "radix" => Open = U
  <2> SUFFICES ASSUME engine = "radix" PROVE Open = U
    OBVIOUS
  <2>1. Active = beam.active /\ Open = RadixOpen(beam)
    BY <1>1, PlainCases
  <2>2. beam.active \ beam.visited \subseteq beam.unvisited
    BY DEF PlainInv, ContainerInv, RadixInv
  <2> QED
    BY <2>1, <2>2 DEF RadixOpen
<1>7. Vector => Open = U
  BY <1>1, PlainCases
<1> QED
  BY <1>1, <1>4, <1>5, <1>6, <1>7, PlainCases

-----------------------------------------------------------------------------
(* Expanding it.                                                           *)

(* What an expansion of the reference does in this state.                  *)
Picked == Ranked(query, Active \ beam.visited, 0)

(* The neighbours it finds unseen.                                         *)
Found == FilterUnseen(filter, query, Picked)

(* The candidates that beat the cutoff.                                    *)
Near == {y \in ToSet(Found.keep) : query.dist[y] < Cutoff(query, Active, width)}

(* The beam after the expansion.                                           *)
Trimmed == MetricCut(query, Nearest(query, Active \cup Near, width))

(* What the invariant says of a search that has begun.                     *)
LEMMA PlainFacts ==
  ASSUME PlainInv, Started
  PROVE  /\ IsQuery(query) /\ engine \in Plain /\ View = query
         /\ Nodes = DOMAIN query.dist /\ scored = query.dist
         /\ Active \subseteq observed /\ observed \subseteq Nodes /\ Active \subseteq Nodes
         /\ beam.visited \subseteq observed
         /\ width \in Nat /\ query.k <= width /\ query.beam \in Nat /\ query.k <= query.beam
         /\ engine # "spill" => width = query.beam /\ ~widened
<1>1. IsQuery(query) /\ View = query
  BY QueryFacts
<1>2. engine \in Plain /\ scored = query.dist /\ SearchInv /\ widened \in BOOLEAN
  BY DEF PlainInv
<1>3. /\ Active \subseteq observed /\ observed \subseteq Nodes
           /\ beam.visited \subseteq observed
      /\ (~widened => width = query.beam)
      /\ (widened => engine = "spill" /\ width = query.beam + AddedWidth)
  BY <1>2 DEF SearchInv
<1>4. query.beam \in Nat /\ query.k \in Nat /\ query.k <= query.beam
  BY <1>1, NodesAre
<1>5. width \in Nat /\ query.k <= width
  BY <1>2, <1>3, <1>4, BatchedAssumption
<1> QED
  BY <1>1, <1>2, <1>3, <1>4, <1>5 DEF Nodes

(* It finds what the reference finds unseen.                               *)
LEMMA FoundIs ==
  ASSUME PlainInv, Started, Picked \in Nodes
  PROVE  /\ Found \in FilterLooks(filter, query)
         /\ ToSet(Found.keep) \subseteq Nodes /\ Len(Found.keep) \in Nat
         /\ Found.keep = Unseen(query, Picked, Filtered).keep
         /\ Unseen(query, Picked, Filtered).filter = Stands(filter, query, Found.cells)
<1>1. IsQuery(query) /\ FitsFilter(filter, query)
  BY QueryFacts
<1>2. Picked \in Vertices(query)
  BY DEF Vertices, Nodes
<1>3. /\ Found \in FilterLooks(filter, query)
      /\ Found.keep = Unseen(query, Picked, Stands(filter, query, filter.cells)).keep
      /\ Unseen(query, Picked, Stands(filter, query, filter.cells)).filter
           = Stands(filter, query, Found.cells)
  BY <1>1, <1>2, FilterSees DEF Found
<1>4. Found.keep \in Seq(Vertices(query))
  BY <1>3 DEF FilterLooks
<1>5. ToSet(Found.keep) \subseteq Nodes /\ Len(Found.keep) \in Nat
  BY <1>4 DEF ToSet, Vertices, Nodes
<1> QED
  BY <1>3, <1>5, FilteredIs

(* Recalled distances are the distances: what the memo holds is exact.     *)
LEMMA RecalledIs ==
  ASSUME PlainInv, Started, engine = "memo", NEW K
  PROVE  Recalled(memo, query, scored, K) = query.dist
<1>1. IsQuery(query) /\ scored = query.dist
  BY PlainFacts
<1>2. query.dist \in [Nodes -> 0 .. Infinite - 1]
  BY <1>1 DEF IsQuery, Nodes
<1>3. \A x \in Nodes : Hit(memo, x) => memo.value[x] = query.dist[x]
  BY DEF PlainInv, MemoInv
<1>4. Recalled(memo, query, scored, K) = [x \in Nodes |-> query.dist[x]]
  BY <1>1, <1>3 DEF Recalled, Nodes
<1> QED
  BY <1>2, <1>4

(* An expansion takes these steps.                                         *)
LEMMA ExpandFacts ==
  ASSUME PlainInv, Expand
  PROVE  /\ phase = "searching" /\ Started /\ Open # {} /\ visits < bound
         /\ Picked \in Active \ beam.visited /\ Picked \in Nodes
         /\ scored' = query.dist
         /\ filter' = [filter EXCEPT !.cells = Found.cells]
         /\ beam' = Step(query, Found.keep)
         /\ computed' = computed + Len(Found.keep) /\ visits' = visits + 1
         /\ observed' = observed \cup ToSet(Found.keep)
         /\ memo' = IF engine = "memo"
                    THEN MemoInsert(memo, query,
                           Completed(memo, query, Found.keep,
                             Cutoff(query, Active, query.beam)))
                    ELSE memo
         /\ spill' = IF engine = "spill" /\ ~widened /\ query.eligible
                     THEN Spilled(spill, beam, query, Found.keep) ELSE spill
         /\ UNCHANGED <<engine, phase, query, width, bound, top, widened, served>>
<1>1. phase = "searching" /\ Started /\ Open # {} /\ visits < bound
  BY DEF Expand, Started
<1>2. NextVertex = Picked /\ Picked \in Active \ beam.visited /\ Picked \in Nodes
  BY <1>1, HandsOutNearest DEF Picked
<1> DEFINE K == ToSet(Found.keep)
           dist == IF engine = "memo" THEN Recalled(memo, query, scored, K) ELSE scored
           q == [query EXCEPT !.dist = dist]
<1>3. dist = query.dist
  BY <1>1, PlainFacts, RecalledIs
<1>4. q = query
  <2> HIDE DEF dist
  <2>1. IsQuery(query)
    BY <1>1, PlainFacts
  <2> QED
    BY <1>3, <2>1, SameQuery
<1>5. /\ scored' = dist
      /\ filter' = [filter EXCEPT !.cells = Found.cells]
      /\ beam' = Step(q, Found.keep)
      /\ computed' = computed + Len(Found.keep) /\ visits' = visits + 1
      /\ observed' = observed \cup ToSet(Found.keep)
  BY <1>2 DEF Expand, Found
<1>6. memo' = IF engine = "memo"
              THEN MemoInsert(memo, query,
                     Completed(memo, q, Found.keep, Cutoff(q, Active, query.beam)))
              ELSE memo
  BY <1>2 DEF Expand, Found
<1>7. spill' = IF engine = "spill" /\ ~widened /\ query.eligible
               THEN Spilled(spill, beam, q, Found.keep) ELSE spill
  BY <1>2 DEF Expand, Found
<1>8. UNCHANGED <<engine, phase, query, width, bound, top, widened, served>>
  BY DEF Expand
<1> HIDE DEF dist, q, K
<1> QED
  BY <1>1, <1>2, <1>3, <1>4, <1>5, <1>6, <1>7, <1>8

(* Staged and remembered candidates are those that beat the cutoff; the    *)
(* beam stays within its width.                                            *)
LEMMA NearIs ==
  ASSUME PlainInv, Started, Picked \in Nodes
  PROVE  /\ ToSet(StagedCandidates(query, Found.keep, Cutoff(query, Active, width))) = Near
         /\ ToSet(MemoCandidates(memo, query, Found.keep, Cutoff(query, Active, width)))
              = Near
         /\ Near \subseteq ToSet(Found.keep)
         /\ Trimmed \subseteq Active \cup Near
         /\ Cardinality(Trimmed) <= width /\ IsFiniteSet(Trimmed)
<1>1. /\ IsQuery(query) /\ Nodes = DOMAIN query.dist /\ Active \subseteq Nodes
      /\ width \in Nat /\ query.k <= width
  BY PlainFacts
<1>2. ToSet(Found.keep) \subseteq Nodes
  BY FoundIs
<1>3. Cutoff(query, Active, width) \in Nat
  BY <1>1, CutoffIs
<1>4. /\ ToSet(StagedCandidates(query, Found.keep, Cutoff(query, Active, width))) = Near
      /\ ToSet(MemoCandidates(memo, query, Found.keep, Cutoff(query, Active, width))) = Near
  BY <1>1, <1>2, <1>3, StagedIs DEF Near
<1>5. Near \subseteq ToSet(Found.keep)
  BY DEF Near
<1> DEFINE A == Active \cup Near
           N == Nearest(query, A, width)
<1>6. A \in SUBSET DOMAIN query.dist
  BY <1>1, <1>2, <1>5
<1> HIDE DEF A
<1>7. /\ N \subseteq A /\ IsFiniteSet(N)
      /\ Cardinality(N) = IF width <= Cardinality(A) THEN width ELSE Cardinality(A)
  BY <1>1, <1>6, NearestIs
<1>8. Cardinality(A) \in Nat
  BY <1>1, <1>6, FiniteBefore
<1> HIDE DEF N
<1>9. Cardinality(N) <= width
  BY <1>1, <1>7, <1>8
<1>10. MetricCut(query, N) \subseteq N
  BY DEF MetricCut
<1>11. IsFiniteSet(MetricCut(query, N))
         /\ Cardinality(MetricCut(query, N)) <= Cardinality(N)
  BY <1>7, <1>10, FS_Subset
<1>12. Cardinality(N) \in Nat /\ Cardinality(MetricCut(query, N)) \in Nat
  BY <1>7, <1>11, FS_CardinalityType
<1>13. Trimmed = MetricCut(query, N)
  BY DEF Trimmed, N, A
<1>14. Cardinality(Trimmed) <= width
  BY <1>1, <1>9, <1>11, <1>12, <1>13
<1> QED
  BY <1>4, <1>5, <1>7, <1>10, <1>11, <1>13, <1>14 DEF A

(* The sorted vector, field by field.                                      *)
VectorBeam(f, v, z) == [frontier |-> f, visited |-> v, failed |-> z]

(* Replacing two fields of it,                                             *)
LEMMA VectorFields ==
  ASSUME NEW b, NEW f, NEW v, NEW z, b = VectorBeam(f, v, z), NEW F, NEW V
  PROVE  [b EXCEPT !.visited = V, !.frontier = F] = VectorBeam(F, V, z)
<1>1. [VectorBeam(f, v, z) EXCEPT !.visited = V] = VectorBeam(f, V, z)
  BY DEF VectorBeam
<1>2. [VectorBeam(f, V, z) EXCEPT !.frontier = F] = VectorBeam(F, V, z)
  BY DEF VectorBeam
<1>3. [[b EXCEPT !.visited = V] EXCEPT !.frontier = F] = VectorBeam(F, V, z)
  BY <1>1, <1>2
<1>4. [b EXCEPT !.visited = V, !.frontier = F]
        = [[b EXCEPT !.visited = V] EXCEPT !.frontier = F]
  OBVIOUS
<1> QED
  BY <1>3, <1>4

(* or one.                                                                 *)
LEMMA VectorFrontier ==
  ASSUME NEW b, NEW f, NEW v, NEW z, b = VectorBeam(f, v, z), NEW F
  PROVE  [b EXCEPT !.frontier = F] = VectorBeam(F, v, z)
<1>1. [VectorBeam(f, v, z) EXCEPT !.frontier = F] = VectorBeam(F, v, z)
  BY DEF VectorBeam
<1> QED
  BY <1>1

(* The sorted vector, with a memo or without, expands as the reference     *)
(* does.                                                                   *)
LEMMA VectorExpands ==
  ASSUME PlainInv, Expand, Vector
  PROVE  /\ ContainerInv' /\ Active' = Trimmed
         /\ beam'.visited = beam.visited \cup {Picked}
<1>1. /\ phase = "searching" /\ Started /\ Picked \in Nodes
      /\ beam' = Step(query, Found.keep)
      /\ engine' = engine /\ phase' = phase
  BY ExpandFacts
<1>2. /\ engine \in Plain /\ (engine # "spill" => width = query.beam)
  BY <1>1, PlainFacts
<1>3. Active = beam.frontier
  BY <1>2, PlainCases
<1>4. VectorInv
  BY <1>1 DEF PlainInv, ContainerInv
<1> DEFINE V == beam.visited \cup {Picked}
<1>5. beam' = [beam EXCEPT !.visited = V, !.frontier = Trimmed]
  <2>1. CASE engine = "memo"
    <3>1. beam' = MemoStep(beam, memo, query, Found.keep) /\ width = query.beam
      BY <1>1, <1>2, <2>1, PlainCases
    <3>2. Merged(query, beam.frontier,
            MemoCandidates(memo, query, Found.keep,
              Cutoff(query, beam.frontier, query.beam)), query.beam) = Trimmed
      BY <1>1, <1>3, <3>1, NearIs DEF Merged, Trimmed
    <3> QED
      BY <1>3, <3>1, <3>2 DEF MemoStep, Picked
  <2>2. CASE engine # "memo"
    <3>1. beam' = VectorStep(beam, query, Found.keep, width)
      BY <1>1, <1>2, <2>2, PlainCases
    <3>2. Merged(query, beam.frontier,
            StagedCandidates(query, Found.keep, Cutoff(query, beam.frontier, width)), width)
              = Trimmed
      BY <1>1, <1>3, NearIs DEF Merged, Trimmed
    <3> QED
      BY <1>3, <3>1, <3>2 DEF VectorStep, Picked
  <2> QED
    BY <2>1, <2>2
<1> HIDE DEF V
<1>6. beam' = [frontier |-> Trimmed, visited |-> V, failed |-> beam.failed]
  <2> DEFINE f == beam.frontier
             v == beam.visited
             z == beam.failed
  <2>1. beam = VectorBeam(f, v, z)
    BY <1>4 DEF VectorInv, VectorBeam
  <2> HIDE DEF f, v, z
  <2> QED
    BY <1>5, <2>1, VectorFields DEF z, VectorBeam
<1>7. VectorInv' /\ beam'.frontier = Trimmed /\ beam'.visited = V
  BY <1>4, <1>6 DEF VectorInv
<1>8. Active' = Trimmed
  BY <1>1, <1>7 DEF Active, Vector
<1>9. engine' # "fixed" /\ engine' # "radix"
  BY <1>1 DEF Vector
<1> QED
  BY <1>7, <1>8, <1>9 DEF ContainerInv, V

-----------------------------------------------------------------------------
(* The fixed frontier.                                                     *)

(* A fixed frontier over S whose flags and statuses tell what was visited. *)
FixedOver(b, q, S) ==
  /\ b = FixedBeam(b.frontier, b.flags, b.epoch, b.visited, b.status, b.failed)
  /\ b.epoch \in Nat
  /\ b.status \in [DOMAIN q.dist -> [stamp : 0 .. b.epoch, visited : BOOLEAN]]
  /\ b.frontier = Sorted(q, S)
  /\ b.flags \in [1 .. Len(b.frontier) -> BOOLEAN]
  /\ FixedAgrees(b)
  /\ \A x \in DOMAIN q.dist : EverVisited(b, x) <=> x \in b.visited

(* Taking the nearest unvisited vertex out of the fixed frontier raises    *)
(* its flag and stamps it visited.                                         *)
LEMMA FixedPopIs ==
  ASSUME NEW q, IsQuery(q), NEW S \in SUBSET DOMAIN q.dist,
         NEW b, FixedOver(b, q, S), S \ b.visited # {}
  PROVE  LET c == FixedPop(b)
         IN /\ FixedOver(c, q, S) /\ c.failed = b.failed
            /\ c.visited = b.visited \cup {Ranked(q, S \ b.visited, 0)}
<1> DEFINE x == Ranked(q, S \ b.visited, 0)
           n == FixedIndex(b)
           c == FixedPop(b)
           f == b.frontier
           g == b.flags
           e == b.epoch
           v == b.visited
           s == b.status
           z == b.failed
           D == DOMAIN q.dist
           m == Len(f)
           G == [g EXCEPT ![n] = TRUE]
           V == v \cup {x}
           S1 == [s EXCEPT ![x] = [stamp |-> e, visited |-> TRUE]]
<1>1. /\ b = FixedBeam(f, g, e, v, s, z) /\ e \in Nat
      /\ s \in [D -> [stamp : 0 .. e, visited : BOOLEAN]]
      /\ f = Sorted(q, S) /\ g \in [1 .. m -> BOOLEAN] /\ FixedAgrees(b)
      /\ \A y \in D : EverVisited(b, y) <=> y \in v
  BY DEF FixedOver
<1>2. n # 0 /\ n \in 1 .. m /\ f[n] \in S \ v /\ f[n] = x
  BY <1>1, FixedPicks
<1>3. x \in D /\ x \notin v
  BY <1>2
<1>4. c = [b EXCEPT !.flags[n] = TRUE, !.visited = @ \cup {x},
                    !.status[x] = [stamp |-> b.epoch, visited |-> TRUE]]
  BY <1>1, <1>2, <1>3 DEF FixedPop
<1>5. c = [b EXCEPT !.flags = G, !.visited = V, !.status = S1]
  BY <1>4
<1> HIDE DEF c, x, n
<1>6. c = FixedBeam(f, G, e, V, S1, z)
  <2> SUFFICES [b EXCEPT !.flags = G, !.visited = V, !.status = S1]
                 = FixedBeam(f, G, e, V, S1, z)
    BY <1>5
  <2>1. b = FixedBeam(f, g, e, v, s, z)
    BY <1>1
  <2> HIDE DEF f, g, e, v, s, z, G, V, S1
  <2>2. [FixedBeam(f, g, e, v, s, z) EXCEPT !.flags = G] = FixedBeam(f, G, e, v, s, z)
    BY DEF FixedBeam
  <2>3. [b EXCEPT !.flags = G]
        = FixedBeam(f, G, e, v, s, z)
    BY <2>2, <2>1
  <2>4. [FixedBeam(f, G, e, v, s, z) EXCEPT !.visited = V] = FixedBeam(f, G, e, V, s, z)
    BY DEF FixedBeam
  <2>5. [[b EXCEPT !.flags = G] EXCEPT !.visited = V]
        = FixedBeam(f, G, e, V, s, z)
    BY <2>4, <2>3
  <2>6. [FixedBeam(f, G, e, V, s, z) EXCEPT !.status = S1] = FixedBeam(f, G, e, V, S1, z)
    BY DEF FixedBeam
  <2>7. [[[b EXCEPT !.flags = G] EXCEPT !.visited = V] EXCEPT !.status = S1]
        = FixedBeam(f, G, e, V, S1, z)
    BY <2>6, <2>5
  <2>8. [b EXCEPT !.flags = G, !.visited = V, !.status = S1]
        = [[[b EXCEPT !.flags = G] EXCEPT !.visited = V] EXCEPT !.status = S1]
    OBVIOUS
  <2> QED
    BY <2>7, <2>8
<1>7. /\ c.frontier = f /\ c.flags = G /\ c.epoch = e /\ c.visited = V /\ c.status = S1
      /\ c.failed = z
  <2> HIDE DEF f, g, e, v, s, z, G, V, S1
  <2> QED
    BY <1>6 DEF FixedBeam
<1>8. G \in [1 .. m -> BOOLEAN] /\ S1 \in [D -> [stamp : 0 .. e, visited : BOOLEAN]]
  <2>1. [stamp |-> e, visited |-> TRUE] \in [stamp : 0 .. e, visited : BOOLEAN]
    BY <1>1
  <2>2. S1 \in [D -> [stamp : 0 .. e, visited : BOOLEAN]]
    BY <1>1, <2>1
  <2>3. G \in [1 .. m -> BOOLEAN]
    BY <1>1, <1>2
  <2> QED
    BY <2>2, <2>3
<1>9. \A k, l \in 1 .. m : f[k] = f[l] => k = l
  <2> HIDE DEF f, m
  <2>1. /\ m \in Nat /\ f \in Seq(D)
        /\ \A k, l \in 1 .. m : k < l <=> Less(q, f[k], f[l])
    BY <1>1, SortedIs DEF m
  <2>2. ASSUME NEW k \in 1 .. m, NEW l \in 1 .. m, k < l PROVE f[k] # f[l]
    <3>1. f[k] \in D /\ f[l] \in D /\ Less(q, f[k], f[l])
      BY <2>1, <2>2 DEF m
    <3> QED
      BY <3>1, LessOrders
  <2> QED
    BY <2>1, <2>2
<1>10. FixedAgrees(c)
  <2> SUFFICES ASSUME NEW k \in 1 .. m PROVE G[k] <=> f[k] \in V
    BY <1>7 DEF FixedAgrees
  <2>1. g[k] <=> f[k] \in v
    BY <1>1 DEF FixedAgrees
  <2>2. CASE k = n
    BY <1>1, <1>2, <2>2
  <2>3. CASE k # n
    <3>1. f[k] # x
      BY <1>2, <1>9, <2>3
    <3>2. G[k] = g[k]
      BY <1>1, <2>3
    <3> QED
      BY <2>1, <3>1, <3>2
  <2> QED
    BY <2>2, <2>3
<1>11. \A y \in D : EverVisited(c, y) <=> y \in V
  <2> TAKE y \in D
  <2>1. EverVisited(c, y) <=> S1[y].stamp = e /\ S1[y].visited
    BY <1>7 DEF EverVisited
  <2>2. EverVisited(b, y) <=> s[y].stamp = e /\ s[y].visited
    BY DEF EverVisited
  <2>3. CASE y = x
    <3>1. S1[y] = [stamp |-> e, visited |-> TRUE]
      BY <1>1, <2>3
    <3> QED
      BY <2>1, <2>3, <3>1
  <2>4. CASE y # x
    <3>1. S1[y] = s[y]
      BY <1>1, <2>4
    <3> QED
      BY <1>1, <2>1, <2>2, <2>4, <3>1
  <2> QED
    BY <2>3, <2>4
<1> HIDE DEF f, g, e, v, s, z, G, S1
<1>12. FixedOver(c, q, S)
  <2>1. c = FixedBeam(c.frontier, c.flags, c.epoch, c.visited, c.status, c.failed)
    BY <1>6, <1>7
  <2> QED
    BY <1>1, <1>7, <1>8, <1>10, <1>11, <2>1 DEF FixedOver
<1> QED
  BY <1>7, <1>12 DEF c, x, v, z

(* Committing a merged frontier takes the flags from the statuses: a       *)
(* vertex that comes back is not unvisited again.                          *)
LEMMA FixedCommitIs ==
  ASSUME NEW q, IsQuery(q), NEW S \in SUBSET DOMAIN q.dist,
         NEW b, FixedOver(b, q, S), NEW T \in SUBSET DOMAIN q.dist
  PROVE  LET c == FixedCommit(b, Sorted(q, T))
         IN FixedOver(c, q, T) /\ c.failed = b.failed /\ c.visited = b.visited
<1> DEFINE scratch == Sorted(q, T)
           c == FixedCommit(b, scratch)
           f == b.frontier
           g == b.flags
           e == b.epoch
           v == b.visited
           s == b.status
           z == b.failed
           D == DOMAIN q.dist
           m == Len(scratch)
           old(x) == {n \in 1 .. Len(f) : f[n] = x}
           entering == {x \in ToSet(scratch) : old(x) = {}}
           G == [n \in 1 .. m |-> IF scratch[n] \in entering THEN EverVisited(b, scratch[n])
                                  ELSE g[Min(old(scratch[n]))]]
           S1 == [x \in D |-> IF x \in entering
                              THEN [stamp |-> e, visited |-> EverVisited(b, x)] ELSE s[x]]
<1>1. /\ b = FixedBeam(f, g, e, v, s, z) /\ e \in Nat
      /\ s \in [D -> [stamp : 0 .. e, visited : BOOLEAN]]
      /\ f = Sorted(q, S) /\ g \in [1 .. Len(f) -> BOOLEAN] /\ FixedAgrees(b)
      /\ \A y \in D : EverVisited(b, y) <=> y \in v
  BY DEF FixedOver
<1>2. /\ scratch \in Seq(D) /\ ToSet(scratch) = T /\ m \in Nat
      /\ f \in Seq(D) /\ Len(f) \in Nat
  BY <1>1, SortedIs
<1>3. c = [b EXCEPT !.frontier = scratch, !.flags = G, !.status = S1]
  <2>1. DOMAIN s = D
    BY <1>1
  <2> QED
    BY <2>1 DEF FixedCommit
<1> HIDE DEF c, scratch
<1>4. c = FixedBeam(scratch, G, e, v, S1, z)
  <2> SUFFICES [b EXCEPT !.frontier = scratch, !.flags = G, !.status = S1]
                 = FixedBeam(scratch, G, e, v, S1, z)
    BY <1>3
  <2>1. b = FixedBeam(f, g, e, v, s, z)
    BY <1>1
  <2> HIDE DEF f, g, e, v, s, z, G, S1
  <2>2. [FixedBeam(f, g, e, v, s, z) EXCEPT !.frontier = scratch]
          = FixedBeam(scratch, g, e, v, s, z)
    BY DEF FixedBeam
  <2>3. [b EXCEPT !.frontier = scratch]
        = FixedBeam(scratch, g, e, v, s, z)
    BY <2>2, <2>1
  <2>4. [FixedBeam(scratch, g, e, v, s, z) EXCEPT !.flags = G]
          = FixedBeam(scratch, G, e, v, s, z)
    BY DEF FixedBeam
  <2>5. [[b EXCEPT !.frontier = scratch] EXCEPT !.flags = G]
        = FixedBeam(scratch, G, e, v, s, z)
    BY <2>4, <2>3
  <2>6. [FixedBeam(scratch, G, e, v, s, z) EXCEPT !.status = S1]
          = FixedBeam(scratch, G, e, v, S1, z)
    BY DEF FixedBeam
  <2>7. [[[b EXCEPT !.frontier = scratch] EXCEPT !.flags = G] EXCEPT !.status = S1]
        = FixedBeam(scratch, G, e, v, S1, z)
    BY <2>6, <2>5
  <2>8. [b EXCEPT !.frontier = scratch, !.flags = G, !.status = S1]
        = [[[b EXCEPT !.frontier = scratch] EXCEPT !.flags = G] EXCEPT !.status = S1]
    OBVIOUS
  <2> QED
    BY <2>7, <2>8
<1>5. /\ c.frontier = scratch /\ c.flags = G /\ c.epoch = e /\ c.visited = v
           /\ c.status = S1
      /\ c.failed = z
  <2> HIDE DEF f, g, e, v, s, z, G, S1
  <2> QED
    BY <1>4 DEF FixedBeam
<1>6. \A n \in 1 .. m : scratch[n] \in T /\ scratch[n] \in D
  BY <1>2 DEF ToSet
<1>7. ASSUME NEW n \in 1 .. m
      PROVE  G[n] \in BOOLEAN /\ (G[n] <=> scratch[n] \in v)
  <2> DEFINE y == scratch[n]
             h == Min(old(y))
  <2>1. y \in D /\ y \in ToSet(scratch)
    BY <1>2, <1>6
  <2>2. G[n] = IF y \in entering THEN EverVisited(b, y) ELSE g[h]
    OBVIOUS
  <2> HIDE DEF y, G
  <2>3. CASE y \in entering
    <3>1. EverVisited(b, y) \in BOOLEAN
      BY DEF EverVisited
    <3>2. G[n] = EverVisited(b, y)
      BY <2>2, <2>3
    <3> QED
      BY <1>1, <2>1, <3>1, <3>2 DEF y
  <2>4. CASE y \notin entering
    <3>1. old(y) # {} /\ old(y) \subseteq 1 .. Len(f)
      BY <2>1, <2>4
    <3>2. IsFiniteSet(1 .. Len(f))
      <4> DEFINE l == Len(f)
      <4>1. l \in Int /\ 1 \in Int
        BY <1>2
      <4> HIDE DEF l
      <4>2. IsFiniteSet(1 .. l)
        BY <4>1, FS_Interval
      <4> QED
        BY <4>2 DEF l
    <3>3. IsFiniteSet(old(y)) /\ old(y) \subseteq Int
      BY <1>2, <3>1, <3>2, FS_Subset
    <3>4. h \in old(y)
      <4> DEFINE O == old(y)
      <4>1. IsFiniteSet(O) /\ O \subseteq Int /\ O # {}
        BY <3>1, <3>3
      <4> HIDE DEF O
      <4>2. Min(O) \in O
        BY <4>1, MinIs
      <4> QED
        BY <4>2 DEF O
    <3>5. h \in 1 .. Len(f) /\ f[h] = y
      BY <3>4
    <3> HIDE DEF h
    <3>6. g[h] \in BOOLEAN /\ (g[h] <=> f[h] \in v)
      BY <1>1, <3>5 DEF FixedAgrees
    <3>7. G[n] = g[h]
      BY <2>2, <2>4
    <3> QED
      BY <3>5, <3>6, <3>7 DEF y
  <2> QED
    BY <2>3, <2>4
<1>8. G \in [1 .. m -> BOOLEAN] /\ FixedAgrees(c)
  <2>1. G = [n \in 1 .. m |-> G[n]]
    OBVIOUS
  <2> HIDE DEF G
  <2>2. G \in [1 .. m -> BOOLEAN]
    BY <1>7, <2>1
  <2> QED
    BY <1>5, <1>7, <2>2 DEF FixedAgrees
<1>9. ASSUME NEW x \in D
      PROVE  /\ S1[x] \in [stamp : 0 .. e, visited : BOOLEAN]
             /\ EverVisited(c, x) <=> x \in v
  <2>1. S1[x] = IF x \in entering THEN [stamp |-> e, visited |-> EverVisited(b, x)]
          ELSE s[x]
    OBVIOUS
  <2>2. EverVisited(c, x) <=> S1[x].stamp = e /\ S1[x].visited
    BY <1>5 DEF EverVisited
  <2>3. EverVisited(b, x) <=> s[x].stamp = e /\ s[x].visited
    BY DEF EverVisited
  <2>4. EverVisited(b, x) \in BOOLEAN
    BY DEF EverVisited
  <2> HIDE DEF S1, entering
  <2>5. CASE x \in entering
    <3> DEFINE w == EverVisited(b, x)
    <3>1. S1[x] = [stamp |-> e, visited |-> w]
      BY <2>1, <2>5
    <3>2. w \in BOOLEAN /\ (w <=> x \in v)
      BY <1>1, <2>4
    <3> HIDE DEF w
    <3>3. [stamp |-> e, visited |-> w] \in [stamp : 0 .. e, visited : BOOLEAN]
      BY <1>1, <3>2
    <3>4. S1[x].stamp = e /\ S1[x].visited = w
      BY <3>1
    <3> QED
      BY <2>2, <3>1, <3>2, <3>3, <3>4
  <2>6. CASE x \notin entering
    BY <1>1, <2>1, <2>2, <2>3, <2>6
  <2> QED
    BY <2>5, <2>6
<1>10. S1 \in [D -> [stamp : 0 .. e, visited : BOOLEAN]]
  <2>1. S1 = [x \in D |-> S1[x]]
    OBVIOUS
  <2> HIDE DEF S1
  <2> QED
    BY <1>9, <2>1
<1> HIDE DEF f, g, e, v, s, z, G, S1
<1>11. FixedOver(c, q, T)
  <2>1. c = FixedBeam(c.frontier, c.flags, c.epoch, c.visited, c.status, c.failed)
    BY <1>4, <1>5
  <2>2. c.frontier = Sorted(q, T)
    BY <1>5 DEF scratch
  <2> QED
    BY <1>1, <1>5, <1>8, <1>9, <1>10, <2>1, <2>2 DEF FixedOver
<1> QED
  BY <1>5, <1>11 DEF c, scratch, v, z

(* The fixed frontier expands as the reference does.                       *)
LEMMA FixedExpands ==
  ASSUME PlainInv, Expand, engine = "fixed"
  PROVE  /\ ContainerInv' /\ Active' = Trimmed
         /\ beam'.visited = beam.visited \cup {Picked}
<1>1. /\ phase = "searching" /\ Started /\ Picked \in Nodes
      /\ Picked \in Active \ beam.visited
      /\ beam' = Step(query, Found.keep)
      /\ engine' = engine /\ phase' = phase /\ query' = query
  BY ExpandFacts
<1>2. /\ engine \in Plain /\ width = query.beam /\ IsQuery(query)
           /\ Nodes = DOMAIN query.dist
      /\ Active \subseteq Nodes
  BY <1>1, PlainFacts
<1>3. Active = ToSet(beam.frontier)
  BY <1>2, PlainCases
<1>4. FixedShape /\ FixedInv
  BY <1>1 DEF PlainInv, ContainerInv
<1>5. FixedOver(beam, query, Active)
  <2>1. beam.frontier = Sorted(query, Active)
    BY <1>3, <1>4 DEF FixedInv
  <2>2. /\ beam = FixedBeam(beam.frontier, beam.flags, beam.epoch, beam.visited, beam.status,
             beam.failed)
        /\ beam.epoch \in Nat
        /\ beam.status \in [Nodes -> [stamp : 0 .. beam.epoch, visited : BOOLEAN]]
    BY <1>4 DEF FixedShape
  <2>3. /\ beam.flags \in [1 .. Len(beam.frontier) -> BOOLEAN] /\ FixedAgrees(beam)
        /\ \A x \in Nodes : EverVisited(beam, x) <=> x \in beam.visited
    BY <1>4 DEF FixedInv
  <2> QED
    BY <1>2, <2>1, <2>2, <2>3 DEF FixedOver
<1> DEFINE v == FixedPop(beam)
           c == FixedCommit(v, Sorted(query, Trimmed))
<1>6. /\ FixedOver(v, query, Active) /\ v.failed = beam.failed
      /\ v.visited = beam.visited \cup {Picked}
  <2>1. Active \in SUBSET DOMAIN query.dist /\ Active \ beam.visited # {}
    BY <1>1, <1>2
  <2> QED
    BY <1>2, <1>5, <2>1, FixedPopIs DEF Picked
<1> HIDE DEF v
<1>7. ToSet(v.frontier) = Active
  <2>1. v.frontier = Sorted(query, Active)
    BY <1>6 DEF FixedOver
  <2> QED
    BY <1>2, <2>1, SortedIs
<1>8. beam' = c
  <2>1. beam' = FixedStep(beam, query, Found.keep)
    BY <1>1, <1>2, PlainCases
  <2>2. Merged(query, Active, StagedCandidates(query, Found.keep,
          Cutoff(query, Active, query.beam)), query.beam) = Trimmed
    BY <1>1, <1>2, NearIs DEF Merged, Trimmed
  <2>3. FixedStep(beam, query, Found.keep) =
          FixedCommit(v, Sorted(query, Merged(query, ToSet(v.frontier),
            StagedCandidates(query, Found.keep,
              Cutoff(query, ToSet(v.frontier), query.beam)), query.beam)))
    BY DEF FixedStep, v
  <2> QED
    BY <1>7, <2>1, <2>2, <2>3
<1>9. Trimmed \in SUBSET DOMAIN query.dist
  <2>1. Trimmed \subseteq Active \cup Near /\ Near \subseteq ToSet(Found.keep)
    BY <1>1, NearIs
  <2>2. ToSet(Found.keep) \subseteq Nodes
    BY <1>1, FoundIs
  <2> QED
    BY <1>2, <2>1, <2>2
<1>10. FixedOver(c, query, Trimmed) /\ c.failed = v.failed /\ c.visited = v.visited
  <2> HIDE DEF c
  <2> QED
    BY <1>2, <1>6, <1>9, FixedCommitIs DEF c
<1> HIDE DEF c
<1>11. Nodes' = Nodes
  BY <1>1 DEF Nodes
<1>12. ToSet(c.frontier) = Trimmed
  <2>1. c.frontier = Sorted(query, Trimmed)
    BY <1>10 DEF FixedOver
  <2> QED
    BY <1>2, <1>9, <2>1, SortedIs
<1>13. Active' = Trimmed
  <2>1. ToSet(beam'.frontier) = Trimmed
    BY <1>8, <1>12
  <2>2. engine' = "fixed"
    BY <1>1
  <2>3. Active' = ToSet(beam'.frontier)
    BY <2>2 DEF Active, Vector
  <2> QED
    BY <2>1, <2>3
<1>14. FixedShape'
  <2>1. c.failed = FALSE
    BY <1>4, <1>6, <1>10 DEF FixedShape
  <2>2. /\ c = FixedBeam(c.frontier, c.flags, c.epoch, c.visited, c.status, c.failed)
        /\ c.epoch \in Nat
        /\ c.status \in [Nodes -> [stamp : 0 .. c.epoch, visited : BOOLEAN]]
    BY <1>2, <1>10 DEF FixedOver
  <2> QED
    BY <1>8, <1>11, <2>1, <2>2 DEF FixedShape
<1>15. FixedInv'
  <2>1. beam'.frontier = Sorted(query', ToSet(beam'.frontier))
    BY <1>1, <1>8, <1>10, <1>12 DEF FixedOver
  <2>2. beam'.flags \in [1 .. Len(beam'.frontier) -> BOOLEAN]
    BY <1>8, <1>10 DEF FixedOver
  <2>3. FixedAgrees(beam') /\ \A x \in Nodes' :
          EverVisited(beam', x) <=> x \in beam'.visited
    BY <1>2, <1>8, <1>10, <1>11 DEF FixedOver
  <2> QED
    BY <2>1, <2>2, <2>3 DEF FixedInv, FixedAgrees, EverVisited
<1> QED
  BY <1>1, <1>6, <1>8, <1>10, <1>13, <1>14, <1>15 DEF ContainerInv, Vector

(* The radix frontier expands as the reference does.                       *)
LEMMA RadixExpands ==
  ASSUME PlainInv, Expand, engine = "radix"
  PROVE  /\ ContainerInv' /\ Active' = Trimmed
         /\ beam'.visited = beam.visited \cup {Picked}
<1> DEFINE S == beam.active
           U == beam.unvisited
           V == beam.visited
           Y == V \cup {Picked}
<1>1. /\ phase = "searching" /\ Started /\ Picked \in Nodes
      /\ Picked \in Active \ beam.visited
      /\ beam' = Step(query, Found.keep)
      /\ engine' = engine /\ phase' = phase /\ query' = query
  BY ExpandFacts
<1>2. /\ engine \in Plain /\ width = query.beam /\ IsQuery(query)
      /\ Nodes = DOMAIN query.dist /\ Active \subseteq Nodes
  BY <1>1, PlainFacts
<1>3. Active = S /\ beam' = RadixStep(beam, query, Found.keep)
  BY <1>1, <1>2, PlainCases
<1>4. beam = RadixOver(query, S, U, V) /\ S \ V \subseteq U
  BY <1>1 DEF PlainInv, ContainerInv, RadixInv
<1>5. S \in SUBSET DOMAIN query.dist /\ S \ V # {}
  BY <1>1, <1>2, <1>3
<1>6. ToSet(Found.keep) \subseteq DOMAIN query.dist
  BY <1>1, <1>2, FoundIs
<1>7. /\ Picked = Ranked(query, S \ V, 0)
      /\ Trimmed = MetricCut(query, Nearest(query, S \cup
           {y \in ToSet(Found.keep) : query.dist[y] < Cutoff(query, S, query.beam)},
           query.beam))
  BY <1>2, <1>3 DEF Picked, Trimmed, Near
<1> HIDE DEF S, U, V
<1>8. PICK W : /\ RadixStep(RadixOver(query, S, U, V), query, Found.keep)
                     = RadixOver(query, Trimmed, W, Y)
               /\ Trimmed \ Y \subseteq W
  BY <1>2, <1>4, <1>5, <1>6, <1>7, RadixStepIs
<1>9. beam' = RadixOver(query, Trimmed, W, Y)
  BY <1>3, <1>4, <1>8
<1> HIDE DEF Y
<1>10. beam'.active = Trimmed /\ beam'.unvisited = W /\ beam'.visited = Y
  BY <1>9, RadixHolds
<1>11. RadixInv'
  BY <1>1, <1>8, <1>9, <1>10 DEF RadixInv
<1>12. engine' = "radix"
  BY <1>1
<1>13. Active' = Trimmed
  BY <1>10, <1>12 DEF Active, Vector
<1> QED
  BY <1>10, <1>11, <1>12, <1>13 DEF ContainerInv, Vector, V, Y

(* So every one of these containers does.                                  *)
LEMMA ExpandContainer ==
  ASSUME PlainInv, Expand
  PROVE  /\ ContainerInv' /\ Active' = Trimmed
         /\ beam'.visited = beam.visited \cup {Picked}
<1>1. engine = "fixed" \/ engine = "radix" \/ Vector
  BY PlainCases DEF PlainInv
<1> QED
  BY <1>1, VectorExpands, FixedExpands, RadixExpands

(* The filter after an expansion stands for the reference's.               *)
LEMMA ExpandFilter ==
  ASSUME PlainInv, Expand
  PROVE  FilterInv' /\ Filtered' = Unseen(query, Picked, Filtered).filter
<1>1. /\ Started /\ Picked \in Nodes /\ filter' = [filter EXCEPT !.cells = Found.cells]
      /\ query' = query
  BY ExpandFacts
<1>2. /\ Found \in FilterLooks(filter, query)
      /\ Unseen(query, Picked, Filtered).filter = Stands(filter, query, Found.cells)
  BY <1>1, FoundIs
<1>3. /\ filter = [size |-> filter.size, epoch |-> filter.epoch, cells |-> filter.cells]
      /\ filter.epoch \in Nat
  BY DEF PlainInv, FilterInv
<1>4. filter' = [size |-> filter.size, epoch |-> filter.epoch, cells |-> Found.cells]
  BY <1>1, <1>3
<1>5. Found.cells \in Cells(filter)
  BY <1>2 DEF FilterLooks
<1>6. FilterInv'
  BY <1>3, <1>4, <1>5 DEF FilterInv, Cells
<1>7. Filtered' = Stands(filter, query, Found.cells)
  BY <1>1, <1>4 DEF Filtered, Stands, Slots
<1> QED
  BY <1>2, <1>6, <1>7

(* The memo stays exact: only completed distances enter it.                *)
LEMMA ExpandMemo ==
  ASSUME PlainInv, Expand
  PROVE  MemoInv'
<1>1. /\ Started /\ query' = query /\ engine' = engine /\ phase' = phase
      /\ memo' = IF engine = "memo"
                 THEN MemoInsert(memo, query,
                        Completed(memo, query, Found.keep,
                          Cutoff(query, Active, query.beam)))
                 ELSE memo
  BY ExpandFacts
<1>2. Nodes' = Nodes /\ Started'
  BY <1>1 DEF Nodes, Started
<1>3. CASE engine # "memo"
  BY <1>1, <1>2, <1>3 DEF PlainInv, MemoInv
<1>4. CASE engine = "memo"
  <2> DEFINE new == Completed(memo, query, Found.keep, Cutoff(query, Active, query.beam))
             m == MemoInsert(memo, query, new)
  <2>1. /\ memo = [value |-> memo.value, stamp |-> memo.stamp, epoch |-> memo.epoch]
        /\ memo.epoch \in Nat
        /\ memo.value \in [Nodes -> Nat] /\ memo.stamp \in [Nodes -> 0 .. memo.epoch]
        /\ \A x \in Nodes : Hit(memo, x) => memo.value[x] = query.dist[x]
    BY <1>1, <1>4 DEF PlainInv, MemoInv
  <2> HIDE DEF new
  <2>2. m = [value |-> [x \in Nodes |-> IF x \in new THEN query.dist[x] ELSE memo.value[x]],
             stamp |-> [x \in Nodes |-> IF x \in new THEN memo.epoch ELSE memo.stamp[x]],
             epoch |-> memo.epoch]
    <3>1. m = [memo EXCEPT
                 !.value = [x \in DOMAIN memo.value |->
                              IF x \in new THEN query.dist[x] ELSE memo.value[x]],
                 !.stamp = [x \in DOMAIN memo.stamp |->
                              IF x \in new THEN memo.epoch ELSE memo.stamp[x]]]
      BY DEF MemoInsert
    <3>2. DOMAIN memo.value = Nodes /\ DOMAIN memo.stamp = Nodes
      BY <2>1
    <3> HIDE DEF m
    <3> QED
      BY <2>1, <3>1, <3>2
  <2> HIDE DEF m
  <2>3. \A x \in Nodes : query.dist[x] \in Nat
    BY <1>1, PlainFacts, NodesAre
  <2>4. m.value \in [Nodes -> Nat] /\ m.stamp \in [Nodes -> 0 .. m.epoch] /\ m.epoch \in Nat
    BY <2>1, <2>2, <2>3
  <2>5. \A x \in Nodes : Hit(m, x) => m.value[x] = query.dist[x]
    BY <2>1, <2>2 DEF Hit
  <2>6. m = [value |-> m.value, stamp |-> m.stamp, epoch |-> m.epoch]
    BY <2>2
  <2>7. memo' = m
    BY <1>1, <1>4 DEF m, new
  <2> QED
    BY <1>1, <1>2, <2>4, <2>5, <2>6, <2>7 DEF MemoInv, Hit
<1> QED
  BY <1>3, <1>4

(* Only what was in the beam or scored now is recorded as lost.            *)
LEMMA SpillsObserved ==
  ASSUME NEW s, NEW b, NEW q, NEW keep, NEW c,
         ToSet(StagedCandidates(q, keep, Cutoff(q, b.frontier, q.beam)))
           \subseteq ToSet(keep)
  PROVE  LET t == Spilled(s, b, q, keep)
         IN /\ t.width \subseteq s.width \cup b.frontier \cup ToSet(keep)
            /\ t.cutoff \subseteq s.cutoff \cup ToSet(keep)
            /\ DOMAIN t.prefix \subseteq DOMAIN s.prefix \cup ToSet(keep)
<1> DEFINE cutoff == Cutoff(q, b.frontier, q.beam)
           all == b.frontier \cup ToSet(StagedCandidates(q, keep, cutoff))
           wider == MetricCut(q, Nearest(q, all, q.beam + AddedWidth))
           kept == MetricCut(q, Nearest(q, all, q.beam))
           t == Spilled(s, b, q, keep)
           K == ToSet(keep)
           rejected == {y \in K : q.prefix[y] >= cutoff}
<1>1. wider \subseteq all
  BY DEF MetricCut, Nearest
<1>2. t.width = s.width \cup (wider \ kept)
  BY DEF Spilled
<1>3. t.cutoff \subseteq s.cutoff \cup K
  BY DEF Spilled
<1>4. DOMAIN t.prefix = DOMAIN s.prefix \cup rejected
  BY DEF Spilled
<1> HIDE DEF t, wider, kept
<1> QED
  BY <1>1, <1>2, <1>3, <1>4 DEF t

(* The rest of the invariant after an expansion.                           *)
LEMMA ExpandSearch ==
  ASSUME PlainInv, Expand
  PROVE  SearchInv'
<1> DEFINE K == ToSet(Found.keep)
           V == beam.visited
<1>1. /\ phase = "searching" /\ Started /\ Picked \in Active \ V /\ Picked \in Nodes
      /\ visits' = visits + 1 /\ observed' = observed \cup K
      /\ spill' = IF engine = "spill" /\ ~widened /\ query.eligible
                  THEN Spilled(spill, beam, query, Found.keep) ELSE spill
      /\ engine' = engine /\ phase' = phase /\ query' = query /\ width' = width
      /\ top' = top /\ widened' = widened
  BY ExpandFacts
<1>2. Active' = Trimmed /\ beam'.visited = V \cup {Picked}
  BY ExpandContainer
<1>3. /\ Active \subseteq observed /\ observed \subseteq Nodes
      /\ V \subseteq observed /\ visits = Cardinality(V)
      /\ (~widened => width = query.beam /\ top = {})
      /\ (widened => engine = "spill" /\ width = query.beam + AddedWidth)
      /\ top \subseteq observed
      /\ spill.width \subseteq observed /\ spill.cutoff \subseteq observed
      /\ DOMAIN spill.prefix \subseteq observed
  BY <1>1 DEF PlainInv, SearchInv
<1>4. K \subseteq Nodes
  BY <1>1, FoundIs
<1>5. Trimmed \subseteq Active \cup Near /\ Near \subseteq K
        /\ Cardinality(Trimmed) <= width
  BY <1>1, NearIs
<1>6. Nodes' = Nodes /\ Started'
  BY <1>1 DEF Nodes, Started
<1>7. Cardinality(V \cup {Picked}) = visits + 1
  <2>1. V \in SUBSET DOMAIN query.dist /\ IsQuery(query)
    BY <1>1, <1>3, PlainFacts
  <2>2. IsFiniteSet(V)
    BY <2>1, FiniteBefore
  <2> HIDE DEF V
  <2> QED
    BY <1>1, <1>3, <2>2, FS_AddElement
<1>8. /\ spill'.width \subseteq observed \cup K /\ spill'.cutoff \subseteq observed \cup K
      /\ DOMAIN spill'.prefix \subseteq observed \cup K
  <2>1. CASE ~ (engine = "spill" /\ ~widened /\ query.eligible)
    BY <1>1, <1>3, <2>1
  <2>2. CASE engine = "spill" /\ ~widened /\ query.eligible
    <3> DEFINE t == Spilled(spill, beam, query, Found.keep)
    <3>1. Active = beam.frontier /\ width = query.beam
      BY <1>1, <1>3, <2>2, PlainFacts, PlainCases
    <3>2. ToSet(StagedCandidates(query, Found.keep,
            Cutoff(query, beam.frontier, query.beam))) \subseteq K
      BY <1>1, <3>1, NearIs
    <3>3. /\ t.width \subseteq spill.width \cup beam.frontier \cup K
          /\ t.cutoff \subseteq spill.cutoff \cup K
          /\ DOMAIN t.prefix \subseteq DOMAIN spill.prefix \cup K
      BY <3>2, SpillsObserved
    <3>4. spill' = t
      BY <1>1, <2>2
    <3> HIDE DEF t
    <3> QED
      BY <1>3, <3>1, <3>3, <3>4
  <2> QED
    BY <2>1, <2>2
<1> HIDE DEF K, V
<1> QED
  BY <1>1, <1>2, <1>3, <1>4, <1>5, <1>6, <1>7, <1>8 DEF SearchInv

(* An expansion preserves the invariant and is the reference's.            *)
LEMMA ExpandPlain ==
  ASSUME PlainInv, Expand
  PROVE  PlainInv' /\ Abstract!Expand
<1> DEFINE new == Unseen(query, Picked, Filtered)
<1>1. /\ phase = "searching" /\ Started /\ Open # {} /\ visits < bound
      /\ Picked \in Active \ beam.visited /\ Picked \in Nodes
      /\ scored' = query.dist
      /\ computed' = computed + Len(Found.keep)
      /\ observed' = observed \cup ToSet(Found.keep)
      /\ engine' = engine /\ phase' = phase /\ query' = query /\ width' = width
      /\ bound' = bound /\ top' = top /\ widened' = widened /\ served' = served
  BY ExpandFacts
<1>2. ContainerInv' /\ Active' = Trimmed /\ beam'.visited = beam.visited \cup {Picked}
  BY ExpandContainer
<1>3. FilterInv' /\ Filtered' = new.filter
  BY ExpandFilter
<1>4. MemoInv' /\ SearchInv'
  BY ExpandMemo, ExpandSearch
<1>5. Found.keep = new.keep
  BY <1>1, FoundIs
<1>6. Started'
  BY <1>1 DEF Started
<1>7. PlainInv'
  BY <1>1, <1>2, <1>3, <1>4, <1>6 DEF PlainInv
<1>8. visits = Cardinality(beam.visited)
  BY <1>1 DEF PlainInv, SearchInv
<1>9. /\ Held = Active /\ Done = beam.visited /\ Seen = Filtered
      /\ Held' = Trimmed /\ Done' = beam.visited \cup {Picked} /\ Seen' = new.filter
  BY <1>1, <1>2, <1>3, <1>6 DEF Held, Done, Seen
<1>10. Picked = Ranked(query, Held \ Done, 0) /\ Held \ Done # {}
  BY <1>1, <1>9 DEF Picked
<1>11. new = Unseen(query, Picked, Seen)
  BY <1>9
<1> HIDE DEF new
<1>12. Trimmed = MetricCut(query,
         Nearest(query, Held \cup {y \in ToSet(new.keep) :
                                      query.dist[y] < Cutoff(query, Held, width)}, width))
  BY <1>5, <1>9 DEF Trimmed, Near
<1>13. Abstract!Expand
  <2> DEFINE U == Held \ Done
  <2>1. Abstract!Unvisited = U
    BY DEF Abstract!Unvisited, Held, Done
  <2>2. Abstract!Ranked(query, U, 0) = Picked
    BY <1>10, SameOrder
  <2>3. Abstract!Unseen(query, Picked, Seen) = new
    BY <1>11, SameUnseen
  <2>4. Abstract!ToSet(new.keep) = ToSet(new.keep)
    BY SameSets
  <2>5. Abstract!Cutoff(query, Held, width) = Cutoff(query, Held, width)
    BY SameOrder
  <2>6. Abstract!MetricCut(query,
          Abstract!Nearest(query,
            Held \cup {y \in Abstract!ToSet(new.keep) :
                        query.dist[y] < Abstract!Cutoff(query, Held, width)},
            width)) = Trimmed
    BY <1>12, <2>4, <2>5, SameOrder
  <2>7. Abstract!Cardinality(Done) < bound
    BY <1>1, <1>8, <1>9, SameSets
  <2>8. /\ phase = "searching" /\ U # {}
        /\ Done' = Done \cup {Picked} /\ Seen' = new.filter /\ Held' = Trimmed
        /\ computed' = computed + Len(new.keep)
        /\ observed' = observed \cup Abstract!ToSet(new.keep)
    BY <1>1, <1>5, <1>9, <1>10, <2>4
  <2> HIDE DEF U
  <2> QED
    BY <1>1, <2>1, <2>2, <2>3, <2>6, <2>7, <2>8
    DEF Abstract!Expand, Held, Done, Seen
<1> QED
  BY <1>7, <1>13

-----------------------------------------------------------------------------
(* Continuing.                                                             *)

(* The lesser of two numbers.                                              *)
LEMMA LesserOfTwo ==
  ASSUME NEW a \in Nat, NEW b \in Nat
  PROVE  Min({a, b}) = IF a < b THEN a ELSE b
<1> DEFINE S == {a, b}
<1>1. S = {a} \cup {b} /\ IsFiniteSet({a})
  BY FS_Singleton
<1>2. IsFiniteSet(S)
  <2>1. IsFiniteSet({a} \cup {b})
    BY <1>1, FS_AddElement
  <2> QED
    BY <1>1, <2>1
<1>3. S \subseteq Int /\ S # {}
  OBVIOUS
<1> HIDE DEF S
<1>4. Min(S) \in S /\ \A y \in S : Min(S) <= y
  BY <1>2, <1>3, MinIs
<1> DEFINE m == Min(S)
<1>5. m \in S /\ \A y \in S : m <= y
  BY <1>4
<1> HIDE DEF m
<1>6. m = IF a < b THEN a ELSE b
  BY <1>5 DEF S
<1> QED
  BY <1>6 DEF m, S

(* What a continuation takes over beside its frontier.                     *)
Resumed ==
  LET found == {y \in CompletedSpill(spill, beam, query) : query.dist[y] <= spill.prefix[y]}
  IN Nearest(query, (Lost(spill, beam) \cup found) \ beam.frontier,
             query.beam + AddedWidth - Cardinality(beam.frontier))

(* A continuation starts from a finished search at its first width.        *)
LEMMA ContinueFacts ==
  ASSUME PlainInv, Continue
  PROVE  /\ phase = "searching" /\ Started /\ engine = "spill" /\ ~widened
         /\ Active = beam.frontier /\ beam.visited # {}
         /\ visits = Cardinality(beam.visited)
         /\ beam.frontier \ beam.visited = {}
         /\ width = query.beam
         /\ beam' = [beam EXCEPT !.frontier = beam.frontier \cup Resumed]
         /\ top' = Nearest(query, beam.frontier, query.k)
         /\ computed' = computed + Cardinality(CompletedSpill(spill, beam, query))
         /\ width' = query.beam + AddedWidth
         /\ bound' = Min({query.limit, visits + AddedVisits})
         /\ widened' = TRUE
         /\ UNCHANGED <<engine, phase, query, filter, visits, memo, scored, spill, observed,
              served>>
<1>1. phase = "searching" /\ Started /\ engine = "spill" /\ ~widened /\ visits > 0
        /\ Open = {}
  BY DEF Continue, MustContinue, Started
<1>2. View = query /\ width = query.beam /\ engine \in Plain
  BY <1>1, PlainFacts DEF PlainInv, SearchInv
<1>3. Active = beam.frontier /\ Open = beam.frontier \ beam.visited
  BY <1>1, <1>2, PlainCases
<1>4. visits = Cardinality(beam.visited)
  BY <1>1 DEF PlainInv, SearchInv
<1>5. beam.visited # {}
  <2> SUFFICES ASSUME beam.visited = {} PROVE FALSE
    OBVIOUS
  <2>1. visits = 0
    BY <1>4, FS_EmptySet
  <2> QED
    BY <1>1, <2>1
<1>6. Handoff(spill, beam, View) = beam.frontier \cup Resumed
  BY <1>2 DEF Handoff, Resumed
<1>7. /\ beam' = [beam EXCEPT !.frontier = Handoff(spill, beam, View)]
      /\ top' = Nearest(View, beam.frontier, query.k)
      /\ computed' = computed + Cardinality(CompletedSpill(spill, beam, View))
      /\ width' = query.beam + AddedWidth
      /\ bound' = Min({query.limit, visits + AddedVisits})
      /\ widened' = TRUE
      /\ UNCHANGED <<engine, phase, query, filter, visits, memo, scored, spill, observed,
           served>>
  BY DEF Continue
<1> QED
  BY <1>1, <1>2, <1>3, <1>4, <1>5, <1>6, <1>7

(* What is resumed was scored, is neither visited nor in the beam, and     *)
(* fits the added width.                                                   *)
LEMMA ResumedIs ==
  ASSUME PlainInv, Continue
  PROVE  /\ Resumed \subseteq observed \ (beam.visited \cup beam.frontier)
         /\ Cardinality(beam.frontier \cup Resumed) <= query.beam + AddedWidth
         /\ CompletedSpill(spill, beam, query) \subseteq observed
<1> DEFINE F == beam.frontier
           C == CompletedSpill(spill, beam, query)
           L == Lost(spill, beam)
           X == (L \cup {y \in C : query.dist[y] <= spill.prefix[y]}) \ F
           room == query.beam + AddedWidth - Cardinality(F)
           H == Nearest(query, X, room)
<1>1. /\ Started /\ phase = "searching" /\ Active = F /\ width = query.beam
  BY ContinueFacts
<1>2. /\ IsQuery(query) /\ Nodes = DOMAIN query.dist /\ F \subseteq observed
      /\ observed \subseteq Nodes /\ query.beam \in Nat
  BY <1>1, PlainFacts
<1>3. /\ spill.width \subseteq observed /\ spill.cutoff \subseteq observed
      /\ DOMAIN spill.prefix \subseteq observed /\ Cardinality(F) <= query.beam
  BY <1>1 DEF PlainInv, SearchInv
<1>4. L \subseteq observed \ beam.visited
  BY <1>3 DEF Lost
<1>5. C \subseteq observed \ beam.visited
  BY <1>3 DEF CompletedSpill
<1>6. X \subseteq observed \ (beam.visited \cup F)
  BY <1>4, <1>5
<1>7. X \in SUBSET DOMAIN query.dist /\ F \in SUBSET DOMAIN query.dist
  BY <1>2, <1>6
<1>8. IsFiniteSet(F) /\ Cardinality(F) \in Nat /\ Cardinality(X) \in Nat
  <2> HIDE DEF F, X
  <2> QED
    BY <1>2, <1>7, FiniteBefore
<1>9. room \in Nat
  <2> HIDE DEF F
  <2> QED
    BY <1>2, <1>3, <1>8, BatchedAssumption
<1>10. H \subseteq X /\ IsFiniteSet(H) /\ Cardinality(H) <= room /\ Cardinality(H) \in Nat
  <2> HIDE DEF X, room, H
  <2>1. H \subseteq X /\ IsFiniteSet(H)
        /\ Cardinality(H) = IF room <= Cardinality(X) THEN room ELSE Cardinality(X)
    BY <1>2, <1>7, <1>9, NearestIs DEF H
  <2> QED
    BY <1>8, <1>9, <2>1
<1>11. Cardinality(F \cup H) <= query.beam + AddedWidth
  <2>1. F \cap H = {}
    BY <1>6, <1>10
  <2> HIDE DEF F, H, X, room
  <2>2. Cardinality(F \cup H) = Cardinality(F) + Cardinality(H) - Cardinality(F \cap H)
    BY <1>8, <1>10, FS_Union
  <2>3. Cardinality(F \cap H) = 0
    BY <2>1, FS_EmptySet
  <2> QED
    BY <1>2, <1>8, <1>9, <1>10, <2>2, <2>3, BatchedAssumption DEF room
<1>12. Resumed = H
  BY DEF Resumed
<1> HIDE DEF H, X, C
<1> QED
  BY <1>5, <1>6, <1>10, <1>11, <1>12 DEF C

(* The vector then holds both.                                             *)
LEMMA ContinueContainer ==
  ASSUME PlainInv, Continue
  PROVE  /\ ContainerInv' /\ Active' = beam.frontier \cup Resumed
         /\ beam'.visited = beam.visited
<1>1. /\ Started /\ engine = "spill" /\ engine' = engine /\ phase' = phase
      /\ beam' = [beam EXCEPT !.frontier = beam.frontier \cup Resumed]
  BY ContinueFacts
<1>2. VectorInv
  BY <1>1 DEF PlainInv, ContainerInv, Vector
<1> DEFINE f == beam.frontier
           v == beam.visited
           z == beam.failed
           F == f \cup Resumed
<1>3. beam = VectorBeam(f, v, z)
  BY <1>2 DEF VectorInv, VectorBeam
<1>4. beam' = VectorBeam(F, v, z)
  <2>1. beam' = [beam EXCEPT !.frontier = F]
    BY <1>1
  <2> HIDE DEF f, v, z, F
  <2> QED
    BY <1>3, <2>1, VectorFrontier
<1>5. VectorInv' /\ beam'.frontier = F /\ beam'.visited = v
  BY <1>2, <1>4 DEF VectorInv, VectorBeam
<1>6. Active' = F
  BY <1>1, <1>5 DEF Active, Vector
<1> QED
  BY <1>1, <1>5, <1>6 DEF ContainerInv, Vector

(* A continuation preserves the invariant and widens the reference.        *)
LEMMA ContinuePlain ==
  ASSUME PlainInv, Continue
  PROVE  /\ PlainInv'
         /\ \E H \in SUBSET observed, extra \in 0 .. Abstract!Cardinality(observed) :
              Abstract!Widen(H, extra)
<1> DEFINE F == beam.frontier
           n == Cardinality(CompletedSpill(spill, beam, query))
<1>1. /\ phase = "searching" /\ Started /\ engine = "spill" /\ ~widened
      /\ Active = F /\ beam.visited # {} /\ visits = Cardinality(beam.visited)
      /\ F \ beam.visited = {} /\ width = query.beam
      /\ top' = Nearest(query, F, query.k)
      /\ computed' = computed + n
      /\ width' = query.beam + AddedWidth
      /\ bound' = Min({query.limit, visits + AddedVisits})
      /\ widened' = TRUE
      /\ engine' = engine /\ phase' = phase /\ query' = query /\ filter' = filter
      /\ visits' = visits /\ memo' = memo /\ scored' = scored /\ spill' = spill
      /\ observed' = observed /\ served' = served
  BY ContinueFacts
<1>2. /\ Resumed \subseteq observed \ (beam.visited \cup F)
      /\ Cardinality(F \cup Resumed) <= query.beam + AddedWidth
      /\ CompletedSpill(spill, beam, query) \subseteq observed
  BY ResumedIs
<1>3. ContainerInv' /\ Active' = F \cup Resumed /\ beam'.visited = beam.visited
  BY ContinueContainer
<1>4. /\ IsQuery(query) /\ F \subseteq observed /\ observed \subseteq Nodes
      /\ Nodes = DOMAIN query.dist
  BY <1>1, PlainFacts
<1>5. Started' /\ Nodes' = Nodes
  BY <1>1 DEF Started, Nodes
<1>6. top' \subseteq observed
  BY <1>1, <1>4 DEF Nearest
<1>7. SearchInv'
  BY <1>1, <1>2, <1>3, <1>4, <1>5, <1>6 DEF PlainInv, SearchInv
<1>8. FilterInv' /\ MemoInv'
  BY <1>1, <1>5 DEF PlainInv, FilterInv, Cells, MemoInv, Hit
<1>9. PlainInv'
  BY <1>1, <1>3, <1>5, <1>7, <1>8 DEF PlainInv
<1>10. n \in 0 .. Cardinality(observed)
  <2>1. IsFiniteSet(observed) /\ Cardinality(observed) \in Nat
    BY <1>4, FiniteBefore
  <2>2. IsFiniteSet(CompletedSpill(spill, beam, query)) /\ n <= Cardinality(observed)
    BY <1>2, <2>1, FS_Subset
  <2>3. n \in Nat
    BY <2>2, FS_CardinalityType
  <2> QED
    BY <2>1, <2>2, <2>3
<1>11. bound' = IF query.limit < visits + AddedVisits THEN query.limit
         ELSE visits + AddedVisits
  <2>1. query.limit \in Nat
    BY <1>4 DEF IsQuery
  <2>2. visits \in Nat
    <3>1. beam.visited \in SUBSET DOMAIN query.dist
      BY <1>1, <1>4, PlainFacts
    <3> QED
      BY <1>1, <1>4, <3>1, FiniteBefore
  <2>3. visits + AddedVisits \in Nat
    BY <2>2, BatchedAssumption
  <2> QED
    BY <1>1, <2>1, <2>3, LesserOfTwo
<1>12. Filtered' = Filtered
  BY <1>1 DEF Filtered
<1>13. /\ Held = F /\ Done = beam.visited /\ Seen = Filtered
       /\ Held' = F \cup Resumed /\ Done' = beam.visited /\ Seen' = Filtered
  BY <1>1, <1>3, <1>5, <1>12 DEF Held, Done, Seen
<1> HIDE DEF n
<1>14. Abstract!Widen(Resumed, n)
  <2>1. Abstract!Unvisited = Held \ Done
    BY DEF Abstract!Unvisited, Held, Done
  <2>2. Abstract!Cardinality(Done) = visits
    BY <1>1, <1>13, SameSets
  <2>3. Abstract!Cardinality(Held \cup Resumed) <= query.beam + AddedWidth
    BY <1>2, <1>13, SameSets
  <2>4. Abstract!Nearest(query, Held, query.k) = top'
    BY <1>1, <1>13, SameOrder
  <2>5. /\ phase = "searching" /\ Done # {} /\ Held \ Done = {} /\ width = query.beam
        /\ Resumed \subseteq observed \ (Done \cup Held)
        /\ Held' = Held \cup Resumed /\ Done' = Done /\ Seen' = Seen
    BY <1>1, <1>2, <1>13
  <2> QED
    BY <1>1, <1>11, <2>1, <2>2, <2>3, <2>4, <2>5 DEF Abstract!Widen, Held, Done, Seen
<1>15. Resumed \in SUBSET observed /\ n \in 0 .. Abstract!Cardinality(observed)
  BY <1>2, <1>10, SameSets
<1> QED
  BY <1>9, <1>14, <1>15

-----------------------------------------------------------------------------
(* Answering, and the theorems.                                            *)

(* An answer adds the top of the first part.                               *)
LEMMA AnswerContainer ==
  ASSUME PlainInv, Answer
  PROVE  /\ ContainerInv' /\ Active' = Active \cup top
         /\ beam'.visited = beam.visited
<1>1. /\ phase = "searching" /\ Started /\ Started'
      /\ beam' = IF widened THEN [beam EXCEPT !.frontier = beam.frontier \cup top] ELSE beam
      /\ engine' = engine /\ query' = query /\ Nodes' = Nodes
  BY DEF Answer, Started, Nodes
<1>2. engine \in Plain /\ (widened => engine = "spill") /\ (~widened => top = {})
      /\ widened \in BOOLEAN
  BY <1>1 DEF PlainInv, SearchInv
<1>3. CASE ~widened
  <2>1. beam' = beam /\ top = {}
    BY <1>1, <1>2, <1>3
  <2>2. ContainerInv'
    BY <1>1, <2>1 DEF PlainInv, ContainerInv, FixedShape, FixedInv, RadixInv, Vector,
         VectorInv, FixedAgrees, EverVisited
  <2>3. Active' = Active
    BY <1>1, <2>1 DEF Active, Vector
  <2> QED
    BY <2>1, <2>2, <2>3
<1>4. CASE widened
  <2> DEFINE f == beam.frontier
             v == beam.visited
             z == beam.failed
             F == f \cup top
  <2>1. engine = "spill" /\ engine' = "spill"
    BY <1>1, <1>2, <1>4
  <2>2. VectorInv
    BY <1>1, <2>1 DEF PlainInv, ContainerInv, Vector
  <2>3. beam = VectorBeam(f, v, z)
    BY <2>2 DEF VectorInv, VectorBeam
  <2>4. beam' = VectorBeam(F, v, z)
    <3>1. beam' = [beam EXCEPT !.frontier = F]
      BY <1>1, <1>4
    <3> HIDE DEF f, v, z, F
    <3> QED
      BY <2>3, <3>1, VectorFrontier
  <2>5. VectorInv' /\ beam'.frontier = F /\ beam'.visited = v
    BY <2>2, <2>4 DEF VectorInv, VectorBeam
  <2>6. Active' = F /\ Active = f
    BY <2>1, <2>5 DEF Active, Vector
  <2> QED
    BY <2>1, <2>5, <2>6 DEF ContainerInv, Vector
<1> QED
  BY <1>2, <1>3, <1>4

(* Answering preserves the invariant and answers the reference.            *)
LEMMA AnswerPlain ==
  ASSUME PlainInv, Answer
  PROVE  PlainInv' /\ Abstract!Answer
<1>1. /\ phase = "searching" /\ phase' = "answered" /\ (Open = {} \/ visits >= bound)
      /\ engine' = engine /\ query' = query /\ filter' = filter /\ visits' = visits
      /\ computed' = computed /\ width' = width /\ bound' = bound /\ memo' = memo
      /\ scored' = scored /\ spill' = spill /\ top' = top /\ widened' = widened
      /\ observed' = observed /\ served' = served
  BY DEF Answer
<1>2. ContainerInv' /\ Active' = Active \cup top /\ beam'.visited = beam.visited
  BY AnswerContainer
<1>3. Started /\ Started' /\ Nodes' = Nodes /\ Filtered' = Filtered
  BY <1>1 DEF Started, Nodes, Filtered
<1>4. FilterInv' /\ MemoInv'
  BY <1>1, <1>3 DEF PlainInv, FilterInv, Cells, MemoInv, Hit
<1>5. SearchInv'
  BY <1>1, <1>2, <1>3 DEF PlainInv, SearchInv
<1>6. PlainInv'
  BY <1>1, <1>2, <1>3, <1>4, <1>5 DEF PlainInv
<1>7. Open = {} <=> Active \ beam.visited = {}
  BY <1>3, HandsOutNearest
<1>8. visits = Cardinality(beam.visited)
  BY <1>3 DEF PlainInv, SearchInv
<1>9. /\ Held = Active /\ Done = beam.visited /\ Seen = Filtered
      /\ Held' = Active \cup top /\ Done' = beam.visited /\ Seen' = Filtered
  BY <1>2, <1>3 DEF Held, Done, Seen
<1>10. Abstract!Answer
  <2>1. Abstract!Unvisited = Held \ Done
    BY DEF Abstract!Unvisited, Held, Done
  <2>2. Abstract!Cardinality(Done) = visits
    BY <1>8, <1>9, SameSets
  <2>3. /\ Held \ Done = {} \/ visits >= bound
        /\ Held' = Held \cup top /\ Done' = Done /\ Seen' = Seen
    BY <1>1, <1>7, <1>9
  <2> QED
    BY <1>1, <2>1, <2>2, <2>3 DEF Abstract!Answer, Held, Done, Seen
<1> QED
  BY <1>6, <1>10

(* The workspace is built in the invariant and the reference starts.       *)
LEMMA InitPlain ==
  ASSUME Init, engine \in Plain
  PROVE  PlainInv /\ Abstract!Init
<1>1. /\ phase = "idle" /\ query = CHOOSE q \in Queries[1] : TRUE
      /\ beam = NewContainer(engine, Nodes)
      /\ filter = [size |-> 0, epoch |-> 0, cells |-> [n \in 0 .. SlotMax - 1 |-> NoCell]]
      /\ computed = 0 /\ width = 0 /\ bound = 0 /\ memo = MemoNew(Nodes)
      /\ scored = query.dist /\ top = {} /\ widened = FALSE /\ observed = {} /\ served = 0
  BY DEF Init
<1>2. ~Started
  BY <1>1 DEF Started
<1>3. query \in Queries[1] /\ 1 \in 1 .. Len(Queries)
  BY <1>1, QueryAssumption
<1>4. FilterInv
  <2>1. NoCell \in [id : Int, epoch : 0 .. 0]
    BY DEF NoCell
  <2>2. filter.cells \in [0 .. SlotMax - 1 -> [id : Int, epoch : 0 .. 0]]
    BY <1>1, <2>1
  <2>3. filter.epoch = 0
    BY <1>1
  <2> QED
    BY <1>1, <2>2, <2>3 DEF FilterInv, Cells
<1>5. MemoInv
  <2> DEFINE z == [x \in Nodes |-> 0]
  <2>1. memo = [value |-> z, stamp |-> z, epoch |-> 0]
    BY <1>1 DEF MemoNew
  <2>2. z \in [Nodes -> Nat] /\ z \in [Nodes -> 0 .. 0]
    OBVIOUS
  <2> HIDE DEF z
  <2> QED
    BY <1>2, <2>1, <2>2 DEF MemoInv
<1>6. ContainerInv
  <2>1. CASE engine # "fixed"
    BY <1>2, <2>1 DEF ContainerInv
  <2>2. CASE engine = "fixed"
    <3>1. beam = FixedNew(Nodes)
      BY <1>1, <2>2 DEF NewContainer
    <3> DEFINE s == [x \in Nodes |-> [stamp |-> 0, visited |-> FALSE]]
    <3>2. beam = [frontier |-> <<>>, flags |-> <<>>, epoch |-> 0, visited |-> {},
             status |-> s, failed |-> FALSE]
      BY <3>1 DEF FixedNew
    <3>3. s \in [Nodes -> [stamp : 0 .. 0, visited : BOOLEAN]]
      OBVIOUS
    <3> HIDE DEF s
    <3>4. FixedShape
      BY <3>2, <3>3 DEF FixedShape, FixedBeam
    <3> QED
      BY <1>2, <2>2, <3>4 DEF ContainerInv
  <2> QED
    BY <2>1, <2>2
<1>7. PlainInv
  <2>1. \E n \in 1 .. Len(Queries) : query \in Queries[n]
    BY <1>3
  <2>2. SearchInv
    BY <1>2 DEF SearchInv
  <2>3. phase \in {"idle", "searching", "answered"} /\ served \in Nat /\ ~ (served > 0)
    BY <1>1
  <2>4. widened \in BOOLEAN
    <3>1. widened = FALSE
      BY <1>1
    <3> QED
      BY <3>1
  <2> QED
    BY <1>1, <1>4, <1>5, <1>6, <2>1, <2>2, <2>3, <2>4 DEF PlainInv
<1>8. Held = {} /\ Done = {} /\ Seen = EmptyFilter(query)
  BY <1>2 DEF Held, Done, Seen
<1>9. Abstract!Init
  BY <1>1, <1>8, SameOrder DEF Abstract!Init, Held, Done, Seen
<1> QED
  BY <1>7, <1>9

(* Without a step neither takes one.                                       *)
LEMMA StutterPlain ==
  ASSUME PlainInv, UNCHANGED vars
  PROVE  PlainInv' /\ UNCHANGED Abstract!vars
<1>1. /\ engine' = engine /\ phase' = phase /\ query' = query /\ beam' = beam
      /\ filter' = filter /\ visits' = visits /\ computed' = computed /\ width' = width
      /\ bound' = bound /\ memo' = memo /\ scored' = scored /\ spill' = spill /\ top' = top
      /\ widened' = widened /\ observed' = observed /\ served' = served
  BY DEF vars
<1>2. /\ Started' = Started /\ Nodes' = Nodes /\ Filtered' = Filtered /\ Active' = Active
  BY <1>1 DEF Started, Nodes, Filtered, Active, Vector
<1>3. FilterInv' /\ MemoInv'
  BY <1>1, <1>2 DEF PlainInv, FilterInv, Cells, MemoInv, Hit
<1>4. ContainerInv'
  BY <1>1, <1>2 DEF PlainInv, ContainerInv, FixedShape, FixedInv, RadixInv, Vector,
       VectorInv, FixedAgrees, EverVisited
<1>5. SearchInv'
  BY <1>1, <1>2 DEF PlainInv, SearchInv
<1>6. PlainInv'
  BY <1>1, <1>2, <1>3, <1>4, <1>5 DEF PlainInv
<1>7. Held' = Held /\ Done' = Done /\ Seen' = Seen
  BY <1>1, <1>2 DEF Held, Done, Seen
<1> QED
  BY <1>1, <1>6, <1>7 DEF Abstract!vars, Held, Done, Seen

(* Every step preserves the invariant and is one of the reference, or      *)
(* none.                                                                   *)
LEMMA PlainStep ==
  ASSUME PlainInv, [Next]_vars
  PROVE  PlainInv' /\ [Abstract!Next]_Abstract!vars
<1>1. ASSUME NEW q \in UNION ToSet(Queries), Begin(q)
      PROVE  PlainInv' /\ Abstract!Next
  <2>1. PlainInv' /\ Abstract!Begin(q)
    BY <1>1, BeginPlain
  <2> QED
    BY <2>1, SameSets DEF Abstract!Next
<1>2. CASE Expand
  BY <1>2, ExpandPlain DEF Abstract!Next
<1>3. CASE Continue
  BY <1>3, ContinuePlain DEF Abstract!Next
<1>4. CASE Answer
  BY <1>4, AnswerPlain DEF Abstract!Next
<1>5. CASE UNCHANGED vars
  BY <1>5, StutterPlain
<1> QED
  BY <1>1, <1>2, <1>3, <1>4, <1>5 DEF Next

(* The sorted-vector searches (with their memo, batches, trace and         *)
(* continuation), the fixed and the radix frontier perform the reference   *)
(* search, whatever the epochs, earlier queries and replays left in the    *)
(* workspace.                                                              *)
THEOREM PlainImplements ==
  Spec /\ engine \in Plain => ImplementsBeamSearch /\ []PlainInv
<1>1. Init /\ engine \in Plain => PlainInv /\ Abstract!Init
  BY InitPlain
<1>2. PlainInv /\ [Next]_vars => PlainInv' /\ [Abstract!Next]_Abstract!vars
  BY PlainStep
<1> QED
  BY <1>1, <1>2, PTL DEF Spec, ImplementsBeamSearch, Abstract!Spec

(* They keep the k nearest distances of all they have scored.              *)
THEOREM PlainKeepsNearest ==
  Spec /\ engine \in Plain => []NearestAreKept
BY PlainImplements, NearestKept, PTL

(* Their containers agree with themselves and never fail: the fixed        *)
(* frontier's flags with its statuses, the memo with the query.            *)
THEOREM PlainAgrees ==
  Spec /\ engine \in Plain => []ContainersAgree
<1>1. PlainInv => ContainersAgree
  <2> SUFFICES ASSUME PlainInv, Started PROVE ContainersAgree
    BY DEF ContainersAgree
  <2>1. engine \in Plain /\ MemoInv /\ ContainerInv
    BY DEF PlainInv
  <2>2. engine # "indexed" /\ engine # "dual"
    BY <2>1 DEF Plain
  <2>3. beam.failed = FALSE /\ (engine = "fixed" => FixedAgrees(beam))
    <3>1. engine = "radix" => beam.failed = FALSE
      <4>1. engine = "radix" =>
              beam = RadixOver(query, beam.active, beam.unvisited, beam.visited)
        BY <2>1 DEF ContainerInv, RadixInv
      <4> QED
        BY <4>1 DEF RadixOver, RadixBeam
    <3>2. engine = "fixed" => beam.failed = FALSE /\ FixedAgrees(beam)
      BY <2>1 DEF ContainerInv, FixedShape, FixedInv
    <3>3. Vector => beam.failed = FALSE
      BY <2>1 DEF ContainerInv, VectorInv
    <3> QED
      BY <2>1, <3>1, <3>2, <3>3, PlainCases
  <2>4. \A x \in Nodes : Hit(memo, x) /\ engine = "memo" => memo.value[x] = query.dist[x]
    BY <2>1 DEF MemoInv
  <2> QED
    BY <2>2, <2>3, <2>4 DEF ContainersAgree
<1> QED
  BY <1>1, PlainImplements, PTL

-----------------------------------------------------------------------------
(* The stability trace.                                                    *)

(* Fewer than w steps never lead back to a slot of w, and w steps do.      *)
LEMMA Turns ==
  ASSUME NEW w \in Nat \ {0}, NEW a \in Nat, NEW b \in Nat, a < b
  PROVE  /\ b < a + w => a % w # b % w
         /\ b = a + w => a % w = b % w
<1> DEFINE c == a \div w
           d == b \div w
           r == a % w
           t == b % w
<1>1. /\ c \in Int /\ d \in Int /\ r \in 0 .. w - 1 /\ t \in 0 .. w - 1
      /\ a = w * c + r /\ b = w * d + t
  <2>1. c = a \div w /\ d = b \div w /\ r = a % w /\ t = b % w
    OBVIOUS
  <2> HIDE DEF c, d, r, t
  <2> QED
    BY <2>1, Division
<1>2. /\ d - c >= 1 => w * d - w * c >= w
      /\ d - c <= 0 => w * d - w * c <= 0
  <2>1. c \in Int /\ d \in Int
    BY <1>1
  <2> HIDE DEF c, d
  <2> QED
    BY <2>1, Multiples
<1>3. w * (d - 1) = w * d - w /\ w * (d - 1 - c) = w * (d - 1) - w * c
  <2>1. c \in Int /\ d \in Int
    BY <1>1
  <2> HIDE DEF c, d
  <2>2. w * (d - 1) = w * d - w
    BY <2>1, SMT
  <2>3. d - 1 \in Int
    BY <2>1
  <2> QED
    BY <2>1, <2>2, <2>3, Multiples
<1>4. /\ d - 1 - c >= 1 => w * (d - 1) - w * c >= w
      /\ c - (d - 1) >= 1 => w * c - w * (d - 1) >= w
  <2>1. c \in Int /\ d - 1 \in Int
    BY <1>1
  <2> HIDE DEF c
  <2> QED
    BY <2>1, Multiples
<1> DEFINE x == w * c
           y == w * d
           z == w * (d - 1)
<1>5. x \in Int /\ y \in Int /\ z \in Int
  BY <1>1
<1> SUFFICES ASSUME TRUE PROVE (b < a + w => r # t) /\ (b = a + w => r = t)
  OBVIOUS
<1>6. /\ a = x + r /\ b = y + t /\ z = y - w
      /\ d - c >= 1 => y - x >= w
      /\ d - c <= 0 => y - x <= 0
      /\ d - 1 - c >= 1 => z - x >= w
      /\ c - (d - 1) >= 1 => x - z >= w
      /\ (d = c + 1 => z = x)
  BY <1>1, <1>2, <1>3, <1>4
<1> HIDE DEF c, d, r, t, x, y, z
<1>7. b < a + w => r # t
  BY <1>1, <1>5, <1>6
<1>8. b = a + w => r = t
  BY <1>1, <1>5, <1>6
<1> QED
  BY <1>7, <1>8

(* Visits within the window, of a history of tops s.                       *)
Recent(s) == {n \in 1 .. Len(s) - 1 : n > Len(s) - 1 - Window}

(* Those that changed the top.                                             *)
Turned(s) == {n \in Recent(s) : s[n + 1] # s[n]}

(* What they brought into it.                                              *)
Entered(s, D) == {p \in Recent(s) \X D : p[2] \in s[p[1] + 1] \ s[p[1]]}

(* All visits that changed the top.                                        *)
EverTurned(s) == {n \in 1 .. Len(s) - 1 : s[n + 1] # s[n]}

(* The slots of the rolling counters.                                      *)
TraceSlots == 0 .. Window - 1

(* The trace is what the history of tops gives, slot by slot: each visit   *)
(* within the window has its slot, and slots not yet used are zero.        *)
TraceOf(t, s, D) ==
  /\ s \in Seq(SUBSET D) /\ Len(s) > 0
  /\ t.top = s[Len(s)]
  /\ t.changed \in [TraceSlots -> Int] /\ t.entered \in [TraceSlots -> Int]
  /\ \A n \in Recent(s) :
       /\ t.changed[(n - 1) % Window] = IF s[n + 1] # s[n] THEN 1 ELSE 0
       /\ t.entered[(n - 1) % Window] = Cardinality(s[n + 1] \ s[n])
  /\ \A n \in TraceSlots : n >= Len(s) - 1 => t.changed[n] = 0 /\ t.entered[n] = 0
  /\ t.changes = Cardinality(Turned(s))
  /\ t.entries = Cardinality(Entered(s, D))
  /\ t.last = Max({0} \cup EverTurned(s))

(* As many pairs with one as members.                                      *)
LEMMA PairedWithOne ==
  ASSUME NEW n, NEW S, IsFiniteSet(S)
  PROVE  /\ IsFiniteSet({n} \X S)
         /\ Cardinality({n} \X S) = Cardinality(S)
<1>1. IsFiniteSet({n}) /\ Cardinality({n}) = 1
  BY FS_Singleton
<1>2. /\ IsFiniteSet({n} \X S)
      /\ Cardinality({n} \X S) = Cardinality({n}) * Cardinality(S)
  BY <1>1, FS_Product
<1>3. Cardinality(S) \in Nat
  BY FS_CardinalityType
<1> QED
  BY <1>1, <1>2, <1>3

(* History r is s and one top more.                                        *)
Prolongs(r, s, x) ==
  /\ Len(s) \in Nat \ {0} /\ Len(r) = Len(s) + 1
  /\ \A n \in 1 .. Len(s) : r[n] = s[n]
  /\ r[Len(s) + 1] = x

(* Appending does that.                                                    *)
LEMMA AppendProlongs ==
  ASSUME NEW T, NEW s \in Seq(T), Len(s) > 0, NEW x \in T
  PROVE  Append(s, x) \in Seq(T) /\ Prolongs(Append(s, x), s, x)
BY DEF Prolongs

(* The window moves by one visit.                                          *)
LEMMA WindowMoves ==
  ASSUME NEW s, NEW r, NEW x, Prolongs(r, s, x), NEW m, m = Len(s)
  PROVE  /\ Recent(r) = (Recent(s) \ {m - Window}) \cup {m}
         /\ m - Window \in Recent(s) <=> m - Window >= 1
         /\ \A n \in Recent(s) : n \in 1 .. m - 1 /\ r[n] = s[n] /\ r[n + 1] = s[n + 1]
         /\ r[m] = s[m] /\ r[m + 1] = x /\ m \in Nat \ {0}
<1> DEFINE W == Window
<1>1. W \in Nat \ {0}
  BY BatchedAssumption
<1>2. m \in Nat \ {0} /\ Len(r) = m + 1 /\ r[m + 1] = x /\ \A n \in 1 .. m : r[n] = s[n]
  BY DEF Prolongs
<1>3. /\ Recent(r) = {n \in 1 .. m : n > m - W}
      /\ Recent(s) = {n \in 1 .. m - 1 : n > m - 1 - W}
  <2>1. Len(r) - 1 = m
    BY <1>2
  <2> QED
    BY <2>1 DEF Recent
<1> HIDE DEF W
<1>4. Recent(r) = (Recent(s) \ {m - W}) \cup {m}
  BY <1>1, <1>2, <1>3
<1>5. m - W \in Recent(s) <=> m - W >= 1
  BY <1>1, <1>2, <1>3
<1>6. \A n \in Recent(s) : n \in 1 .. m - 1 /\ r[n] = s[n] /\ r[n + 1] = s[n + 1]
  BY <1>2, <1>3
<1>7. r[m] = s[m]
  BY <1>2
<1> QED
  BY <1>2, <1>4, <1>5, <1>6, <1>7 DEF W

(* The trace starts with the starts' top and an empty window.              *)
LEMMA TraceStarts ==
  ASSUME NEW q, NEW D, Nearest(q, ToSet(q.starts), q.k) \in SUBSET D
  PROVE  TraceOf(TraceReset(q), <<Nearest(q, ToSet(q.starts), q.k)>>, D)
<1> DEFINE x == Nearest(q, ToSet(q.starts), q.k)
           s == <<x>>
           z == [n \in 0 .. Window - 1 |-> 0]
           t == TraceReset(q)
<1>1. t = [top |-> x, last |-> 0, changed |-> z, changes |-> 0, entered |-> z,
         entries |-> 0]
  BY DEF TraceReset
<1>2. z \in [TraceSlots -> Int] /\ \A n \in TraceSlots : z[n] = 0
  BY DEF TraceSlots
<1>3. x \in SUBSET D
  OBVIOUS
<1> HIDE DEF x, z, t
<1>4. s \in Seq(SUBSET D) /\ Len(s) = 1 /\ s[1] = x
  BY <1>3
<1> HIDE DEF s
<1>5. Recent(s) = {} /\ EverTurned(s) = {}
  BY <1>4 DEF Recent, EverTurned
<1>6. Turned(s) = {} /\ Entered(s, D) = {}
  BY <1>5 DEF Turned, Entered
<1>7. Cardinality({}) = 0
  BY FS_EmptySet
<1>8. Max({0} \cup EverTurned(s)) = 0
  BY <1>5, GreatestIs
<1>9. TraceOf(t, s, D)
  BY <1>1, <1>2, <1>4, <1>5, <1>6, <1>7, <1>8 DEF TraceOf
<1> QED
  BY <1>9 DEF t, s, x

(* One visit leaves the window and one enters it,                          *)
LEMMA TurnsCount ==
  ASSUME NEW s, NEW r, NEW x, Prolongs(r, s, x), NEW m, m = Len(s)
  PROVE  /\ IsFiniteSet(Turned(s)) /\ Cardinality(Turned(s)) \in Int
         /\ Cardinality(Turned(r)) =
              Cardinality(Turned(s))
                - (IF m - Window \in Turned(s) THEN 1 ELSE 0)
                + (IF x = s[m] THEN 0 ELSE 1)
<1>1. /\ Recent(r) = (Recent(s) \ {m - Window}) \cup {m}
      /\ \A n \in Recent(s) : n \in 1 .. m - 1 /\ r[n] = s[n] /\ r[n + 1] = s[n + 1]
      /\ r[m] = s[m] /\ r[m + 1] = x /\ m \in Nat \ {0}
  BY WindowMoves
<1> DEFINE A == Turned(s)
           l == m - Window
           B == A \ {l}
<1>2. m \in Nat
  BY <1>1
<1>3. Turned(r) = B \cup (IF x = s[m] THEN {} ELSE {m})
  BY <1>1 DEF Turned
<1>4. IsFiniteSet(A) /\ m \notin A
  <2>1. A \subseteq 1 .. m - 1
    BY <1>1 DEF Turned
  <2> HIDE DEF A
  <2> DEFINE h == m - 1
  <2>2. h \in Int /\ 1 \in Int
    BY <1>2
  <2>3. A \subseteq 1 .. h /\ m \notin 1 .. h
    BY <1>2, <2>1
  <2> HIDE DEF h
  <2>4. IsFiniteSet(1 .. h)
    BY <2>2, FS_Interval
  <2> QED
    BY <2>3, <2>4, FS_Subset
<1> HIDE DEF A, l
<1>5. Cardinality(A) \in Nat
  BY <1>4, FS_CardinalityType
<1>6. /\ IsFiniteSet(B) /\ m \notin B
      /\ Cardinality(B) = Cardinality(A) - (IF l \in A THEN 1 ELSE 0)
  <2>1. CASE l \in A
    BY <1>4, <2>1, FS_RemoveElement
  <2>2. CASE l \notin A
    <3>1. B = A
      BY <2>2
    <3> HIDE DEF B
    <3> QED
      BY <1>4, <1>5, <2>2, <3>1
  <2> QED
    BY <2>1, <2>2
<1>7. Cardinality(B) \in Nat
  BY <1>6, FS_CardinalityType
<1> HIDE DEF B
<1>8. Cardinality(Turned(r)) = Cardinality(B) + (IF x = s[m] THEN 0 ELSE 1)
  <2>1. CASE x = s[m]
    <3>1. Turned(r) = B
      BY <1>3, <2>1
    <3> QED
      BY <1>7, <2>1, <3>1
  <2>2. CASE x # s[m]
    <3>1. Turned(r) = B \cup {m}
      BY <1>3, <2>2
    <3> QED
      BY <1>6, <2>2, <3>1, FS_AddElement
  <2> QED
    BY <2>1, <2>2
<1>9. /\ IsFiniteSet(A) /\ Cardinality(A) \in Int
      /\ Cardinality(Turned(r)) =
           Cardinality(A) - (IF l \in A THEN 1 ELSE 0)
             + (IF x = s[m] THEN 0 ELSE 1)
  BY <1>4, <1>5, <1>6, <1>8
<1> QED
  BY <1>9 DEF A, l

(* A history of sets of vertices.                                          *)
IsLog(s, D) == s \in Seq(SUBSET D)

(* What the visit that leaves the window had brought in.                   *)
Leaving(s) ==
  LET l == Len(s) - Window
  IN IF l \in Recent(s) THEN Cardinality(s[l + 1] \ s[l]) ELSE 0

(* and with them what they brought in.                                     *)
LEMMA EntriesCount ==
  ASSUME NEW D, IsFiniteSet(D), NEW s, IsLog(s, D), NEW r, IsLog(r, D), NEW x,
         Prolongs(r, s, x), NEW m, m = Len(s)
  PROVE  /\ Cardinality(Entered(s, D)) \in Int
         /\ Cardinality(Entered(r, D)) =
              Cardinality(Entered(s, D)) - Leaving(s) + Cardinality(x \ s[m])
<1> DEFINE l == m - Window
<1>0. l = m - Window
  OBVIOUS
<1> HIDE DEF l
<1>1. /\ Recent(r) = (Recent(s) \ {l}) \cup {m}
      /\ \A n \in Recent(s) : n \in 1 .. m - 1 /\ r[n] = s[n] /\ r[n + 1] = s[n + 1]
      /\ r[m] = s[m] /\ r[m + 1] = x /\ m \in Nat \ {0}
  BY <1>0, WindowMoves
<1> DEFINE A == Entered(s, D)
           G == {l} \X (s[l + 1] \ s[l])
           H == {m} \X (x \ s[m])
           B == IF l \in Recent(s) THEN A \ G ELSE A
<1>2. m \in Nat /\ m \notin Recent(s)
  BY <1>1
<1>3. s[m] \in SUBSET D /\ x \in SUBSET D
      /\ \A n \in Recent(s) : s[n] \in SUBSET D /\ s[n + 1] \in SUBSET D
  <2>1. /\ m \in 1 .. Len(s) /\ m + 1 \in 1 .. Len(r) /\ r[m + 1] = x
        /\ \A n \in Recent(s) : n \in 1 .. Len(s) /\ n + 1 \in 1 .. Len(s)
    BY <1>1 DEF Prolongs
  <2> QED
    BY <2>1 DEF IsLog
<1>4. IsFiniteSet(Recent(s))
  <2>1. Recent(s) \subseteq 1 .. m - 1
    BY <1>1
  <2> DEFINE h == m - 1
  <2>2. h \in Int /\ 1 \in Int
    BY <1>2
  <2>3. Recent(s) \subseteq 1 .. h
    BY <1>2, <2>1
  <2> HIDE DEF h
  <2>4. IsFiniteSet(1 .. h)
    BY <2>2, FS_Interval
  <2> QED
    BY <2>3, <2>4, FS_Subset
<1>5. IsFiniteSet(A)
  <2>1. IsFiniteSet(Recent(s) \X D) /\ A \subseteq Recent(s) \X D
    BY <1>4, FS_Product DEF Entered
  <2> QED
    BY <2>1, FS_Subset
<1>6. Entered(r, D) = B \cup H
  <2>1. ASSUME NEW p PROVE p \in Entered(r, D) <=> p \in B \cup H
    <3>1. CASE p \notin Int \X D
      BY <1>1, <1>2, <1>3, <3>1 DEF Entered, Recent
    <3>2. CASE p \in Int \X D
      <4>1. p = <<p[1], p[2]>>
        BY <3>2
      <4>2. p \in Entered(r, D) <=> p[1] \in Recent(r) /\ p[2] \in D
                                   /\ p[2] \in r[p[1] + 1] \ r[p[1]]
        BY <4>1 DEF Entered
      <4>3. p \in A <=> p[1] \in Recent(s) /\ p[2] \in D /\ p[2] \in s[p[1] + 1] \ s[p[1]]
        BY <4>1 DEF Entered
      <4>4. p \in H <=> p[1] = m /\ p[2] \in x \ s[m]
        BY <4>1
      <4>5. p \in G <=> p[1] = l /\ p[2] \in s[l + 1] \ s[l]
        BY <4>1
      <4> HIDE DEF A, G, H
      <4>6. CASE p[1] = m
        BY <1>1, <1>2, <1>3, <4>2, <4>3, <4>4, <4>6
      <4>7. CASE p[1] # m /\ p[1] \in Recent(s) /\ p[1] # l
        BY <1>1, <4>2, <4>3, <4>4, <4>5, <4>7
      <4>8. CASE p[1] # m /\ p[1] \in Recent(s) /\ p[1] = l
        BY <1>1, <4>2, <4>3, <4>4, <4>5, <4>8
      <4>9. CASE p[1] # m /\ p[1] \notin Recent(s)
        BY <1>1, <4>2, <4>3, <4>4, <4>9
      <4> QED
        BY <4>6, <4>7, <4>8, <4>9
    <3> QED
      BY <3>1, <3>2
  <2> QED
    BY <2>1
<1>7. Cardinality(A) \in Nat
  BY <1>5, FS_CardinalityType
<1>8. /\ IsFiniteSet(B)
      /\ Cardinality(B) = Cardinality(A)
           - (IF l \in Recent(s) THEN Cardinality(s[l + 1] \ s[l]) ELSE 0)
  <2>1. CASE l \in Recent(s)
    <3>1. G \subseteq A
      BY <1>3, <2>1 DEF Entered
    <3>2. IsFiniteSet(s[l + 1] \ s[l])
      BY <1>3, <2>1, FS_Subset
    <3>3. IsFiniteSet(G) /\ Cardinality(G) = Cardinality(s[l + 1] \ s[l])
      <4> DEFINE V == s[l + 1] \ s[l]
      <4>1. IsFiniteSet(V)
        BY <3>2
      <4> HIDE DEF V
      <4>2. IsFiniteSet({l} \X V) /\ Cardinality({l} \X V) = Cardinality(V)
        BY <4>1, PairedWithOne
      <4> QED
        BY <4>2 DEF V
    <3>4. A \cap G = G /\ B = A \ G
      BY <2>1, <3>1
    <3> HIDE DEF A, G, B
    <3>5. IsFiniteSet(A \ G) /\ Cardinality(A \ G) = Cardinality(A) - Cardinality(A \cap G)
      BY <1>5, FS_Difference
    <3> QED
      BY <2>1, <3>3, <3>4, <3>5
  <2>2. CASE l \notin Recent(s)
    <3>1. B = A
      BY <2>2
    <3> QED
      BY <1>5, <1>7, <2>2, <3>1
  <2> QED
    BY <2>1, <2>2
<1>9. IsFiniteSet(H) /\ Cardinality(H) = Cardinality(x \ s[m])
  <2> DEFINE V == x \ s[m]
  <2>1. IsFiniteSet(V)
    BY <1>3, FS_Subset
  <2> HIDE DEF V
  <2>2. IsFiniteSet({m} \X V) /\ Cardinality({m} \X V) = Cardinality(V)
    BY <2>1, PairedWithOne
  <2> QED
    BY <2>2 DEF V
<1>10. B \cap H = {}
  <2>1. \A p \in A : p[1] \in Recent(s)
    BY DEF Entered
  <2>2. \A p \in H : p[1] = m
    OBVIOUS
  <2> QED
    BY <1>2, <2>1, <2>2
<1> HIDE DEF A, B, H
<1>11. Cardinality(B \cup H) = Cardinality(B) + Cardinality(H)
  <2>1. Cardinality(B \cup H) = Cardinality(B) + Cardinality(H) - Cardinality(B \cap H)
    BY <1>8, <1>9, FS_Union
  <2>2. Cardinality(B \cap H) = 0
    BY <1>10, FS_EmptySet
  <2>3. Cardinality(B) \in Nat /\ Cardinality(H) \in Nat
    BY <1>8, <1>9, FS_CardinalityType
  <2> QED
    BY <2>1, <2>2, <2>3
<1>12. /\ Cardinality(A) \in Int
       /\ Cardinality(Entered(r, D)) =
            Cardinality(A)
              - (IF l \in Recent(s) THEN Cardinality(s[l + 1] \ s[l]) ELSE 0)
              + Cardinality(x \ s[m])
  BY <1>6, <1>7, <1>8, <1>9, <1>11
<1> QED
  BY <1>12 DEF A, l, Leaving

(* The new visit's slot is that of the visit that leaves, or was not used  *)
(* before, and no visit that stays has it.                                 *)
LEMMA RecentSlots ==
  ASSUME NEW s, Len(s) \in Nat \ {0}, NEW m, m = Len(s)
  PROVE  /\ (m - 1) % Window \in TraceSlots
         /\ m - Window >= 1 => (m - Window - 1) % Window = (m - 1) % Window
         /\ m - Window < 1 => (m - 1) % Window = m - 1
         /\ \A n \in Recent(s) : /\ (n - 1) % Window \in TraceSlots
                                 /\ n # m - Window => (n - 1) % Window # (m - 1) % Window
         /\ \A n \in TraceSlots : n >= m => n # (m - 1) % Window
<1> DEFINE W == Window
           b == m - 1
<1>1. W \in Nat \ {0} /\ b \in Nat /\ m \in Nat
  BY BatchedAssumption
<1>2. b % W \in 0 .. W - 1
  BY <1>1
<1>3. m - W >= 1 => (m - W - 1) % W = b % W
  <2> DEFINE a == m - W - 1
  <2>1. m - W >= 1 => a \in Nat /\ a < b /\ b = a + W
    BY <1>1
  <2> HIDE DEF a, b, W
  <2>2. m - W >= 1 => a % W = b % W
    BY <1>1, <2>1, Turns
  <2> QED
    BY <2>2 DEF a
<1>4. m - W < 1 => b % W = b
  <2>1. m - W < 1 => b < W
    BY <1>1
  <2> HIDE DEF b, W
  <2> QED
    BY <1>1, <2>1, SMT
<1>5. ASSUME NEW n \in Recent(s)
      PROVE  /\ (n - 1) % W \in 0 .. W - 1
             /\ n # m - W => (n - 1) % W # b % W
  <2> DEFINE a == n - 1
  <2>1. a \in Nat /\ a < b /\ (n # m - W => b < a + W)
    BY <1>1, <1>5 DEF Recent
  <2> HIDE DEF a, b, W
  <2>2. a % W \in 0 .. W - 1
    BY <1>1, <2>1
  <2>3. n # m - W => a % W # b % W
    BY <1>1, <2>1, Turns
  <2> QED
    BY <2>2, <2>3 DEF a
<1>6. ASSUME NEW n \in 0 .. W - 1, n >= m PROVE n # b % W
  <2>1. b < W /\ b # n
    BY <1>1, <1>6
  <2>2. b % W = b
    <3> HIDE DEF b, W
    <3> QED
      BY <1>1, <2>1, SMT
  <2> QED
    BY <2>1, <2>2
<1> QED
  BY <1>2, <1>3, <1>4, <1>5, <1>6 DEF TraceSlots

(* The last change is the new visit if it changed the top.                 *)
LEMMA LastTurnIs ==
  ASSUME NEW s, NEW r, NEW x, Prolongs(r, s, x), NEW m, m = Len(s)
  PROVE  Max({0} \cup EverTurned(r)) = IF x = s[m] THEN Max({0} \cup EverTurned(s)) ELSE m
<1>1. m \in Nat \ {0} /\ Len(r) = m + 1 /\ r[m + 1] = x /\ \A n \in 1 .. m : r[n] = s[n]
  BY DEF Prolongs
<1>2. EverTurned(r) = EverTurned(s) \cup (IF x = s[m] THEN {} ELSE {m})
  BY <1>1 DEF EverTurned
<1>3. CASE x = s[m]
  <2>1. EverTurned(r) = EverTurned(s)
    BY <1>2, <1>3
  <2> QED
    BY <1>3, <2>1
<1>4. CASE x # s[m]
  <2>1. EverTurned(r) = EverTurned(s) \cup {m}
    BY <1>2, <1>4
  <2>2. {0} \cup EverTurned(r) \in SUBSET Int /\ m \in {0} \cup EverTurned(r)
        /\ \A n \in {0} \cup EverTurned(r) : n <= m
    BY <1>1, <2>1 DEF EverTurned
  <2>3. Max({0} \cup EverTurned(r)) = m
    BY <2>2, GreatestIs
  <2> QED
    BY <1>4, <2>3
<1> QED
  BY <1>3, <1>4

(* Observing a top keeps the trace that of the history: the count that     *)
(* leaves is taken off before its slot is overwritten.                     *)
LEMMA TraceObserves ==
  ASSUME NEW D, IsFiniteSet(D), NEW t, NEW s, TraceOf(t, s, D), NEW x \in SUBSET D
  PROVE  TraceOf(Observe(t, x, Len(s)), Append(s, x), D)
<1> DEFINE m == Len(s)
           r == Append(s, x)
           slot == (m - 1) % Window
           change == IF x = t.top THEN 0 ELSE 1
           entry == Cardinality(x \ t.top)
           u == Observe(t, x, m)
           l == m - Window
<1>1. u = [top |-> x, last |-> IF change = 1 THEN m ELSE t.last,
           changed |-> [t.changed EXCEPT ![slot] = change],
           changes |-> t.changes - t.changed[slot] + change,
           entered |-> [t.entered EXCEPT ![slot] = entry],
           entries |-> t.entries - t.entered[slot] + entry]
  BY DEF Observe
<1>2. /\ s \in Seq(SUBSET D) /\ m \in Nat \ {0} /\ t.top = s[m]
      /\ t.changed \in [TraceSlots -> Int] /\ t.entered \in [TraceSlots -> Int]
      /\ \A n \in Recent(s) :
           /\ t.changed[(n - 1) % Window] = IF s[n + 1] # s[n] THEN 1 ELSE 0
           /\ t.entered[(n - 1) % Window] = Cardinality(s[n + 1] \ s[n])
      /\ \A n \in TraceSlots : n >= m - 1 => t.changed[n] = 0 /\ t.entered[n] = 0
      /\ t.changes = Cardinality(Turned(s))
      /\ t.entries = Cardinality(Entered(s, D))
      /\ t.last = Max({0} \cup EverTurned(s))
  BY DEF TraceOf
<1>3. r \in Seq(SUBSET D) /\ Prolongs(r, s, x)
  BY <1>2, AppendProlongs
<1>4. Len(r) = m + 1 /\ r[m + 1] = x /\ l \in Int
  BY <1>2, <1>3, BatchedAssumption DEF Prolongs
<1>5. /\ slot \in TraceSlots
      /\ l >= 1 => (l - 1) % Window = slot
      /\ l < 1 => slot = m - 1
      /\ \A n \in Recent(s) : (n - 1) % Window \in TraceSlots
           /\ (n # l => (n - 1) % Window # slot)
      /\ \A n \in TraceSlots : n >= m => n # slot
  <2> HIDE DEF r, u
  <2> QED
    BY <1>2, RecentSlots
<1>0. m = Len(s) /\ l = m - Window
  OBVIOUS
<1> HIDE DEF u, r, m, l, slot, change, entry
<1>6. /\ Recent(r) = (Recent(s) \ {l}) \cup {m}
      /\ l \in Recent(s) <=> l >= 1
      /\ \A n \in Recent(s) : n \in 1 .. m - 1 /\ r[n] = s[n] /\ r[n + 1] = s[n + 1]
      /\ r[m] = s[m] /\ r[m + 1] = x
  BY <1>0, <1>3, WindowMoves
<1>7. /\ Cardinality(Turned(s)) \in Int
      /\ Cardinality(Turned(r)) =
           Cardinality(Turned(s)) - (IF l \in Turned(s) THEN 1 ELSE 0)
             + (IF x = s[m] THEN 0 ELSE 1)
  BY <1>0, <1>3, TurnsCount
<1>8. /\ Cardinality(Entered(s, D)) \in Int
      /\ Cardinality(Entered(r, D)) =
           Cardinality(Entered(s, D))
             - (IF l \in Recent(s) THEN Cardinality(s[l + 1] \ s[l]) ELSE 0)
             + Cardinality(x \ s[m])
  <2>1. IsLog(s, D) /\ IsLog(r, D) /\ Prolongs(r, s, x)
    BY <1>2, <1>3 DEF IsLog
  <2>2. /\ Cardinality(Entered(s, D)) \in Int
        /\ Cardinality(Entered(r, D)) =
             Cardinality(Entered(s, D))
               - Leaving(s) + Cardinality(x \ s[m])
    BY <1>0, <2>1, EntriesCount
  <2> QED
    BY <1>0, <2>2 DEF Leaving
<1>9. Max({0} \cup EverTurned(r)) = IF x = s[m] THEN t.last ELSE m
  <2>1. Max({0} \cup EverTurned(r)) =
          IF x = s[m] THEN Max({0} \cup EverTurned(s)) ELSE m
    BY <1>0, <1>3, LastTurnIs
  <2> QED
    BY <1>2, <2>1
<1>10. /\ t.changed[slot] = IF l \in Turned(s) THEN 1 ELSE 0
       /\ t.entered[slot] = IF l \in Recent(s) THEN Cardinality(s[l + 1] \ s[l]) ELSE 0
  <2>1. CASE l >= 1
    <3>1. l \in Recent(s) /\ (l - 1) % Window = slot
      BY <1>5, <1>6, <2>1
    <3>2. l \in Turned(s) <=> s[l + 1] # s[l]
      BY <3>1 DEF Turned
    <3> QED
      BY <1>2, <3>1, <3>2
  <2>2. CASE l < 1
    <3>1. l \notin Recent(s) /\ slot = m - 1 /\ slot >= m - 1
      BY <1>2, <1>5, <1>6, <2>2
    <3>2. l \notin Turned(s)
      BY <3>1 DEF Turned
    <3> QED
      BY <1>2, <1>5, <3>1, <3>2
  <2> QED
    BY <1>4, <2>1, <2>2
<1>11. change \in Int /\ entry \in Int /\ change = (IF x = s[m] THEN 0 ELSE 1)
       /\ entry = Cardinality(x \ s[m])
  <2>1. IsFiniteSet(x \ t.top)
    BY FS_Subset
  <2>2. Cardinality(x \ t.top) \in Nat
    BY <2>1, FS_CardinalityType
  <2> QED
    BY <1>2, <2>2 DEF change, entry
<1>12. /\ u.top = x /\ u.last = (IF change = 1 THEN m ELSE t.last)
       /\ u.changed = [t.changed EXCEPT ![slot] = change]
       /\ u.changes = t.changes - t.changed[slot] + change
       /\ u.entered = [t.entered EXCEPT ![slot] = entry]
       /\ u.entries = t.entries - t.entered[slot] + entry
  BY <1>1
<1>13. u.changes = Cardinality(Turned(r)) /\ u.entries = Cardinality(Entered(r, D))
  <2>1. u.changes = Cardinality(Turned(r))
    BY <1>2, <1>7, <1>10, <1>11, <1>12
  <2>2. u.entries = Cardinality(Entered(r, D))
    BY <1>2, <1>8, <1>10, <1>11, <1>12
  <2> QED
    BY <2>1, <2>2
<1>14. u.last = Max({0} \cup EverTurned(r))
  BY <1>9, <1>11, <1>12
<1>15. u.changed \in [TraceSlots -> Int] /\ u.entered \in [TraceSlots -> Int]
  <2> DEFINE a == t.changed
             b == t.entered
  <2>1. a \in [TraceSlots -> Int] /\ b \in [TraceSlots -> Int] /\ change \in Int
          /\ entry \in Int
    BY <1>2, <1>11
  <2> HIDE DEF a, b
  <2>2. [a EXCEPT ![slot] = change] \in [TraceSlots -> Int]
    BY <2>1
  <2>3. [b EXCEPT ![slot] = entry] \in [TraceSlots -> Int]
    BY <2>1
  <2> QED
    BY <1>12, <2>2, <2>3 DEF a, b
<1>16. /\ u.changed[slot] = change /\ u.entered[slot] = entry
       /\ \A n \in TraceSlots : n # slot => u.changed[n] = t.changed[n]
            /\ u.entered[n] = t.entered[n]
  BY <1>2, <1>5, <1>12
<1>17. ASSUME NEW n \in Recent(r)
       PROVE  /\ u.changed[(n - 1) % Window] = IF r[n + 1] # r[n] THEN 1 ELSE 0
              /\ u.entered[(n - 1) % Window] = Cardinality(r[n + 1] \ r[n])
  <2>1. CASE n = m
    <3>1. (n - 1) % Window = slot
      BY <2>1 DEF slot
    <3> QED
      BY <1>6, <1>11, <1>16, <2>1, <3>1
  <2>2. CASE n # m
    <3>1. n \in Recent(s) /\ n # l
      BY <1>6, <1>17, <2>2
    <3> DEFINE k == (n - 1) % Window
    <3>2. k \in TraceSlots /\ k # slot
      BY <1>5, <3>1
    <3>3. t.changed[k] = (IF s[n + 1] # s[n] THEN 1 ELSE 0)
            /\ t.entered[k] = Cardinality(s[n + 1] \ s[n])
      BY <1>2, <3>1
    <3> HIDE DEF k
    <3>4. u.changed[k] = (IF r[n + 1] # r[n] THEN 1 ELSE 0)
            /\ u.entered[k] = Cardinality(r[n + 1] \ r[n])
      BY <1>6, <1>16, <3>1, <3>2, <3>3
    <3> QED
      BY <3>4 DEF k
  <2> QED
    BY <2>1, <2>2
<1>18. \A n \in TraceSlots : n >= Len(r) - 1 => u.changed[n] = 0 /\ u.entered[n] = 0
  <2>1. Len(r) - 1 = m
    BY <1>2, <1>4
  <2>2. \A n \in TraceSlots : n >= m => n >= m - 1
    BY <1>2, BatchedAssumption DEF TraceSlots
  <2> QED
    BY <1>2, <1>5, <1>16, <2>1, <2>2
<1>19. u.top = r[Len(r)] /\ Len(r) > 0
  BY <1>2, <1>4, <1>12
<1> QED
  BY <1>3, <1>13, <1>14, <1>15, <1>17, <1>18, <1>19 DEF TraceOf, u, r, m

(* The visits so far, and those a continuation may still add.              *)
WithinBound ==
  /\ bound \in Nat /\ visits <= bound /\ bound <= query.limit
  /\ widened => bound <= Len(tops) - 1 + AddedVisits

(* The inductive invariant of the traced search.                           *)
TraceInv ==
  engine = "spill" =>
    /\ PlainInv
    /\ Started => /\ TraceOf(trace, tops, Nodes)
                  /\ ~widened => Len(tops) = visits + 1
                  /\ WithinBound

(* The search in use stays.                                                *)
LEMMA EngineStays ==
  ASSUME [Next]_vars
  PROVE  engine' = engine
<1>1. ASSUME NEW q \in UNION ToSet(Queries), Begin(q) PROVE engine' = engine
  BY <1>1 DEF Begin
<1> QED
  BY <1>1 DEF Next, Expand, Continue, Answer, vars

(* A search begins with a new trace.                                       *)
LEMMA BeginTraces ==
  ASSUME PlainInv', NEW q, Begin(q)
  PROVE  TraceOf(trace', tops', Nodes') /\ (~widened' => Len(tops') = visits' + 1)
<1> DEFINE x == Nearest(q, ToSet(q.starts), q.k)
<1>1. /\ phase' = "searching" /\ query' = q /\ visits' = 0 /\ trace' = TraceReset(q)
      /\ tops' = <<x>> /\ observed' = ToSet(q.starts)
  BY DEF Begin
<1>2. observed' \subseteq Nodes'
  BY <1>1 DEF PlainInv, SearchInv, Started
<1>3. x \subseteq ToSet(q.starts)
  BY DEF Nearest
<1>4. x \in SUBSET Nodes'
  BY <1>1, <1>2, <1>3
<1>5. TraceOf(TraceReset(q), <<x>>, Nodes')
  BY <1>4, TraceStarts
<1>6. Len(<<x>>) = 1
  OBVIOUS
<1> QED
  BY <1>1, <1>5, <1>6

(* An expansion is observed until the search is continued.                 *)
LEMMA ExpandTraces ==
  ASSUME PlainInv, PlainInv', TraceInv, Expand, engine = "spill"
  PROVE  TraceOf(trace', tops', Nodes') /\ (~widened' => Len(tops') = visits' + 1)
<1>1. /\ phase = "searching" /\ phase' = phase /\ query' = query /\ widened' = widened
      /\ engine' = engine /\ visits' = visits + 1
  BY DEF Expand
<1>2. Started /\ Started' /\ Nodes' = Nodes
  BY <1>1 DEF Started, Nodes
<1>3. TraceOf(trace, tops, Nodes) /\ (~widened => Len(tops) = visits + 1)
  BY <1>2 DEF TraceInv
<1>4. visits \in Nat /\ IsFiniteSet(Nodes)
  <2>1. IsFiniteSet(Nodes) /\ beam.visited \subseteq Nodes
    BY <1>2, PlainFacts, NodesAre
  <2>2. IsFiniteSet(beam.visited)
    BY <2>1, FS_Subset
  <2>3. visits = Cardinality(beam.visited)
    BY <1>2 DEF PlainInv, SearchInv
  <2> QED
    BY <2>1, <2>2, <2>3, FS_CardinalityType
<1>5. CASE widened
  <2>1. trace' = trace /\ tops' = tops
    BY <1>5 DEF Expand
  <2> QED
    BY <1>1, <1>2, <1>3, <1>5, <2>1
<1>6. CASE ~widened
  <2>1. PICK x \in SUBSET beam'.frontier :
          trace' = Observe(trace, x, visits + 1) /\ tops' = Append(tops, x)
    <3> DEFINE dist == IF engine = "memo"
                   THEN Recalled(memo, query, scored,
                     ToSet(FilterUnseen(filter, query, NextVertex).keep))
                       ELSE scored
               q == [query EXCEPT !.dist = dist]
               x == Nearest(q, beam'.frontier, q.k)
    <3>1. trace' = Observe(trace, x, visits + 1) /\ tops' = Append(tops, x)
      BY <1>6 DEF Expand
    <3>2. x \subseteq beam'.frontier
      BY DEF Nearest
    <3> HIDE DEF x
    <3> QED
      BY <3>1, <3>2
  <2>2. beam'.frontier \subseteq Nodes
    <3>1. Active' = beam'.frontier
      BY <1>1 DEF Active, Vector
    <3>2. Active' \subseteq Nodes'
      BY <1>2 DEF PlainInv, SearchInv
    <3> QED
      BY <1>2, <3>1, <3>2
  <2>3. Len(tops) = visits + 1 /\ x \in SUBSET Nodes
    BY <1>3, <1>6, <2>2
  <2>4. TraceOf(Observe(trace, x, Len(tops)), Append(tops, x), Nodes)
    BY <1>3, <1>4, <2>3, TraceObserves
  <2>5. Len(Append(tops, x)) = Len(tops) + 1
    <3>1. tops \in Seq(SUBSET Nodes)
      BY <1>3 DEF TraceOf
    <3> QED
      BY <2>3, <3>1
  <2> QED
    BY <1>1, <1>2, <1>4, <2>1, <2>3, <2>4, <2>5
<1>7. widened \in BOOLEAN
  BY DEF PlainInv
<1> QED
  BY <1>5, <1>6, <1>7

(* No step of a search exceeds the visits it is allowed.                   *)
LEMMA BoundStep ==
  ASSUME PlainInv, PlainInv', engine = "spill", [Next]_vars, Started',
         Started => WithinBound /\ (~widened => Len(tops) = visits + 1)
  PROVE  WithinBound'
<1>1. ASSUME PlainInv, Started
      PROVE  visits \in Nat /\ query.limit \in Nat /\ IsFiniteSet(Nodes)
  <2>1. IsFiniteSet(Nodes) /\ beam.visited \subseteq Nodes
    BY <1>1, PlainFacts, NodesAre
  <2>2. IsFiniteSet(beam.visited)
    BY <2>1, FS_Subset
  <2>3. visits = Cardinality(beam.visited)
    BY <1>1 DEF PlainInv, SearchInv
  <2>4. visits \in Nat
    BY <2>2, <2>3, FS_CardinalityType
  <2>5. query.limit \in Nat
    BY <1>1, QueryFacts DEF IsQuery
  <2> QED
    BY <2>1, <2>4, <2>5
<1>2. ASSUME NEW q \in UNION ToSet(Queries), Begin(q) PROVE WithinBound'
  <2>1. query' = q /\ visits' = 0 /\ widened' = FALSE /\ bound' = q.limit
    BY <1>2 DEF Begin
  <2>2. PICK n \in 1 .. Len(Queries) : query' \in Queries[n]
    BY DEF PlainInv
  <2>3. q.limit \in Nat
    BY <2>1, <2>2, QueryIs DEF IsQuery
  <2> QED
    BY <2>1, <2>3 DEF WithinBound
<1>3. CASE Expand
  <2>1. /\ phase = "searching" /\ visits < bound /\ visits' = visits + 1
        /\ query' = query /\ bound' = bound /\ widened' = widened
    BY <1>3 DEF Expand
  <2>2. Started
    BY <2>1 DEF Started
  <2>3. widened => tops' = tops
    BY <1>3 DEF Expand
  <2> QED
    BY <1>1, <2>1, <2>2, <2>3 DEF WithinBound
<1>4. CASE Continue
  <2>1. /\ phase = "searching" /\ ~widened /\ visits' = visits /\ query' = query
        /\ tops' = tops /\ bound' = Min({query.limit, visits + AddedVisits})
    BY <1>4 DEF Continue, MustContinue
  <2>2. Started
    BY <2>1 DEF Started
  <2>3. AddedVisits \in Nat /\ visits + AddedVisits \in Nat
    BY <1>1, <2>2, BatchedAssumption
  <2>4. bound' = IF query.limit < visits + AddedVisits THEN query.limit
                 ELSE visits + AddedVisits
    BY <1>1, <2>1, <2>2, <2>3, LesserOfTwo
  <2>5. visits <= bound /\ bound <= query.limit /\ bound \in Nat /\ Len(tops) = visits + 1
    BY <2>1, <2>2 DEF WithinBound
  <2>6. visits \in Nat /\ query.limit \in Nat
    BY <1>1, <2>2
  <2> DEFINE m == visits
             h == query.limit
             b == bound'
             g == AddedVisits
  <2>7. m \in Nat /\ h \in Nat /\ g \in Nat /\ m <= h
    BY <2>3, <2>5, <2>6
  <2>8. b = IF h < m + g THEN h ELSE m + g
    BY <2>4
  <2> HIDE DEF m, h, b, g
  <2>9. b \in Nat /\ m <= b /\ b <= h /\ b <= m + g
    BY <2>7, <2>8
  <2>10. Len(tops') - 1 + AddedVisits = m + g
    BY <2>1, <2>3, <2>5, <2>6 DEF m, g
  <2>11. b = bound' /\ m = visits' /\ h = query.limit'
    BY <2>1 DEF b, m, h
  <2> QED
    BY <2>9, <2>10, <2>11 DEF WithinBound
<1>5. CASE Answer
  <2>1. /\ phase = "searching" /\ query' = query /\ visits' = visits /\ bound' = bound
        /\ tops' = tops /\ widened' = widened
    BY <1>5 DEF Answer
  <2> QED
    BY <2>1 DEF Started, WithinBound
<1>6. CASE UNCHANGED vars
  BY <1>6 DEF vars, Started, WithinBound
<1> QED
  BY <1>2, <1>3, <1>4, <1>5, <1>6 DEF Next

(* Every step preserves the invariant.                                     *)
LEMMA TraceStep ==
  ASSUME TraceInv, [Next]_vars
  PROVE  TraceInv'
<1>0. ASSUME engine' = "spill", Started' PROVE WithinBound'
  <2>1. engine = "spill"
    BY <1>0, EngineStays
  <2>2. PlainInv /\ (Started => WithinBound /\ (~widened => Len(tops) = visits + 1))
    BY <2>1 DEF TraceInv
  <2>3. PlainInv'
    BY <2>1, <2>2, PlainStep
  <2> QED
    BY <1>0, <2>1, <2>2, <2>3, BoundStep
<1> SUFFICES ASSUME engine' = "spill"
             PROVE  /\ PlainInv'
                    /\ Started' => /\ TraceOf(trace', tops', Nodes')
                                   /\ ~widened' => Len(tops') = visits' + 1
  BY <1>0 DEF TraceInv
<1>1. engine = "spill"
  BY EngineStays
<1>2. PlainInv /\ PlainInv'
  BY <1>1, PlainStep DEF TraceInv
<1>3. ASSUME NEW q \in UNION ToSet(Queries), Begin(q)
      PROVE  TraceOf(trace', tops', Nodes') /\ (~widened' => Len(tops') = visits' + 1)
  BY <1>2, <1>3, BeginTraces
<1>4. CASE Expand
  BY <1>1, <1>2, <1>4, ExpandTraces
<1>5. CASE Continue
  <2>1. /\ phase = "searching" /\ phase' = phase /\ query' = query /\ trace' = trace
        /\ tops' = tops /\ widened' = TRUE
    BY <1>5 DEF Continue
  <2>2. Started /\ Nodes' = Nodes
    BY <2>1 DEF Started, Nodes
  <2>3. TraceOf(trace, tops, Nodes)
    BY <1>1, <2>2 DEF TraceInv
  <2> QED
    BY <1>2, <2>1, <2>2, <2>3
<1>6. CASE Answer
  <2>1. /\ phase = "searching" /\ query' = query /\ trace' = trace /\ visits' = visits
        /\ tops' = tops /\ widened' = widened
    BY <1>6 DEF Answer
  <2>2. Started /\ Nodes' = Nodes
    BY <2>1 DEF Started, Nodes
  <2>3. TraceOf(trace, tops, Nodes) /\ (~widened => Len(tops) = visits + 1)
    BY <1>1, <2>2 DEF TraceInv
  <2> QED
    BY <1>2, <2>1, <2>2, <2>3
<1>7. CASE UNCHANGED vars
  <2>1. /\ phase' = phase /\ query' = query /\ trace' = trace /\ visits' = visits
        /\ tops' = tops /\ widened' = widened
    BY <1>7 DEF vars
  <2>2. (Started' <=> Started) /\ Nodes' = Nodes
    BY <2>1 DEF Started, Nodes
  <2>3. Started => TraceOf(trace, tops, Nodes) /\ (~widened => Len(tops) = visits + 1)
    BY <1>1 DEF TraceInv
  <2> QED
    BY <1>2, <2>1, <2>2, <2>3
<1> QED
  BY <1>2, <1>3, <1>4, <1>5, <1>6, <1>7 DEF Next

(* The rolling counters of the stability trace are what the full history   *)
(* of the top k gives (observe_topk and its window in                      *)
(* categorical_bench.cpp), and a continuation stays within the visits and  *)
(* the width it adds, for every window, graph and query.                   *)
THEOREM TraceExact ==
  Spec => []TraceIsExact
<1>1. Init => TraceInv
  <2> SUFFICES ASSUME Init, engine = "spill" PROVE PlainInv /\ ~Started
    BY DEF TraceInv
  <2>1. engine \in Plain
    BY DEF Plain
  <2>2. ~Started
    BY DEF Init, Started
  <2> QED
    BY <2>1, <2>2, InitPlain
<1>2. TraceInv /\ [Next]_vars => TraceInv'
  BY TraceStep
<1>3. TraceInv => TraceIsExact
  <2> SUFFICES ASSUME TraceInv, Started, engine = "spill" PROVE TraceIsExact
    BY DEF TraceIsExact
  <2>1. TraceOf(trace, tops, Nodes)
    BY DEF TraceInv
  <2>2. /\ trace.changes = Cardinality({n \in Recent(tops) : tops[n + 1] # tops[n]})
        /\ trace.entries =
             Cardinality({p \in Recent(tops) \X Nodes : p[2] \in tops[p[1] + 1] \ tops[p[1]]})
        /\ trace.last = Max({0} \cup {n \in 1 .. Len(tops) - 1 : tops[n + 1] # tops[n]})
    BY <2>1 DEF TraceOf, Turned, Entered, EverTurned
  <2>3. visits <= query.limit /\ (widened => visits <= Len(tops) - 1 + AddedVisits)
    <3>1. WithinBound /\ PlainInv /\ tops \in Seq(SUBSET Nodes)
      BY DEF TraceInv, TraceOf
    <3>2. IsFiniteSet(Nodes) /\ beam.visited \subseteq Nodes /\ query.limit \in Nat
      BY <3>1, PlainFacts, NodesAre, QueryFacts DEF IsQuery
    <3>3. visits \in Nat
      BY <3>1, <3>2, FS_Subset, FS_CardinalityType DEF PlainInv, SearchInv
    <3>4. AddedVisits \in Nat /\ Len(tops) \in Nat
      BY <3>1, BatchedAssumption
    <3> QED
      BY <3>1, <3>2, <3>3, <3>4 DEF WithinBound
  <2>4. widened /\ phase = "searching" => Cardinality(Active) <= query.beam + AddedWidth
    BY DEF TraceInv, PlainInv, SearchInv
  <2> QED
    BY <2>2, <2>3, <2>4 DEF TraceIsExact, Recent
<1> QED
  BY <1>1, <1>2, <1>3, PTL DEF Spec

=============================================================================
