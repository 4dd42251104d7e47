--------------------------- MODULE LeafKernelProofs ---------------------------
(***************************************************************************)
(* Both leaf kernels are exact, for any base, postings, predicate, sizes   *)
(* of ring and batch, and K.  The invariant says what has been read (in    *)
(* order, and each posting ahead of all that was read of the other), what  *)
(* was admitted of it, and where each admitted id is: in the output, or    *)
(* in the ring, or behind the heap, which holds the K + 1 nearest of them. *)
(***************************************************************************)
EXTENDS LeafKernel, FiniteSetTheorems, WellFoundedInduction, TLAPS

(* The first n rows of a posting were checked.                             *)
Ordered(p, n) ==
  \A m \in 1 .. n : p[m] \in Id /\ \A k \in 1 .. m - 1 : p[k] < p[m]

(* The next row of q, if it is in order, lies beyond the m rows read of p. *)
Ahead(q, n, p, m) == m > 0 /\ n < Len(q) /\ Checked(q, n) => p[m] < q[n + 1]

ScanInv ==
  /\ Ordered(req.left, i) /\ Ordered(req.right, j)
  /\ Ahead(req.right, j, req.left, i) /\ Ahead(req.left, i, req.right, j)

LeftRead == {req.left[n] : n \in 1 .. i}
RightRead == {req.right[n] : n \in 1 .. j}

(* What was admitted so far, and what of it is passed on.                  *)
Seen ==
  IF req.mode = "conjunction" THEN LeftRead \cap RightRead
  ELSE {x \in LeftRead : req.mode = "equality" \/ x \in req.passLeft}
       \cup (RightRead \cap req.passRight)

Sent == Seen \ {req.self}

LEMMA RequestFields ==
  ASSUME NEW r \in Request
  PROVE  /\ r.left \in Seq(Int) /\ r.right \in Seq(Int)
         /\ r.passLeft \subseteq Id /\ r.passRight \subseteq Id
         /\ r.self \in Id /\ r.capacity \in Nat \ {0}
         /\ r.distance \in [Id -> Int]
         /\ r.kernel \in {"merge", "fused"}
         /\ r.kernel = "fused" => r.mode \in {"range", "dnf2"}
         /\ r.mode \in {"equality", "conjunction", "range", "dnf2"}
         /\ r.mode \in {"equality", "range"} => r.right = <<>>
BY DEF Request

(* One row further in a posting whose next row is in order.                *)
LEMMA OrderedStep ==
  ASSUME NEW p \in Seq(Int), NEW n \in Nat, n < Len(p),
         Ordered(p, n), Checked(p, n)
  PROVE  /\ Ordered(p, n + 1)
         /\ \A m \in 1 .. n : p[m] < p[n + 1]
         /\ p[n + 1] \in Id
<1>1. p[n + 1] \in Id /\ (n > 0 => p[n] < p[n + 1])
  BY DEF Checked, Id
<1>2. ASSUME NEW m \in 1 .. n
      PROVE  p[m] < p[n + 1]
  <2>1. n > 0 /\ n \in 1 .. n /\ p[n] \in Id /\ p[m] \in Id
    BY DEF Ordered
  <2>2. m = n \/ p[m] < p[n]
    BY DEF Ordered
  <2> QED
    BY <1>1, <2>1, <2>2, SizesAssumption DEF Id
<1>3. ASSUME NEW m \in 1 .. n + 1
      PROVE  p[m] \in Id /\ \A k \in 1 .. m - 1 : p[k] < p[m]
  <2>1. CASE m = n + 1
    BY <2>1, <1>1, <1>2
  <2>2. CASE m \in 1 .. n
    BY <2>2 DEF Ordered
  <2> QED
    BY <2>1, <2>2
<1> QED
  BY <1>1, <1>2, <1>3 DEF Ordered

(* What is read of a posting lies below a bound that is above its last row.*)
LEMMA ReadBelow ==
  ASSUME NEW p \in Seq(Int), NEW n \in 0 .. Len(p), Ordered(p, n),
         NEW id \in Id, n > 0 => p[n] < id
  PROVE  \A m \in 1 .. n : p[m] < id
<1> SUFFICES ASSUME NEW m \in 1 .. n PROVE p[m] < id
  OBVIOUS
<1>1. n > 0 /\ n \in 1 .. n /\ p[n] \in Id /\ p[m] \in Id
  BY DEF Ordered
<1>2. m = n \/ p[m] < p[n]
  BY DEF Ordered
<1> QED
  BY <1>1, <1>2, SizesAssumption DEF Id

(* The row chosen next lies beyond everything read so far.                 *)
LEMMA NextIsNew ==
  ASSUME req \in Request, i \in 0 .. Len(req.left), j \in 0 .. Len(req.right),
         ScanInv, HeadsChecked, NEW id \in Id, NextId(id)
  PROVE  /\ \A m \in 1 .. i : req.left[m] < id
         /\ \A m \in 1 .. j : req.right[m] < id
<1>0. req.left \in Seq(Int) /\ req.right \in Seq(Int)
  BY RequestFields
<1>1. MoreLeft => Checked(req.left, i)
  BY DEF HeadsChecked
<1>2. MoreRight => Checked(req.right, j)
  BY DEF HeadsChecked
<1>3. i > 0 => req.left[i] < id
  <2>1. CASE LeftIs(id)
    BY <2>1, <1>0, <1>1 DEF LeftIs, Checked, MoreLeft
  <2>2. CASE RightIs(id)
    BY <2>2, <1>2 DEF RightIs, MoreRight, ScanInv, Ahead
  <2> QED
    BY <2>1, <2>2 DEF NextId
<1>4. j > 0 => req.right[j] < id
  <2>1. CASE LeftIs(id)
    BY <2>1, <1>1 DEF LeftIs, MoreLeft, ScanInv, Ahead
  <2>2. CASE RightIs(id)
    BY <2>2, <1>2 DEF RightIs, Checked, MoreRight
  <2> QED
    BY <2>1, <2>2 DEF NextId
<1> QED
  BY <1>0, <1>3, <1>4, ReadBelow DEF ScanInv

-----------------------------------------------------------------------------
(* Two inductions, over the finite sets.                                   *)

(* A finite family of sets has a least member.                             *)
LEMMA LeastSet ==
  ASSUME NEW S, IsFiniteSet(S), NEW T \in SUBSET (SUBSET S), T # {}
  PROVE  \E x \in T : \A y \in T : ~ (y \subseteq x /\ y # x)
<1>1. IsWellFoundedOn(StrictSubsetOrdering(S), FiniteSubsetsOf(S))
  BY FS_StrictSubsetOrderingWellFounded
<1>2. T \subseteq FiniteSubsetsOf(S)
  BY FS_Subset DEF FiniteSubsetsOf
<1>3. PICK x \in T : \A y \in T : ~ (<<y, x>> \in StrictSubsetOrdering(S))
  BY <1>1, <1>2, WFMin
<1> QED
  BY <1>3 DEF StrictSubsetOrdering

(* A posting that was validated is ascending.                              *)
LEMMA ValidOrdered ==
  ASSUME NEW p \in Seq(Int), Valid(p)
  PROVE  Ordered(p, Len(p))
<1> DEFINE Bad == {n \in 1 .. Len(p) : ~ \A k \in 1 .. n - 1 : p[k] < p[n]}
<1>1. \A n \in 1 .. Len(p) : p[n] \in Id /\ (n > 1 => p[n - 1] < p[n])
  <2> SUFFICES ASSUME NEW n \in 1 .. Len(p)
               PROVE  p[n] \in Id /\ (n > 1 => p[n - 1] < p[n])
    OBVIOUS
  <2>1. n - 1 \in 0 .. Len(p) - 1 /\ n - 1 + 1 = n
    OBVIOUS
  <2> QED
    BY <2>1 DEF Valid, Checked
<1>2. Bad = {}
  <2> SUFFICES ASSUME Bad # {} PROVE FALSE
    OBVIOUS
  <2> DEFINE T == {1 .. n : n \in Bad}
  <2>1. T \in SUBSET (SUBSET (1 .. Len(p))) /\ T # {}
    OBVIOUS
  <2>2. IsFiniteSet(1 .. Len(p))
    BY FS_Interval
  <2>3. PICK x \in T : \A y \in T : ~ (y \subseteq x /\ y # x)
    <3> DEFINE S == 1 .. Len(p)
    <3>1. IsFiniteSet(S) /\ T \in SUBSET (SUBSET S) /\ T # {}
      BY <2>1, <2>2
    <3> HIDE DEF T, S
    <3> QED
      BY <3>1, LeastSet
  <2>4. PICK n \in Bad : x = 1 .. n
    OBVIOUS
  <2>5. n > 1
    BY <2>4
  <2>6. n - 1 \notin Bad
    <3>1. 1 .. n - 1 \subseteq 1 .. n /\ n \in 1 .. n /\ n \notin 1 .. n - 1
      BY <2>4
    <3> QED
      BY <2>3, <2>4, <3>1
  <2>7. \A k \in 1 .. n - 2 : p[k] < p[n - 1]
    BY <2>5, <2>6, <2>4
  <2>8. \A k \in 1 .. n - 1 : p[k] < p[n]
    <3>0. n \in 1 .. Len(p)
      BY <2>4
    <3> HIDE DEF Bad, T
    <3> SUFFICES ASSUME NEW k \in 1 .. n - 1 PROVE p[k] < p[n]
      OBVIOUS
    <3>1. p[n - 1] < p[n] /\ p[k] \in Int /\ p[n] \in Int /\ p[n - 1] \in Int
      <4>1. n \in 1 .. Len(p) /\ n - 1 \in 1 .. Len(p) /\ k \in 1 .. Len(p)
        BY <3>0, <2>5
      <4> QED
        BY <1>1, <2>5, <4>1, SizesAssumption DEF Id
    <3>2. k = n - 1 \/ p[k] < p[n - 1]
      BY <2>7, <2>5, <3>0
    <3> QED
      BY <3>1, <3>2
  <2> QED
    BY <2>4, <2>8
<1> QED
  BY <1>1, <1>2 DEF Ordered

(* Less is a strict total order of the rows.                               *)
LEMMA LessOrder ==
  ASSUME req \in Request, NEW a \in Id, NEW b \in Id, NEW c \in Id
  PROVE  /\ ~Less(a, a)
         /\ Less(a, b) /\ Less(b, c) => Less(a, c)
         /\ a # b => Less(a, b) \/ Less(b, a)
<1>1. /\ req.distance[a] \in Int /\ req.distance[b] \in Int
      /\ req.distance[c] \in Int
  BY RequestFields
<1>2. a \in Int /\ b \in Int /\ c \in Int
  BY SizesAssumption DEF Id
<1> QED
  BY <1>1, <1>2 DEF Less

(* A set of rows that is not empty has one worst row.                      *)
LEMMA WorstIs ==
  ASSUME req \in Request, NEW S \in SUBSET Id, IsFiniteSet(S), S # {}
  PROVE  /\ Worst(S) \in S
         /\ \A s \in S : s # Worst(S) => Less(s, Worst(S))
<1> DEFINE Above(x) == {y \in S : Less(x, y)}
<1> DEFINE T == {Above(x) : x \in S}
<1>1. T \in SUBSET (SUBSET S) /\ T # {}
  OBVIOUS
<1>2. PICK t \in T : \A y \in T : ~ (y \subseteq t /\ y # t)
  <2> HIDE DEF T
  <2> QED
    BY <1>1, LeastSet
<1>3. PICK w \in S : t = Above(w)
  OBVIOUS
<1>4. \A s \in S : ~Less(w, s)
  <2> SUFFICES ASSUME NEW s \in S, Less(w, s) PROVE FALSE
    OBVIOUS
  <2>1. Above(s) \subseteq Above(w)
    BY LessOrder
  <2>2. s \in Above(w) /\ s \notin Above(s)
    BY LessOrder
  <2> QED
    BY <1>2, <1>3, <2>1, <2>2
<1>5. \A s \in S : s = w \/ Less(s, w)
  BY <1>4, LessOrder
<1> QED
  BY <1>5 DEF Worst

-----------------------------------------------------------------------------
(* The heap.                                                               *)

(* B holds the K + 1 best of S, or all of it.                              *)
BestOf(B, S) ==
  /\ B \subseteq S /\ IsFiniteSet(B) /\ Cardinality(B) <= K + 1
  /\ \/ B = S
     \/ /\ Cardinality(B) = K + 1
        /\ \A x \in S \ B : \A y \in B : Less(y, x)

LEMMA RetainStep ==
  ASSUME req \in Request, NEW S \in SUBSET Id, NEW B, BestOf(B, S),
         NEW id \in Id, id \notin S
  PROVE  BestOf(Retain(B, id), S \cup {id})
<1>0. /\ B \in SUBSET Id /\ B \subseteq S /\ IsFiniteSet(B)
      /\ Cardinality(B) \in Nat /\ Cardinality(B) <= K + 1 /\ K + 1 > 0
      /\ id \notin B
  BY FS_CardinalityType, SizesAssumption DEF BestOf
<1>1. CASE Cardinality(B) < K + 1
  <2>1. B = S /\ Retain(B, id) = B \cup {id}
    BY <1>0, <1>1 DEF BestOf, Retain
  <2>2. /\ IsFiniteSet(B \cup {id})
        /\ Cardinality(B \cup {id}) = Cardinality(B) + 1
    BY <1>0, FS_AddElement
  <2>3. Cardinality(B \cup {id}) <= K + 1
    BY <1>0, <1>1, <2>2, SizesAssumption
  <2> QED
    BY <2>1, <2>2, <2>3 DEF BestOf
<1>2. CASE Cardinality(B) >= K + 1
  <2> DEFINE w == Worst(B)
  <2>1. Cardinality(B) = K + 1 /\ B # {}
    BY <1>0, <1>2, FS_EmptySet, SizesAssumption
  <2>2. w \in B /\ \A s \in B : s # w => Less(s, w)
    BY <1>0, <2>1, WorstIs
  <2>3. \A x \in S \ B : \A y \in B : Less(y, x)
    BY <2>1 DEF BestOf
  <2> HIDE DEF w
  <2>4. CASE Less(id, w)
    <3> DEFINE C == (B \ {w}) \cup {id}
    <3>1. Retain(B, id) = C
      BY <1>0, <1>2, <2>4, SizesAssumption DEF Retain, w
    <3>2. IsFiniteSet(B \ {w}) /\ Cardinality(B \ {w}) = K
      <4>1. IsFiniteSet(B \ {w}) /\ Cardinality(B \ {w}) = Cardinality(B) - 1
        BY <1>0, <2>2, FS_RemoveElement
      <4> QED
        BY <4>1, <2>1, SizesAssumption
    <3>3. IsFiniteSet(C) /\ Cardinality(C) = K + 1
      BY <1>0, <3>2, FS_AddElement
    <3>4. ASSUME NEW x \in (S \cup {id}) \ C, NEW y \in C
          PROVE  Less(y, x)
      <4>1. x = w \/ x \in S \ B
        BY <3>4
      <4>2. x \in Id /\ y \in Id /\ w \in Id
        BY <3>4, <1>0, <2>2
      <4>3. y = w \/ Less(y, w)
        BY <2>2, <2>4
      <4>4. CASE x \in S \ B
        BY <4>2, <4>3, <4>4, <2>2, <2>3, LessOrder
      <4>5. CASE x = w
        BY <4>3, <4>5, <2>2, <1>0
      <4> QED
        BY <4>1, <4>4, <4>5
    <3>5. C \subseteq S \cup {id}
      BY <1>0
    <3>6. Cardinality(C) <= K + 1
      BY <3>3, SizesAssumption
    <3> HIDE DEF C
    <3> QED
      BY <3>1, <3>3, <3>4, <3>5, <3>6 DEF BestOf
  <2>5. CASE ~Less(id, w)
    <3>1. Retain(B, id) = B
      BY <1>0, <1>2, <2>5, SizesAssumption DEF Retain, w
    <3>2. Less(w, id)
      BY <1>0, <2>2, <2>5, LessOrder
    <3>3. ASSUME NEW x \in (S \cup {id}) \ B, NEW y \in B
          PROVE  Less(y, x)
      <4>1. CASE x \in S
        BY <4>1, <2>3
      <4>2. CASE x = id
        BY <4>2, <3>2, <2>2, <1>0, LessOrder
      <4> QED
        BY <4>1, <4>2
    <3> QED
      BY <1>0, <2>1, <3>1, <3>3 DEF BestOf
  <2> QED
    BY <2>4, <2>5
<1> QED
  BY <1>0, <1>1, <1>2, SizesAssumption

(* The K least of the heap are the K least of all, and the cut falls       *)
(* between equals in the one if and only if it does in the other.          *)
LEMMA CutOfBest ==
  ASSUME req \in Request, NEW S \in SUBSET Id, IsFiniteSet(S),
         NEW B, BestOf(B, S)
  PROVE  Least(B) = Least(S) /\ (CutoffTie(B) <=> CutoffTie(S))
<1>1. CASE B = S
  BY <1>1
<1>2. CASE B # S
  <2> DEFINE Below(c, T) == {d \in T : Less(d, c)}
  <2>0. /\ B \in SUBSET Id /\ B \subseteq S /\ IsFiniteSet(B)
        /\ Cardinality(B) = K + 1 /\ B # {}
        /\ \A x \in S \ B : \A y \in B : Less(y, x)
    BY <1>2, FS_EmptySet, SizesAssumption DEF BestOf
  <2>1. \A c \in B : Below(c, S) = Below(c, B)
    BY <2>0, LessOrder
  <2>2. \A c \in S \ B : ~ (Cardinality(Below(c, S)) < K)
    <3> SUFFICES ASSUME NEW c \in S \ B
                 PROVE  ~ (Cardinality(Below(c, S)) < K)
      OBVIOUS
    <3>1. B \subseteq Below(c, S) /\ Below(c, S) \subseteq S
      BY <2>0
    <3>2. IsFiniteSet(Below(c, S))
      BY <3>1, FS_Subset
    <3>3. Cardinality(B) <= Cardinality(Below(c, S))
      <4> HIDE DEF Below
      <4> QED
        BY <3>1, <3>2, FS_Subset
    <3>4. Cardinality(Below(c, S)) \in Nat
      BY <3>2, FS_CardinalityType
    <3> HIDE DEF Below
    <3> QED
      BY <2>0, <3>3, <3>4, SizesAssumption
  <2>3. Least(B) = Least(S)
    <3>1. \A T : Least(T) = {c \in T : Cardinality(Below(c, T)) < K}
      BY DEF Least
    <3> HIDE DEF Below
    <3> QED
      BY <2>0, <2>1, <2>2, <3>1
  <2>4. Worst(B) \in B /\ \A s \in B : s # Worst(B) => Less(s, Worst(B))
    BY <2>0, WorstIs
  <2>5. Worst(B) \notin Least(B)
    <3>1. Below(Worst(B), B) = B \ {Worst(B)}
      BY <2>0, <2>4, LessOrder
    <3>2. Cardinality(B \ {Worst(B)}) = K
      <4>1. Cardinality(B \ {Worst(B)}) = Cardinality(B) - 1
        BY <2>0, <2>4, FS_RemoveElement
      <4> QED
        BY <4>1, <2>0, SizesAssumption
    <3> QED
      BY <3>1, <3>2, SizesAssumption DEF Least
  <2>6. CutoffTie(B) => CutoffTie(S)
    BY <2>0, <2>3 DEF CutoffTie
  <2>7. ASSUME CutoffTie(S) PROVE CutoffTie(B)
    <3>1. PICK c \in Least(S), d \in S \ Least(S) :
                 req.distance[c] = req.distance[d]
      BY <2>7 DEF CutoffTie
    <3>2. c \in B /\ c \in Least(B)
      BY <2>3, <3>1 DEF Least
    <3>3. CASE d \in B
      BY <2>3, <3>1, <3>2, <3>3 DEF CutoffTie
    <3>4. CASE d \notin B
      <4> DEFINE w == Worst(B)
      <4>1. w \in B \ Least(B) /\ Less(c, w) /\ Less(w, d)
        BY <2>0, <2>4, <2>5, <3>1, <3>2, <3>4
      <4>2. c \in Id /\ d \in Id /\ w \in Id
        BY <2>0, <3>1, <3>2, <4>1
      <4> HIDE DEF w
      <4>3. /\ req.distance[c] \in Int /\ req.distance[d] \in Int
            /\ req.distance[w] \in Int
        BY <4>2, RequestFields
      <4>4. req.distance[c] = req.distance[w]
        BY <3>1, <4>1, <4>3 DEF Less
      <4> QED
        BY <3>2, <4>1, <4>4 DEF CutoffTie
    <3> QED
      BY <3>3, <3>4
  <2> QED
    BY <2>3, <2>6, <2>7
<1> QED
  BY <1>1, <1>2

-----------------------------------------------------------------------------
(* One step of the scan.                                                   *)

Taken(id) ==
  IF req.mode = "conjunction" THEN LeftIs(id) /\ RightIs(id) ELSE Kept(id)

LEMMA SeenInId ==
  ASSUME req \in Request, i \in 0 .. Len(req.left), j \in 0 .. Len(req.right),
         ScanInv
  PROVE  /\ LeftRead \subseteq Id /\ RightRead \subseteq Id
         /\ Seen \subseteq Id /\ Sent \subseteq Id
         /\ IsFiniteSet(Seen) /\ IsFiniteSet(Sent)
         /\ Cardinality(Seen) \in Nat /\ Cardinality(Sent) \in Nat
<1>1. LeftRead \subseteq Id /\ RightRead \subseteq Id
  BY DEF ScanInv, Ordered, LeftRead, RightRead
<1>2. Seen \subseteq Id /\ Sent \subseteq Id
  BY <1>1 DEF Seen, Sent
<1>3. IsFiniteSet(Id)
  BY FS_Interval, SizesAssumption DEF Id
<1>4. IsFiniteSet(Seen) /\ IsFiniteSet(Sent)
  BY <1>2, <1>3, FS_Subset
<1> QED
  BY <1>1, <1>2, <1>4, FS_CardinalityType

LEMMA ScanStep ==
  ASSUME req \in Request, i \in 0 .. Len(req.left), j \in 0 .. Len(req.right),
         ScanInv, HeadsChecked, NEW id \in Id, NextId(id), Advance(id)
  PROVE  /\ i' \in 0 .. Len(req.left) /\ j' \in 0 .. Len(req.right)
         /\ ScanInv'
         /\ LeftRead' = IF LeftIs(id) THEN LeftRead \cup {id} ELSE LeftRead
         /\ RightRead' = IF RightIs(id) THEN RightRead \cup {id} ELSE RightRead
         /\ \A x \in LeftRead \cup RightRead : x < id
<1>0. req.left \in Seq(Int) /\ req.right \in Seq(Int) /\ req' = req
  BY RequestFields DEF Advance
<1>1. /\ \A m \in 1 .. i : req.left[m] < id
      /\ \A m \in 1 .. j : req.right[m] < id
  BY NextIsNew
<1>2. \A x \in LeftRead \cup RightRead : x < id
  BY <1>1 DEF LeftRead, RightRead
<1>3. /\ LeftIs(id) => /\ i < Len(req.left) /\ req.left[i + 1] = id
                       /\ Checked(req.left, i) /\ i' = i + 1
      /\ RightIs(id) => /\ j < Len(req.right) /\ req.right[j + 1] = id
                        /\ Checked(req.right, j) /\ j' = j + 1
      /\ ~LeftIs(id) => i' = i
      /\ ~RightIs(id) => j' = j
      /\ LeftIs(id) \/ RightIs(id)
  BY DEF LeftIs, RightIs, MoreLeft, MoreRight, HeadsChecked, Advance, NextId
<1>4. i' \in 0 .. Len(req.left) /\ j' \in 0 .. Len(req.right)
  BY <1>0, <1>3
<1>5. LeftRead' = IF LeftIs(id) THEN LeftRead \cup {id} ELSE LeftRead
  <2>1. CASE LeftIs(id)
    <3>1. 1 .. i + 1 = (1 .. i) \cup {i + 1}
      OBVIOUS
    <3> QED
      BY <2>1, <3>1, <1>0, <1>3 DEF LeftRead
  <2> QED
    BY <2>1, <1>0, <1>3 DEF LeftRead
<1>6. RightRead' = IF RightIs(id) THEN RightRead \cup {id} ELSE RightRead
  <2>1. CASE RightIs(id)
    <3>1. 1 .. j + 1 = (1 .. j) \cup {j + 1}
      OBVIOUS
    <3> QED
      BY <2>1, <3>1, <1>0, <1>3 DEF RightRead
  <2> QED
    BY <2>1, <1>0, <1>3 DEF RightRead
<1>7. Ordered(req.left, i') /\ Ordered(req.right, j')
  <2>1. Ordered(req.left, i')
    BY <1>0, <1>3, OrderedStep DEF ScanInv
  <2>2. Ordered(req.right, j')
    BY <1>0, <1>3, OrderedStep DEF ScanInv
  <2> QED
    BY <2>1, <2>2
<1>8. Ahead(req.right, j', req.left, i')
  <2> SUFFICES ASSUME i' > 0, j' < Len(req.right), Checked(req.right, j')
               PROVE  req.left[i'] < req.right[j' + 1]
    BY DEF Ahead
  <2>1. req.left[i'] <= id
    <3>1. CASE LeftIs(id)
      BY <3>1, <1>3, SizesAssumption DEF Id
    <3>2. CASE ~LeftIs(id)
      <4>1. i' = i /\ i \in 1 .. i /\ i \in 1 .. Len(req.left)
        BY <3>2, <1>0, <1>3
      <4>2. req.left[i] \in Int /\ id \in Int /\ req.left[i] < id
        BY <4>1, <1>0, <1>1, SizesAssumption DEF Id
      <4> QED
        BY <4>1, <4>2
    <3> QED
      BY <3>1, <3>2
  <2>2. id < req.right[j' + 1]
    <3>1. CASE RightIs(id)
      BY <3>1, <1>0, <1>3 DEF Checked
    <3>2. CASE ~RightIs(id)
      BY <3>2, <1>0, <1>3, SizesAssumption
         DEF RightIs, MoreRight, NextId, Checked, Id
    <3> QED
      BY <3>1, <3>2
  <2>3. req.left[i'] \in Int /\ req.right[j' + 1] \in Int /\ id \in Int
    BY <1>0, <1>4, SizesAssumption DEF Id
  <2> QED
    BY <2>1, <2>2, <2>3
<1>9. Ahead(req.left, i', req.right, j')
  <2> SUFFICES ASSUME j' > 0, i' < Len(req.left), Checked(req.left, i')
               PROVE  req.right[j'] < req.left[i' + 1]
    BY DEF Ahead
  <2>1. req.right[j'] <= id
    BY <1>0, <1>1, <1>3, SizesAssumption DEF Id
  <2>2. id < req.left[i' + 1]
    <3>1. CASE LeftIs(id)
      BY <3>1, <1>0, <1>3 DEF Checked
    <3>2. CASE ~LeftIs(id)
      BY <3>2, <1>0, <1>3, SizesAssumption
         DEF LeftIs, MoreLeft, NextId, Checked, Id
    <3> QED
      BY <3>1, <3>2
  <2>3. req.right[j'] \in Int /\ req.left[i' + 1] \in Int /\ id \in Int
    BY <1>0, <1>4, SizesAssumption DEF Id
  <2> QED
    BY <2>1, <2>2, <2>3
<1>10. ScanInv'
  BY <1>0, <1>7, <1>8, <1>9 DEF ScanInv, Ordered, Ahead, Checked
<1> QED
  BY <1>2, <1>4, <1>5, <1>6, <1>10

(* The row is new, and becomes one that was seen exactly if it is taken.   *)
LEMMA SeenStep ==
  ASSUME req \in Request, i \in 0 .. Len(req.left), j \in 0 .. Len(req.right),
         ScanInv, HeadsChecked, NEW id \in Id, NextId(id), Advance(id)
  PROVE  /\ Seen' = IF Taken(id) THEN Seen \cup {id} ELSE Seen
         /\ \A x \in Seen : x < id
         /\ id \notin Seen
<1>1. /\ LeftRead' = IF LeftIs(id) THEN LeftRead \cup {id} ELSE LeftRead
      /\ RightRead' = IF RightIs(id) THEN RightRead \cup {id} ELSE RightRead
      /\ \A x \in LeftRead \cup RightRead : x < id
  BY ScanStep
<1>2. req' = req
  BY DEF Advance
<1>3. Seen \subseteq LeftRead \cup RightRead
  BY DEF Seen
<1>4. id \notin LeftRead /\ id \notin RightRead
  BY <1>1, SizesAssumption DEF Id
<1>5. Seen' = IF Taken(id) THEN Seen \cup {id} ELSE Seen
  <2>1. CASE req.mode = "conjunction"
    BY <2>1, <1>1, <1>2, <1>4 DEF Seen, Taken
  <2>2. CASE req.mode # "conjunction"
    BY <2>2, <1>1, <1>2, <1>4 DEF Seen, Taken, Kept
  <2> QED
    BY <2>1, <2>2
<1> QED
  BY <1>1, <1>3, <1>4, <1>5

-----------------------------------------------------------------------------
(* The invariant.                                                          *)

(* merge: the output is what was sent, ascending.                          *)
Ascending(s) == \A m, n \in 1 .. Len(s) : m < n => s[m] < s[n]

MergeInv ==
  req.kernel = "merge" =>
    /\ pc = "scan"
    /\ status # "overflow" =>
         /\ Elements(output) = Sent /\ Len(output) = Cardinality(Sent)
         /\ Ascending(output)

(* fused: the ring holds some of what was sent, each row once, and the     *)
(* heap the best of the rest.                                              *)
Distinct(s) == \A m, n \in 1 .. Len(s) : m # n => s[m] # s[n]

Scored == Sent \ Elements(pending)

InBatch == IF pc = "score" THEN Batch - lane ELSE 0

RingInv ==
  /\ Elements(pending) \subseteq Sent /\ Distinct(pending)
  /\ rows + InBatch + Len(pending) = Cardinality(Sent)
  /\ pc = "score" => Len(pending) - lane <= Ring - Batch
  /\ pc = "scan" /\ status = "running" => Len(pending) < Ring
  /\ pc = "drain" => draining
  /\ draining => /\ pc # "scan"
                 /\ ~More /\ removed = 1 /\ unique >= K + 1

FusedInv == req.kernel = "fused" => RingInv /\ BestOf(best, Scored)

(* What each verdict is based on.                                          *)
VerdictInv ==
  /\ status = "ok" => ~More /\ removed = 1
  /\ status = "ok" /\ req.kernel = "fused" =>
       pending = <<>> /\ top = Least(best) /\ (tie <=> CutoffTie(best))
  /\ status = "missing_self" => ~More /\ removed # 1
  /\ status = "overflow" => Cardinality(Sent) > req.capacity
  /\ status = "below_k" =>
       req.kernel = "fused" /\ ~More /\ removed = 1 /\ unique < K + 1
  /\ status = "nonfinite" => \E id \in Sent : req.distance[id] < 0
  /\ SelfChecksHold

CountInv ==
  /\ unique = Cardinality(Seen)
  /\ removed = IF req.self \in Seen THEN 1 ELSE 0

Inv ==
  TypeOK /\ ScanInv /\ CountInv /\ MergeInv /\ FusedInv /\ VerdictInv

(* The variables of the scan, and the others.                              *)
TypeRead ==
  /\ req \in Request
  /\ i \in 0 .. Len(req.left) /\ j \in 0 .. Len(req.right)
  /\ unique \in Nat /\ removed \in Nat

TypeRest ==
  /\ pc \in {"scan", "score", "drain"}
  /\ output \in Seq(Id) /\ Len(output) <= req.capacity
  /\ pending \in Seq(Id) /\ Len(pending) <= Ring
  /\ lane \in 0 .. Batch
  /\ (pc = "score" => lane > 0 /\ lane <= Len(pending))
  /\ draining \in BOOLEAN
  /\ best \subseteq Id
  /\ rows \in Nat
  /\ top \subseteq Id /\ tie \in BOOLEAN
  /\ status \in {"running", "ok", "bad_posting", "overflow", "bad_output",
                 "missing_self", "below_k", "nonfinite", "bad_argument"}

LEMMA TypeParts == TypeOK <=> TypeRead /\ TypeRest
BY DEF TypeOK, TypeRead, TypeRest

LEMMA TypePartsNext == TypeRead' /\ TypeRest' => TypeOK'
BY DEF TypeOK, TypeRead, TypeRest

LEMMA InitInv == Init => Inv
<1> SUFFICES ASSUME Init PROVE Inv
  OBVIOUS
<1>1. req \in Request
  BY RequestsAssumption DEF Init
<1>2. /\ req.left \in Seq(Int) /\ req.right \in Seq(Int)
      /\ req.capacity \in Nat \ {0} /\ req.kernel \in {"merge", "fused"}
  BY <1>1, RequestFields
<1>3. TypeOK
  <2>1. TypeRead
    BY <1>1, <1>2 DEF Init, TypeRead
  <2>2. /\ output \in Seq(Id) /\ Len(output) <= req.capacity
        /\ pending \in Seq(Id) /\ Len(pending) <= Ring
    BY <1>2, SizesAssumption DEF Init
  <2>3. /\ status = "running" /\ pc = "scan" /\ rows = 0
        /\ draining = FALSE /\ tie = FALSE /\ best = {} /\ top = {}
        /\ lane \in 0 .. Batch
    BY SizesAssumption DEF Init
  <2>4. TypeRest
    BY <2>2, <2>3 DEF TypeRest
  <2> QED
    BY <2>1, <2>4, TypeParts
<1>4. ScanInv
  BY <1>2 DEF Init, ScanInv, Ordered, Ahead
<1>5. LeftRead = {} /\ RightRead = {} /\ Seen = {} /\ Sent = {}
  BY DEF Init, LeftRead, RightRead, Seen, Sent
<1>6. CountInv
  BY <1>5, FS_EmptySet DEF Init, CountInv
<1>7. Elements(<<>>) = {} /\ Ascending(<<>>) /\ Distinct(<<>>)
  BY DEF Elements, Ascending, Distinct
<1>8. MergeInv
  BY <1>5, <1>7, FS_EmptySet DEF Init, MergeInv
<1>9. FusedInv
  <2>1. BestOf({}, {})
    BY FS_EmptySet, SizesAssumption DEF BestOf
  <2>2. RingInv
    BY <1>5, <1>7, FS_EmptySet, SizesAssumption DEF Init, RingInv, InBatch
  <2> QED
    BY <1>5, <1>7, <2>1, <2>2 DEF Init, FusedInv, Scored
<1>10. VerdictInv
  BY DEF Init, VerdictInv, SelfChecksHold
<1> QED
  BY <1>3, <1>4, <1>6, <1>8, <1>9, <1>10 DEF Inv

-----------------------------------------------------------------------------
(* Sequences that grow at the end and shrink at the front.                 *)

LEMMA AppendElements ==
  ASSUME NEW s \in Seq(Id), NEW x \in Id
  PROVE  /\ Append(s, x) \in Seq(Id) /\ Len(Append(s, x)) = Len(s) + 1
         /\ Elements(Append(s, x)) = Elements(s) \cup {x}
         /\ x \notin Elements(s) /\ Distinct(s) => Distinct(Append(s, x))
         /\ (\A y \in Elements(s) : y < x) /\ Ascending(s) =>
              Ascending(Append(s, x))
<1> DEFINE t == Append(s, x)
<1>1. /\ t \in Seq(Id) /\ Len(t) = Len(s) + 1 /\ Len(s) \in Nat
      /\ t[Len(s) + 1] = x
      /\ \A n \in 1 .. Len(s) : t[n] = s[n]
  OBVIOUS
<1> HIDE DEF t
<1>2. Elements(t) = Elements(s) \cup {x}
  <2>1. 1 .. Len(t) = (1 .. Len(s)) \cup {Len(s) + 1}
    BY <1>1
  <2> QED
    BY <1>1, <2>1 DEF Elements
<1>3. ASSUME x \notin Elements(s), Distinct(s) PROVE Distinct(t)
  <2> SUFFICES ASSUME NEW m \in 1 .. Len(t), NEW n \in 1 .. Len(t), m # n
               PROVE  t[m] # t[n]
    BY DEF Distinct
  <2>1. \A k \in 1 .. Len(s) : s[k] # x
    BY <1>3 DEF Elements
  <2>2. (m \in 1 .. Len(s) \/ m = Len(s) + 1)
        /\ (n \in 1 .. Len(s) \/ n = Len(s) + 1)
    BY <1>1
  <2> QED
    BY <1>1, <1>3, <2>1, <2>2 DEF Distinct
<1>4. ASSUME \A y \in Elements(s) : y < x, Ascending(s) PROVE Ascending(t)
  <2> SUFFICES ASSUME NEW m \in 1 .. Len(t), NEW n \in 1 .. Len(t), m < n
               PROVE  t[m] < t[n]
    BY DEF Ascending
  <2>1. \A k \in 1 .. Len(s) : s[k] < x
    BY <1>4 DEF Elements
  <2>2. m \in 1 .. Len(s) /\ (n \in 1 .. Len(s) \/ n = Len(s) + 1)
    BY <1>1
  <2> QED
    BY <1>1, <1>4, <2>1, <2>2 DEF Ascending
<1> QED
  BY <1>1, <1>2, <1>3, <1>4 DEF t

LEMMA TailElements ==
  ASSUME NEW s \in Seq(Id), s # <<>>
  PROVE  /\ Tail(s) \in Seq(Id) /\ Len(Tail(s)) = Len(s) - 1
         /\ Head(s) \in Id
         /\ Elements(s) = Elements(Tail(s)) \cup {Head(s)}
         /\ Distinct(s) =>
              Distinct(Tail(s)) /\ Head(s) \notin Elements(Tail(s))
<1> DEFINE t == Tail(s)
<1>1. /\ t \in Seq(Id) /\ Len(t) = Len(s) - 1 /\ Len(s) \in Nat /\ Len(s) > 0
      /\ Head(s) = s[1] /\ Head(s) \in Id
      /\ \A n \in 1 .. Len(t) : t[n] = s[n + 1]
  OBVIOUS
<1> HIDE DEF t
<1>2. ASSUME NEW x PROVE x \in Elements(s) <=> x \in Elements(t) \cup {s[1]}
  <2>1. ASSUME NEW n \in 1 .. Len(s), x = s[n]
        PROVE  x \in Elements(t) \cup {s[1]}
    <3>1. CASE n = 1
      BY <2>1, <3>1
    <3>2. CASE n # 1
      <4>1. n - 1 \in 1 .. Len(t) /\ t[n - 1] = s[n]
        BY <1>1, <3>2
      <4> QED
        BY <2>1, <4>1 DEF Elements
    <3> QED
      BY <3>1, <3>2
  <2>2. ASSUME NEW n \in 1 .. Len(t), x = t[n]
        PROVE  x \in Elements(s)
    <3>1. n + 1 \in 1 .. Len(s) /\ t[n] = s[n + 1]
      BY <1>1
    <3> QED
      BY <2>2, <3>1 DEF Elements
  <2>3. s[1] \in Elements(s)
    BY <1>1 DEF Elements
  <2> QED
    BY <2>1, <2>2, <2>3 DEF Elements
<1>3. Elements(s) = Elements(t) \cup {s[1]}
  BY <1>2
<1>4. ASSUME Distinct(s) PROVE Distinct(t) /\ s[1] \notin Elements(t)
  <2>1. \A n \in 1 .. Len(t) : n + 1 \in 1 .. Len(s) /\ t[n] = s[n + 1]
    BY <1>1
  <2>2. Distinct(t)
    <3> SUFFICES ASSUME NEW m \in 1 .. Len(t), NEW n \in 1 .. Len(t), m # n
                 PROVE  t[m] # t[n]
      BY DEF Distinct
    <3>1. m + 1 # n + 1
      OBVIOUS
    <3> QED
      BY <1>4, <2>1, <3>1 DEF Distinct
  <2>3. \A n \in 1 .. Len(t) : t[n] # s[1]
    <3> SUFFICES ASSUME NEW n \in 1 .. Len(t) PROVE t[n] # s[1]
      OBVIOUS
    <3>1. n + 1 # 1 /\ 1 \in 1 .. Len(s)
      BY <1>1
    <3> QED
      BY <1>4, <2>1, <3>1 DEF Distinct
  <2> QED
    BY <2>2, <2>3 DEF Elements
<1> QED
  BY <1>1, <1>3, <1>4 DEF t

-----------------------------------------------------------------------------
(* A step that reads one row.                                              *)

LEMMA ReadStep ==
  ASSUME Inv, Scanning, HeadsChecked,
         NEW id \in Id, NextId(id), Advance(id),
         IF Taken(id) THEN Admit(id) ELSE Pass
  PROVE  Inv'
<1> DEFINE sends == Taken(id) /\ id # req.self
<1>1. /\ req \in Request /\ i \in 0 .. Len(req.left)
      /\ j \in 0 .. Len(req.right) /\ unique \in Nat /\ removed \in Nat
      /\ TypeRest /\ ScanInv
      /\ status = "running" /\ pc = "scan"
      /\ req' = req /\ UNCHANGED <<draining, best, rows, top, tie>>
  BY TypeParts DEF Inv, TypeRead, Scanning, At, Advance
<1>2. /\ i' \in 0 .. Len(req.left) /\ j' \in 0 .. Len(req.right)
      /\ ScanInv'
  BY <1>1, ScanStep
<1>3. /\ Seen' = IF Taken(id) THEN Seen \cup {id} ELSE Seen
      /\ \A x \in Seen : x < id
      /\ id \notin Seen
  BY <1>1, SeenStep
<1>4. /\ IsFiniteSet(Seen) /\ IsFiniteSet(Sent) /\ Sent \subseteq Id
      /\ Cardinality(Seen) \in Nat /\ Cardinality(Sent) \in Nat
  BY <1>1, SeenInId
<1>5. /\ Sent' = IF sends THEN Sent \cup {id} ELSE Sent
      /\ \A x \in Sent : x < id
      /\ id \notin Sent
  BY <1>1, <1>3 DEF Sent
<1>6. Cardinality(Sent') = IF sends THEN Cardinality(Sent) + 1
                                    ELSE Cardinality(Sent)
  BY <1>4, <1>5, FS_AddElement
<1>7. /\ unique' = IF Taken(id) THEN unique + 1 ELSE unique
      /\ removed' = IF Taken(id) /\ id = req.self THEN removed + 1
                                                  ELSE removed
  BY DEF Admit, Pass
<1>8. CountInv'
  <2>1. unique = Cardinality(Seen) /\ removed = IF req.self \in Seen THEN 1 ELSE 0
    BY DEF Inv, CountInv
  <2>2. unique' = Cardinality(Seen')
    BY <1>3, <1>4, <1>7, <2>1, FS_AddElement
  <2>3. removed' = IF req'.self \in Seen' THEN 1 ELSE 0
    BY <1>1, <1>3, <1>7, <2>1
  <2> QED
    BY <2>2, <2>3 DEF CountInv
<1>9. TypeRead'
  BY <1>1, <1>2, <1>7 DEF TypeRead
<1>10. ASSUME TypeRest', MergeInv', FusedInv', VerdictInv' PROVE Inv'
  BY <1>2, <1>8, <1>9, <1>10, TypePartsNext DEF Inv
<1>11. req.kernel = "fused" => ~draining
  BY <1>1 DEF Inv, FusedInv, RingInv
<1> HIDE DEF sends
<1>12. CASE ~sends
  <2>1. UNCHANGED <<output, pending, lane, pc, status>>
    BY <1>12 DEF Admit, Pass, sends
  <2>2. TypeRest'
    BY <1>1, <2>1 DEF TypeRest
  <2>3. Sent' = Sent
    BY <1>12, <1>5
  <2>4. MergeInv'
    BY <1>1, <2>1, <2>3 DEF Inv, MergeInv, Ascending, Elements
  <2>5. FusedInv'
    BY <1>1, <1>11, <2>1, <2>3
       DEF Inv, FusedInv, RingInv, Distinct, Elements, InBatch, BestOf, Scored,
           Less
  <2>6. VerdictInv'
    BY <1>1, <2>1 DEF VerdictInv, SelfChecksHold
  <2> QED
    BY <1>10, <2>2, <2>4, <2>5, <2>6
<1>13. CASE sends /\ req.kernel = "merge"
  <2>1. Emit(id)
    BY <1>13 DEF Admit, sends
  <2>2. /\ Elements(output) = Sent /\ Len(output) = Cardinality(Sent)
        /\ Ascending(output) /\ output \in Seq(Id)
        /\ Len(output) <= req.capacity /\ req.capacity \in Nat
    BY <1>1, <1>13, RequestFields DEF Inv, MergeInv, TypeRest
  <2>3. UNCHANGED <<pending, lane>>
    BY <2>1 DEF Emit
  <2>4. FusedInv'
    BY <1>1, <1>13 DEF FusedInv
  <2>5. CASE Len(output) >= req.capacity
    <3>1. status' = "overflow" /\ UNCHANGED <<pc, output>>
      BY <2>1, <2>2, <2>5 DEF Emit, Return
    <3>2. TypeRest'
      BY <1>1, <2>3, <3>1 DEF TypeRest
    <3>3. MergeInv'
      BY <1>1, <3>1 DEF MergeInv
    <3>4. VerdictInv'
      BY <1>1, <1>6, <1>13, <2>2, <2>5, <3>1 DEF VerdictInv, SelfChecksHold
    <3> QED
      BY <1>10, <2>4, <3>2, <3>3, <3>4
  <2>6. CASE Len(output) < req.capacity
    <3>1. output # <<>> => output[Len(output)] < id
      <4>1. output # <<>> => output[Len(output)] \in Elements(output)
        BY <2>2 DEF Elements
      <4> QED
        BY <1>5, <2>2, <4>1
    <3>2. output # <<>> => ~(output[Len(output)] >= id)
      <4>1. output # <<>> => output[Len(output)] \in Id
        BY <2>2
      <4> QED
        BY <3>1, <4>1, SizesAssumption DEF Id
    <3>3. output' = Append(output, id) /\ UNCHANGED <<pc, status>>
      BY <2>1, <2>2, <2>6, <3>2 DEF Emit
    <3>4. /\ output' \in Seq(Id) /\ Len(output') = Len(output) + 1
          /\ Elements(output') = Sent' /\ Ascending(output')
      BY <1>5, <1>13, <2>2, <3>3, AppendElements
    <3>5. TypeRest'
      BY <1>1, <2>2, <2>3, <2>6, <3>3, <3>4 DEF TypeRest
    <3>6. MergeInv'
      BY <1>1, <1>6, <1>13, <2>2, <3>3, <3>4 DEF MergeInv, Ascending, Elements
    <3>7. VerdictInv'
      BY <1>1, <3>3 DEF VerdictInv, SelfChecksHold
    <3> QED
      BY <1>10, <2>4, <3>5, <3>6, <3>7
  <2> QED
    BY <2>2, <2>5, <2>6
<1>14. CASE sends /\ req.kernel # "merge"
  <2>1. Pend(id)
    BY <1>14 DEF Admit, sends
  <2>2. req.kernel = "fused"
    BY <1>1, <1>14, RequestFields
  <2>3. /\ RingInv /\ BestOf(best, Scored) /\ pending \in Seq(Id)
        /\ Len(pending) < Ring
    BY <1>1, <2>2 DEF Inv, FusedInv, RingInv, TypeRest
  <2>4. id \notin Elements(pending)
    BY <1>5, <2>3 DEF RingInv
  <2>5. /\ pending' = Append(pending, id) /\ UNCHANGED <<output, status>>
        /\ \/ Len(pending') = Ring /\ pc' = "score" /\ lane' = Batch
           \/ Len(pending') < Ring /\ UNCHANGED <<pc, lane>>
    <3>1. Len(Append(pending, id)) = Len(pending) + 1 /\ Len(pending) \in Nat
      BY <2>3
    <3> QED
      BY <2>1, <2>3, <3>1, SizesAssumption DEF Pend
  <2>6. /\ pending' \in Seq(Id) /\ Len(pending') = Len(pending) + 1
        /\ Elements(pending') = Elements(pending) \cup {id}
        /\ Distinct(pending')
    BY <2>3, <2>4, <2>5, AppendElements DEF RingInv
  <2>7. TypeRest'
    BY <1>1, <2>3, <2>5, <2>6, SizesAssumption DEF TypeRest
  <2>8. MergeInv'
    BY <1>1, <2>2 DEF MergeInv
  <2>9. RingInv'
    <3>1. Elements(pending') \subseteq Sent'
      BY <1>5, <1>14, <2>3, <2>6 DEF RingInv
    <3>2. rows + Len(pending) = Cardinality(Sent) /\ rows \in Nat
      BY <1>1, <2>3 DEF RingInv, InBatch, TypeRest
    <3>3. InBatch' = 0
      BY <1>1, <2>5, SizesAssumption DEF InBatch
    <3>4. rows' + InBatch' + Len(pending') = Cardinality(Sent')
      BY <1>1, <1>6, <1>14, <2>3, <2>6, <3>2, <3>3
    <3>5. pc' = "score" => Len(pending') - lane' <= Ring - Batch
      BY <1>1, <2>5, SizesAssumption
    <3>6. pc' = "scan" => Len(pending') < Ring
      BY <2>5
    <3>7. pc' # "drain" /\ ~draining'
      BY <1>1, <1>11, <2>2, <2>5
    <3> QED
      BY <2>6, <3>1, <3>4, <3>5, <3>6, <3>7 DEF RingInv, Distinct
  <2>10. Scored' = Scored
    BY <1>5, <1>14, <2>4, <2>6 DEF Scored
  <2>11. FusedInv'
    BY <1>1, <2>3, <2>9, <2>10 DEF FusedInv, BestOf, Less
  <2>12. VerdictInv'
    BY <1>1, <2>5 DEF VerdictInv, SelfChecksHold
  <2> QED
    BY <1>10, <2>7, <2>8, <2>11, <2>12
<1> QED
  BY <1>12, <1>13, <1>14

-----------------------------------------------------------------------------
(* The other steps.                                                        *)

(* A step that reads no row changes nothing of what was seen.              *)
LEMMA QuietStep ==
  ASSUME Inv, UNCHANGED <<req, scanVars>>
  PROVE  /\ TypeRead' /\ ScanInv' /\ CountInv'
         /\ Sent' = Sent /\ (More' <=> More)
         /\ req' = req /\ unique' = unique /\ removed' = removed
         /\ TypeRest' /\ MergeInv' /\ FusedInv' /\ VerdictInv' => Inv'
<1>1. /\ req' = req /\ i' = i /\ j' = j
      /\ unique' = unique /\ removed' = removed
  BY DEF scanVars
<1>2. TypeRead'
  BY <1>1, TypeParts DEF Inv, TypeRead
<1>3. ScanInv'
  BY <1>1 DEF Inv, ScanInv, Ordered, Ahead, Checked
<1>4. Seen' = Seen /\ Sent' = Sent
  BY <1>1 DEF Seen, Sent, LeftRead, RightRead
<1>5. CountInv'
  BY <1>1, <1>4 DEF Inv, CountInv
<1>6. More' <=> More
  BY <1>1 DEF More, MoreLeft, MoreRight
<1> QED
  BY <1>1, <1>2, <1>3, <1>4, <1>5, <1>6, TypePartsNext DEF Inv

(* A verdict, or a change of loop, that leaves all else alone.             *)
LEMMA SameRing ==
  ASSUME Inv, UNCHANGED <<req, scanVars, output, pending, lane, best, rows>>
  PROVE  /\ Elements(pending') = Elements(pending)
         /\ BestOf(best, Scored) => BestOf(best, Scored)'
         /\ req.kernel = "fused" =>
              Elements(pending') \subseteq Sent' /\ Distinct(pending)'
         /\ req.kernel = "merge" /\ pc' = pc /\ status # "overflow" =>
              MergeInv'
<1>1. Sent' = Sent /\ req' = req
  BY QuietStep
<1>2. Scored' = Scored /\ Elements(pending') = Elements(pending)
  BY <1>1 DEF Scored
<1>3. BestOf(best, Scored) => BestOf(best, Scored)'
  BY <1>1, <1>2 DEF BestOf, Less
<1>4. req.kernel = "fused" =>
        Elements(pending') \subseteq Sent' /\ Distinct(pending)'
  BY <1>1, <1>2 DEF Inv, FusedInv, RingInv, Distinct
<1>5. req.kernel = "merge" /\ pc' = pc /\ status # "overflow" => MergeInv'
  BY <1>1 DEF Inv, MergeInv, Elements, Ascending
<1> QED
  BY <1>2, <1>3, <1>4, <1>5

LEMMA BadPostingStep ==
  ASSUME Inv, BadPosting
  PROVE  Inv'
<1>1. /\ UNCHANGED <<req, scanVars, output, fusedVars, pc>>
      /\ status = "running" /\ pc = "scan" /\ status' = "bad_posting"
  BY DEF BadPosting, Return, Scanning, At
<1>2. UNCHANGED <<output, pending, lane, best, rows, draining, top, tie>>
  BY <1>1 DEF fusedVars
<1>3. TypeRest'
  BY <1>1, <1>2, TypeParts, QuietStep DEF Inv, TypeRest, TypeRead
<1>4. MergeInv'
  BY <1>1, <1>2, SameRing, QuietStep DEF MergeInv
<1>5. FusedInv'
  BY <1>1, <1>2, SameRing, QuietStep
     DEF Inv, FusedInv, RingInv, InBatch
<1>6. VerdictInv'
  BY <1>1 DEF VerdictInv, SelfChecksHold
<1> QED
  BY <1>1, <1>3, <1>4, <1>5, <1>6, QuietStep

LEMMA EndMergeStep ==
  ASSUME Inv, EndMerge
  PROVE  Inv'
<1>1. /\ UNCHANGED <<req, scanVars, output, fusedVars, pc>>
      /\ status = "running" /\ pc = "scan" /\ ~More /\ req.kernel = "merge"
      /\ \/ removed # 1 /\ status' = "missing_self"
         \/ removed = 1 /\ status' = "ok"
  BY DEF EndMerge, Return, At
<1>2. UNCHANGED <<output, pending, lane, best, rows, draining, top, tie>>
  BY <1>1 DEF fusedVars
<1>3. TypeRest'
  BY <1>1, <1>2, TypeParts, QuietStep DEF Inv, TypeRest, TypeRead
<1>4. MergeInv'
  BY <1>1, <1>2, SameRing
<1>5. FusedInv'
  BY <1>1, QuietStep DEF FusedInv
<1>6. VerdictInv'
  BY <1>1, QuietStep DEF VerdictInv, SelfChecksHold
<1> QED
  BY <1>1, <1>3, <1>4, <1>5, <1>6, QuietStep

LEMMA EndFusedStep ==
  ASSUME Inv, EndFused
  PROVE  Inv'
<1>1. /\ UNCHANGED <<req, scanVars, output, pending, lane, best, rows, top, tie>>
      /\ status = "running" /\ pc = "scan" /\ ~More /\ req.kernel = "fused"
      /\ \/ /\ removed # 1 /\ status' = "missing_self"
            /\ pc' = pc /\ draining' = draining
         \/ /\ removed = 1 /\ unique < K + 1 /\ status' = "below_k"
            /\ pc' = pc /\ draining' = draining
         \/ /\ removed = 1 /\ unique >= K + 1 /\ status' = status
            /\ pc' = "drain" /\ draining' = TRUE
  BY DEF EndFused, Return, At
<1>2. TypeRest'
  BY <1>1, TypeParts, QuietStep DEF Inv, TypeRest, TypeRead
<1>3. MergeInv'
  BY <1>1, QuietStep DEF MergeInv
<1>4. RingInv /\ BestOf(best, Scored)
  BY <1>1 DEF Inv, FusedInv
<1>5. RingInv'
  <2>1. InBatch' = 0 /\ InBatch = 0
    BY <1>1 DEF InBatch
  <2>2. rows' + InBatch' + Len(pending') = Cardinality(Sent')
    BY <1>1, <1>4, <2>1, QuietStep DEF RingInv
  <2>3. Elements(pending') \subseteq Sent' /\ Distinct(pending)'
    BY <1>1, SameRing
  <2>4. pc' = "scan" => status' # "running"
    BY <1>1
  <2>5. pc' # "score" /\ (pc' = "drain" => draining')
    BY <1>1
  <2>6. draining' => /\ pc' # "scan"
                     /\ ~More' /\ removed' = 1 /\ unique' >= K + 1
    BY <1>1, <1>4, QuietStep DEF RingInv
  <2> QED
    BY <2>2, <2>3, <2>4, <2>5, <2>6 DEF RingInv
<1>6. FusedInv'
  BY <1>1, <1>4, <1>5, SameRing DEF FusedInv
<1>7. VerdictInv'
  BY <1>1, QuietStep DEF VerdictInv, SelfChecksHold
<1> QED
  BY <1>1, <1>2, <1>3, <1>6, <1>7, QuietStep

LEMMA DrainBatchStep ==
  ASSUME Inv, DrainBatch
  PROVE  Inv'
<1>1. /\ UNCHANGED <<req, scanVars, output, pending, draining, best, rows, top,
                     tie, status>>
      /\ status = "running" /\ pc = "drain" /\ Len(pending) >= Batch
      /\ pc' = "score" /\ lane' = Batch
  BY DEF DrainBatch, At
<1>2. /\ TypeRest /\ req.kernel = "fused" /\ RingInv /\ BestOf(best, Scored)
  <2>1. req.kernel \in {"merge", "fused"}
    BY TypeParts, RequestFields DEF Inv, TypeRead
  <2> QED
    BY <1>1, <2>1, TypeParts DEF Inv, MergeInv, FusedInv
<1>3. TypeRest'
  BY <1>1, <1>2, SizesAssumption, QuietStep DEF TypeRest
<1>4. MergeInv'
  BY <1>1, <1>2, QuietStep DEF MergeInv
<1>5. Sent' = Sent /\ req' = req /\ Scored' = Scored
  BY <1>1, QuietStep DEF Scored, Elements
<1>6. RingInv'
  <2>1. InBatch' = 0 /\ InBatch = 0
    BY <1>1, SizesAssumption DEF InBatch
  <2>2. rows' + InBatch' + Len(pending') = Cardinality(Sent')
    BY <1>1, <1>2, <1>5, <2>1 DEF RingInv
  <2>3. Elements(pending') \subseteq Sent' /\ Distinct(pending)'
    BY <1>1, <1>2, <1>5 DEF RingInv, Elements, Distinct
  <2>4. Len(pending') - lane' <= Ring - Batch
    <3>1. Len(pending) \in Nat /\ Len(pending) <= Ring
      BY <1>2 DEF TypeRest
    <3> QED
      BY <1>1, <3>1, SizesAssumption
  <2>5. draining' => /\ pc' # "scan"
                     /\ ~More' /\ removed' = 1 /\ unique' >= K + 1
    BY <1>1, <1>2, QuietStep DEF RingInv
  <2> QED
    BY <1>1, <2>2, <2>3, <2>4, <2>5 DEF RingInv
<1>7. FusedInv'
  BY <1>1, <1>2, <1>5, <1>6 DEF FusedInv, BestOf, Less
<1>8. VerdictInv'
  BY <1>1 DEF VerdictInv, SelfChecksHold
<1> QED
  BY <1>1, <1>3, <1>4, <1>7, <1>8, QuietStep

(* One row is scored, of a batch or alone.                                 *)
LEMMA ScoreStep ==
  ASSUME Inv, status = "running", pc \in {"score", "drain"}, pending # <<>>,
         ScoreFront, UNCHANGED <<req, scanVars, output, draining, top, tie>>
  PROVE  Inv'
<1>1. /\ TypeRest /\ req.kernel = "fused" /\ RingInv /\ BestOf(best, Scored)
      /\ req \in Request
  <2>1. req \in Request /\ req.kernel \in {"merge", "fused"} /\ TypeRest
    BY TypeParts, RequestFields DEF Inv, TypeRead
  <2> QED
    BY <2>1 DEF Inv, MergeInv, FusedInv
<1>2. /\ Sent' = Sent /\ req' = req /\ (More' <=> More)
      /\ unique' = unique /\ removed' = removed
  BY QuietStep
<1>3. Sent \subseteq Id /\ Cardinality(Sent) \in Nat
  BY TypeParts, SeenInId DEF Inv, TypeRead
<1>4. MergeInv'
  BY <1>1, <1>2 DEF MergeInv
<1> DEFINE id == Head(pending)
<1>5. /\ Tail(pending) \in Seq(Id) /\ Len(Tail(pending)) = Len(pending) - 1
      /\ id \in Id /\ Elements(pending) = Elements(Tail(pending)) \cup {id}
      /\ Distinct(Tail(pending)) /\ id \notin Elements(Tail(pending))
      /\ Len(pending) \in Nat /\ Len(pending) > 0
  BY <1>1, TailElements DEF TypeRest, RingInv
<1>6. id \in Sent
  BY <1>1, <1>5 DEF RingInv
<1> HIDE DEF id
<1>7. CASE req.distance[id] < 0
  <2>1. /\ status' = "nonfinite" /\ pc' = pc
        /\ UNCHANGED <<pending, lane, best, rows>>
    BY <1>7 DEF ScoreFront, Return, id
  <2>2. TypeRest'
    BY <1>1, <1>2, <2>1 DEF TypeRest
  <2>3. Scored' = Scored
    BY <1>2, <2>1 DEF Scored, Elements
  <2>4. FusedInv'
    BY <1>1, <1>2, <2>1, <2>3
       DEF FusedInv, RingInv, InBatch, Elements, Distinct, BestOf, Less
  <2>5. VerdictInv'
    BY <1>2, <1>6, <1>7, <2>1 DEF VerdictInv, SelfChecksHold
  <2> QED
    BY <1>4, <2>2, <2>4, <2>5, QuietStep
<1>8. CASE ~(req.distance[id] < 0)
  <2>1. /\ pending' = Tail(pending) /\ best' = Retain(best, id)
        /\ status' = status
        /\ \/ /\ pc = "drain" /\ rows' = rows + 1
              /\ pc' = pc /\ lane' = lane
           \/ /\ pc = "score" /\ lane' = lane - 1
              /\ rows' = IF lane = 1 THEN rows + Batch ELSE rows
              /\ pc' = IF lane > 1 THEN "score"
                       ELSE IF draining THEN "drain" ELSE "scan"
    BY <1>8 DEF ScoreFront, id
  <2>2. /\ pending' \in Seq(Id) /\ Len(pending') = Len(pending) - 1
        /\ Elements(pending') \subseteq Sent' /\ Distinct(pending)'
    BY <1>1, <1>2, <1>5, <2>1 DEF RingInv, Distinct
  <2>3. Scored' = Scored \cup {id} /\ id \notin Scored /\ Scored \subseteq Id
    BY <1>2, <1>3, <1>5, <1>6, <2>1 DEF Scored, Elements
  <2>4. BestOf(best', Scored')
    BY <1>1, <1>5, <2>1, <2>3, RetainStep
  <2>5. best' \subseteq Id
    BY <2>3, <2>4, <1>5 DEF BestOf
  <2>6. /\ lane \in 0 .. Batch /\ rows \in Nat /\ Len(pending) <= Ring
        /\ (pc = "score" => lane > 0 /\ lane <= Len(pending))
        /\ draining \in BOOLEAN
    BY <1>1 DEF TypeRest
  <2>7. /\ lane' \in 0 .. Batch /\ rows' \in Nat /\ Len(pending') <= Ring
        /\ pc' \in {"scan", "score", "drain"}
        /\ (pc' = "score" => lane' > 0 /\ lane' <= Len(pending'))
    BY <1>5, <2>1, <2>2, <2>6, SizesAssumption
  <2>8. TypeRest'
    BY <1>1, <1>2, <2>1, <2>2, <2>5, <2>7 DEF TypeRest
  <2>9. RingInv'
    <3>1. rows' + InBatch' + Len(pending') = rows + InBatch + Len(pending)
      <4>1. CASE pc = "drain"
        BY <4>1, <1>5, <2>1, <2>2, <2>6 DEF InBatch
      <4>2. CASE pc = "score" /\ lane > 1
        BY <4>2, <1>5, <2>1, <2>2, <2>6, SizesAssumption DEF InBatch
      <4>3. CASE pc = "score" /\ lane = 1
        BY <4>3, <1>5, <2>1, <2>2, <2>6, SizesAssumption DEF InBatch
      <4> QED
        BY <4>1, <4>2, <4>3, <2>6
    <3>2. pc = "score" => Len(pending) - lane <= Ring - Batch
      BY <1>1 DEF RingInv
    <3>3. pc' = "score" => Len(pending') - lane' <= Ring - Batch
      BY <1>5, <2>1, <2>2, <2>6, <3>2, SizesAssumption
    <3>4. pc' = "scan" => Len(pending') < Ring
      BY <1>5, <2>1, <2>2, <2>6, <3>2, SizesAssumption
    <3>5. pc' = "drain" => draining'
      BY <1>1, <2>1 DEF RingInv
    <3>6. draining' => /\ pc' # "scan"
                       /\ ~More' /\ removed' = 1 /\ unique' >= K + 1
      BY <1>1, <1>2, <2>1 DEF RingInv
    <3>7. rows' + InBatch' + Len(pending') = Cardinality(Sent')
      BY <1>1, <1>2, <3>1 DEF RingInv
    <3> QED
      BY <2>2, <3>3, <3>4, <3>5, <3>6, <3>7 DEF RingInv
  <2>10. FusedInv'
    BY <1>1, <1>2, <2>4, <2>9 DEF FusedInv, BestOf, Less
  <2>11. VerdictInv'
    BY <2>1 DEF VerdictInv, SelfChecksHold
  <2> QED
    BY <1>4, <2>8, <2>10, <2>11, QuietStep
<1> QED
  BY <1>7, <1>8

LEMMA FinishStep ==
  ASSUME Inv, Finish
  PROVE  Inv'
<1>1. /\ UNCHANGED <<req, scanVars, output, pending, lane, draining, best, rows>>
      /\ status = "running" /\ pc = "drain" /\ pending = <<>> /\ pc' = pc
  BY DEF Finish, At, Return
<1>2. /\ TypeRest /\ req.kernel = "fused" /\ RingInv /\ BestOf(best, Scored)
      /\ req \in Request
  <2>1. req \in Request /\ req.kernel \in {"merge", "fused"} /\ TypeRest
    BY TypeParts, RequestFields DEF Inv, TypeRead
  <2> QED
    BY <2>1, <1>1 DEF Inv, MergeInv, FusedInv
<1>3. ~More /\ removed = 1 /\ unique >= K + 1
  BY <1>1, <1>2 DEF RingInv
<1>4. /\ Sent' = Sent /\ req' = req /\ (More' <=> More)
      /\ unique' = unique /\ removed' = removed
  BY <1>1, QuietStep
<1>5. /\ IsFiniteSet(Seen) /\ Cardinality(Seen) \in Nat
      /\ Sent \subseteq Id /\ Cardinality(Sent) \in Nat
  BY TypeParts, SeenInId DEF Inv, TypeRead
<1>6. Cardinality(Sent) = unique - 1
  <2>1. req.self \in Seen /\ unique = Cardinality(Seen)
    BY <1>3 DEF Inv, CountInv
  <2> QED
    BY <1>5, <2>1, FS_RemoveElement DEF Sent
<1>7. Scored = Sent /\ Scored' = Scored
  BY <1>1, <1>4 DEF Scored, Elements
<1>8. ~(Cardinality(best) < K)
  <2>1. Cardinality(best) = Cardinality(Sent) \/ Cardinality(best) = K + 1
    BY <1>2, <1>7 DEF BestOf
  <2>2. unique \in Int
    BY TypeParts DEF Inv, TypeRead
  <2> QED
    BY <1>3, <1>5, <1>6, <2>1, <2>2, SizesAssumption
<1>9. rows + 1 = unique
  <2>1. rows + InBatch + Len(pending) = Cardinality(Sent) /\ rows \in Nat
    BY <1>2 DEF RingInv, TypeRest
  <2>2. InBatch = 0 /\ Len(pending) = 0
    BY <1>1 DEF InBatch
  <2>3. unique \in Int
    BY TypeParts DEF Inv, TypeRead
  <2> QED
    BY <1>6, <2>1, <2>2, <2>3
<1>10. top' = Least(best) /\ tie' = CutoffTie(best) /\ status' = "ok"
  BY <1>1, <1>8, <1>9 DEF Finish, Return
<1>11. TypeRest'
  <2>1. Least(best) \subseteq best /\ CutoffTie(best) \in BOOLEAN
    BY DEF Least, CutoffTie
  <2>2. top' \subseteq Id
    BY <1>2, <1>10, <2>1 DEF TypeRest
  <2> QED
    BY <1>1, <1>2, <1>4, <1>10, <2>1, <2>2 DEF TypeRest
<1>12. MergeInv'
  BY <1>2, <1>4 DEF MergeInv
<1>13. FusedInv'
  BY <1>1, <1>2, <1>4, <1>7, <1>10
     DEF FusedInv, RingInv, InBatch, Elements, Distinct, BestOf, Less
<1>14. (Least(best))' = Least(best) /\ (CutoffTie(best)' <=> CutoffTie(best))
  BY <1>1, <1>4 DEF Least, CutoffTie, Less
<1>15. VerdictInv'
  BY <1>1, <1>3, <1>4, <1>10, <1>14 DEF VerdictInv, SelfChecksHold
<1> QED
  BY <1>1, <1>11, <1>12, <1>13, <1>15, QuietStep

-----------------------------------------------------------------------------
LEMMA NextInv == Inv /\ [Next]_vars => Inv'
<1> SUFFICES ASSUME Inv, [Next]_vars PROVE Inv'
  OBVIOUS
<1>1. CASE BadPosting
  BY <1>1, BadPostingStep
<1>2. CASE ScanUnion
  <2>1. Scanning /\ HeadsChecked
    BY <1>2 DEF ScanUnion
  <2>2. PICK id \in Id : /\ NextId(id) /\ Advance(id)
                         /\ IF Taken(id) THEN Admit(id) ELSE Pass
    BY <1>2 DEF ScanUnion, Taken
  <2> QED
    BY <2>1, <2>2, ReadStep
<1>3. CASE ScanBoth
  <2>1. Scanning /\ HeadsChecked
    BY <1>3 DEF ScanBoth
  <2>2. PICK id \in Id : /\ NextId(id) /\ Advance(id)
                         /\ IF Taken(id) THEN Admit(id) ELSE Pass
    BY <1>3 DEF ScanBoth, Taken
  <2> QED
    BY <2>1, <2>2, ReadStep
<1>4. CASE EndMerge
  BY <1>4, EndMergeStep
<1>5. CASE EndFused
  BY <1>5, EndFusedStep
<1>6. CASE ScoreLane
  <2>1. pending # <<>>
    BY <1>6, TypeParts DEF Inv, TypeRest, ScoreLane, At
  <2> QED
    BY <1>6, <2>1, ScoreStep DEF ScoreLane, At
<1>7. CASE DrainBatch
  BY <1>7, DrainBatchStep
<1>8. CASE DrainOne
  BY <1>8, ScoreStep DEF DrainOne, At
<1>9. CASE Finish
  BY <1>9, FinishStep
<1>10. CASE UNCHANGED vars
  <2>1. /\ UNCHANGED <<req, scanVars, output, pending, lane, best, rows>>
        /\ UNCHANGED <<pc, draining, top, tie, status>>
    BY <1>10 DEF vars, scanVars, fusedVars
  <2>2. TypeRest'
    BY <2>1, QuietStep, TypeParts DEF Inv, TypeRest
  <2>3. MergeInv'
    BY <2>1, QuietStep DEF Inv, MergeInv, Elements, Ascending
  <2>4. FusedInv'
    BY <2>1, QuietStep
       DEF Inv, FusedInv, RingInv, InBatch, Elements, Distinct, BestOf, Less,
           Scored
  <2>5. (Least(best))' = Least(best) /\ (CutoffTie(best)' <=> CutoffTie(best))
    BY <2>1 DEF Least, CutoffTie, Less
  <2>6. VerdictInv'
    BY <2>1, <2>5, QuietStep DEF Inv, VerdictInv, SelfChecksHold
  <2> QED
    BY <2>1, <2>2, <2>3, <2>4, <2>6, QuietStep
<1> QED
  BY <1>1, <1>2, <1>3, <1>4, <1>5, <1>6, <1>7, <1>8, <1>9, <1>10
     DEF Next, Kernel, Returned

LEMMA Invariance == Spec => []Inv
<1>1. Init => Inv
  BY InitInv
<1>2. Inv /\ [Next]_vars => Inv'
  BY NextInv
<1> QED
  BY <1>1, <1>2, PTL DEF Spec
-----------------------------------------------------------------------------
(* What was seen is of the answer, and all of it at the end of the scan.   *)

LEMMA SeenOfAnswer ==
  ASSUME Inv
  PROVE  /\ Seen \subseteq Answer /\ Sent \subseteq Support
         /\ IsFiniteSet(Support)
<1>1. /\ req \in Request /\ i \in 0 .. Len(req.left)
      /\ j \in 0 .. Len(req.right)
  BY TypeParts DEF Inv, TypeRead
<1>2. /\ req.left \in Seq(Int) /\ req.right \in Seq(Int)
      /\ req.mode \in {"equality", "conjunction", "range", "dnf2"}
      /\ req.mode \in {"equality", "range"} => req.right = <<>>
  BY <1>1, RequestFields
<1>3. LeftRead \subseteq Elements(req.left)
      /\ RightRead \subseteq Elements(req.right)
  BY <1>1, <1>2 DEF LeftRead, RightRead, Elements
<1>4. req.mode \in {"equality", "range"} => RightRead = {}
  BY <1>1, <1>2 DEF RightRead
<1>5. Seen \subseteq Answer
  BY <1>2, <1>3, <1>4 DEF Seen, Answer
<1>6. IsFiniteSet(Answer)
  <2>1. ASSUME NEW s \in Seq(Int) PROVE IsFiniteSet(Elements(s))
    <3>1. IsFiniteSet(1 .. Len(s))
      BY FS_Interval
    <3>2. IsFiniteSet({s[n] : n \in 1 .. Len(s)})
      <4> DEFINE f == [n \in 1 .. Len(s) |-> s[n]]
                 T == {s[n] : n \in 1 .. Len(s)}
      <4>1. f \in Surjection(1 .. Len(s), T)
        BY DEF Surjection
      <4> QED
        BY <3>1, <4>1, FS_Surjection DEF ExistsSurjection
    <3> QED
      BY <3>2 DEF Elements
  <2>2. IsFiniteSet(Elements(req.left)) /\ IsFiniteSet(Elements(req.right))
    BY <1>2, <2>1
  <2>3. IsFiniteSet(Elements(req.left) \cup Elements(req.right))
    BY <2>2, FS_Union
  <2>4. Answer \subseteq Elements(req.left) \cup Elements(req.right)
    BY <1>2 DEF Answer
  <2> QED
    BY <2>3, <2>4, FS_Subset
<1>7. IsFiniteSet(Support)
  BY <1>6, FS_Subset DEF Support
<1> QED
  BY <1>5, <1>7 DEF Sent, Support

LEMMA AllSeen ==
  ASSUME Inv, ~More, Trusted
  PROVE  Seen = Answer /\ Sent = Support
<1>1. /\ req \in Request /\ i \in 0 .. Len(req.left)
      /\ j \in 0 .. Len(req.right) /\ ScanInv
  BY TypeParts DEF Inv, TypeRead
<1>2. /\ req.left \in Seq(Int) /\ req.right \in Seq(Int)
      /\ req.mode \in {"equality", "conjunction", "range", "dnf2"}
  BY <1>1, RequestFields
<1>3. CASE req.mode # "conjunction"
  <2>1. i = Len(req.left) /\ j = Len(req.right)
    BY <1>1, <1>2, <1>3 DEF More, MoreLeft, MoreRight
  <2>2. LeftRead = Elements(req.left) /\ RightRead = Elements(req.right)
    BY <2>1 DEF LeftRead, RightRead, Elements
  <2>3. req.mode \in {"equality", "range"} => Elements(req.right) = {}
    BY <1>1, RequestFields DEF Elements
  <2> QED
    BY <1>2, <1>3, <2>2, <2>3 DEF Seen, Answer, Sent, Support
<1>4. CASE req.mode = "conjunction"
  <2>1. Valid(req.left) /\ Valid(req.right)
    BY <1>4 DEF Trusted
  <2>2. Ordered(req.left, Len(req.left)) /\ Ordered(req.right, Len(req.right))
    BY <1>2, <2>1, ValidOrdered
  <2>3. ASSUME NEW p \in Seq(Int), NEW q \in Seq(Int), Valid(q),
               Ordered(p, Len(p)), Ordered(q, Len(q)),
               NEW n \in 0 .. Len(q), Ahead(q, n, p, Len(p)),
               NEW x \in Elements(p), x \in Elements(q)
        PROVE  x \in {q[k] : k \in 1 .. n}
    <3>1. PICK a \in 1 .. Len(p) : x = p[a]
      BY DEF Elements
    <3>2. PICK b \in 1 .. Len(q) : x = q[b]
      BY <2>3 DEF Elements
    <3>3. CASE b <= n
      BY <3>2, <3>3
    <3>4. CASE b > n
      <4>1. Len(p) > 0 /\ n < Len(q) /\ n \in 0 .. Len(q) - 1
        BY <3>1, <3>4
      <4>2. p[Len(p)] < q[n + 1]
        BY <2>3, <4>1 DEF Valid, Ahead
      <4>3. a = Len(p) \/ p[a] < p[Len(p)]
        BY <2>3, <4>1 DEF Ordered
      <4>4. b = n + 1 \/ q[n + 1] < q[b]
        BY <2>3, <3>4, <4>1 DEF Ordered
      <4>5. /\ p[a] \in Int /\ p[Len(p)] \in Int
            /\ q[n + 1] \in Int /\ q[b] \in Int
        BY <4>1
      <4>6. p[a] <= p[Len(p)] /\ q[n + 1] <= q[b]
        BY <4>3, <4>4, <4>5
      <4>7. p[a] < q[b]
        BY <4>2, <4>5, <4>6
      <4> QED
        BY <3>1, <3>2, <4>5, <4>7
    <3> QED
      BY <3>3, <3>4
  <2>4. Elements(req.left) \cap Elements(req.right) \subseteq Seen
    <3>1. CASE i = Len(req.left)
      <4>1. LeftRead = Elements(req.left)
        BY <3>1 DEF LeftRead, Elements
      <4>2. Elements(req.left) \cap Elements(req.right) \subseteq RightRead
        BY <1>1, <1>2, <2>1, <2>2, <2>3, <3>1 DEF ScanInv, RightRead
      <4> QED
        BY <1>4, <4>1, <4>2 DEF Seen
    <3>2. CASE j = Len(req.right)
      <4>1. RightRead = Elements(req.right)
        BY <3>2 DEF RightRead, Elements
      <4>2. Elements(req.left) \cap Elements(req.right) \subseteq LeftRead
        BY <1>1, <1>2, <2>1, <2>2, <2>3, <3>2 DEF ScanInv, LeftRead
      <4> QED
        BY <1>4, <4>1, <4>2 DEF Seen
    <3> QED
      BY <1>1, <1>2, <1>4, <3>1, <3>2 DEF More, MoreLeft, MoreRight
  <2> QED
    BY <1>4, <2>4, SeenOfAnswer DEF Answer, Sent, Support
<1> QED
  BY <1>3, <1>4
-----------------------------------------------------------------------------
(* The theorems.                                                           *)

(* Every variable keeps its type, the ring never holds more than it can,   *)
(* and a batch is never larger than what it holds.                         *)
THEOREM TypeCorrect == Spec => []TypeOK
<1>1. Inv => TypeOK
  BY DEF Inv
<1> QED
  BY <1>1, Invariance, PTL

(* The output of a merge that succeeds is the support, ascending, for      *)
(* postings of any content: only a conjunction needs valid ones.           *)
THEOREM MergeExact == Spec => []MergeIsExact
<1>1. Inv => MergeIsExact
  <2> SUFFICES ASSUME Inv, status = "ok", req.kernel = "merge", Trusted
               PROVE  /\ req.self \in Answer
                      /\ Elements(output) = Support
                      /\ Ascending(output)
    BY DEF MergeIsExact, Ascending
  <2>1. ~More /\ removed = 1
    BY DEF Inv, VerdictInv
  <2>2. Seen = Answer /\ Sent = Support
    BY <2>1, AllSeen
  <2>3. req.self \in Seen
    BY <2>1 DEF Inv, CountInv
  <2> QED
    BY <2>2, <2>3 DEF Inv, MergeInv
<1> QED
  BY <1>1, Invariance, PTL

(* What the fused kernel returns are the K nearest rows of the support,    *)
(* for any K, ring, batch and distances, and its tie is theirs.            *)
THEOREM FusedExact == Spec => []FusedIsExact
<1>1. Inv => FusedIsExact
  <2> SUFFICES ASSUME Inv, status = "ok", req.kernel = "fused"
               PROVE  /\ req.self \in Answer
                      /\ top = Least(Support)
                      /\ tie <=> CutoffTie(Support)
    BY DEF FusedIsExact
  <2>1. /\ ~More /\ removed = 1 /\ pending = <<>>
        /\ top = Least(best) /\ (tie <=> CutoffTie(best))
    BY DEF Inv, VerdictInv
  <2>2. req \in Request /\ Trusted
    BY TypeParts, RequestFields DEF Inv, TypeRead, Trusted
  <2>3. Seen = Answer /\ Sent = Support
    BY <2>1, <2>2, AllSeen
  <2>4. req.self \in Seen
    BY <2>1 DEF Inv, CountInv
  <2>5. BestOf(best, Support)
    <3>1. Elements(pending) = {}
      BY <2>1 DEF Elements
    <3>2. Scored = Support
      BY <2>3, <3>1 DEF Scored
    <3>3. BestOf(best, Scored)
      BY DEF Inv, FusedInv
    <3> QED
      BY <3>2, <3>3
  <2>6. Support \subseteq Id /\ IsFiniteSet(Support)
    BY <2>2, <2>3, SeenInId, TypeParts DEF Inv, TypeRead
  <2>7. Least(best) = Least(Support) /\ (CutoffTie(best) <=> CutoffTie(Support))
    BY <2>2, <2>5, <2>6, CutOfBest
  <2> QED
    BY <2>1, <2>3, <2>4, <2>7
<1> QED
  BY <1>1, Invariance, PTL

(* An overflow, a missing row, a support below K and a distance that is    *)
(* not finite are reported of a support that has them.                     *)
THEOREM RefusalsRight == Spec => []RefusalsAreRight
<1>1. Inv => RefusalsAreRight
  <2> SUFFICES ASSUME Inv PROVE RefusalsAreRight
    OBVIOUS
  <2>1. /\ req \in Request /\ req.capacity \in Nat
        /\ IsFiniteSet(Seen) /\ Cardinality(Seen) \in Nat
        /\ Cardinality(Sent) \in Nat
    BY TypeParts, SeenInId, RequestFields DEF Inv, TypeRead
  <2>2. /\ Sent \subseteq Support /\ IsFiniteSet(Support)
        /\ Cardinality(Support) \in Nat
    BY SeenOfAnswer, FS_CardinalityType
  <2>3. ASSUME status = "overflow"
        PROVE  Cardinality(Support) > req.capacity
    <3>1. Cardinality(Sent) > req.capacity
      BY <2>3 DEF Inv, VerdictInv
    <3>2. Cardinality(Sent) <= Cardinality(Support)
      BY <2>2, FS_Subset
    <3> QED
      BY <2>1, <2>2, <3>1, <3>2
  <2>4. ASSUME status = "missing_self", Trusted
        PROVE  req.self \notin Answer
    <3>1. ~More /\ removed # 1
      BY <2>4 DEF Inv, VerdictInv
    <3>2. Seen = Answer
      BY <2>4, <3>1, AllSeen
    <3> QED
      BY <3>1, <3>2 DEF Inv, CountInv
  <2>5. ASSUME status = "below_k"
        PROVE  Cardinality(Support) < K
    <3>1. req.kernel = "fused" /\ ~More /\ removed = 1 /\ unique < K + 1
      BY <2>5 DEF Inv, VerdictInv
    <3>2. Trusted
      BY <2>1, <3>1, RequestFields DEF Trusted
    <3>3. Sent = Support
      BY <3>1, <3>2, AllSeen
    <3>4. req.self \in Seen /\ unique = Cardinality(Seen)
      BY <3>1 DEF Inv, CountInv
    <3>5. Cardinality(Sent) = Cardinality(Seen) - 1
      BY <2>1, <3>4, FS_RemoveElement DEF Sent
    <3> QED
      BY <2>1, <3>1, <3>3, <3>4, <3>5, SizesAssumption
  <2>6. ASSUME status = "nonfinite"
        PROVE  \E id \in Support : req.distance[id] < 0
    BY <2>2, <2>6 DEF Inv, VerdictInv
  <2> QED
    BY <2>3, <2>4, <2>5, <2>6 DEF RefusalsAreRight
<1> QED
  BY <1>1, Invariance, PTL

(* The kernels' own checks of their output and of their counts are         *)
(* redundant: what they would report cannot happen.                        *)
THEOREM SelfChecksRedundant == Spec => []SelfChecksHold
<1>1. Inv => SelfChecksHold
  BY DEF Inv, VerdictInv
<1> QED
  BY <1>1, Invariance, PTL
=============================================================================
