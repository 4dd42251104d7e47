----------------------------- MODULE RetainedTop -----------------------------
(***************************************************************************)
(* The exact top-k kernels of the LAION base: one sorted support, or       *)
(* several sorted segments of which an id may be in more than one.  A call *)
(* c holds rows (the size of the base), the distances (a negative one is   *)
(* not finite), the ids, and for segments their offsets.  The kernels keep *)
(* one candidate more than the k they promise, so that a tie at the cutoff *)
(* can be seen.  Status codes are those of the source.                     *)
(***************************************************************************)
EXTENDS Integers, SequencesExt

CONSTANTS
  TopK,           (* kTopK, 10                                             *)
  Shortlist,      (* kShortlist, 64                                        *)
  MaxSegments     (* kMaxSegments, 64                                      *)

ASSUME TopAssumption ==
  /\ TopK \in Nat \ {0} /\ Shortlist \in Nat /\ TopK < Shortlist
  /\ MaxSegments \in Nat \ {0}

(* The members of a set of integers in order.                              *)
Ascending(S) ==
  [n \in 1 .. Cardinality(S) |->
     CHOOSE x \in S : Cardinality({y \in S : y < x}) = n - 1]

CandidateLess(c, x, y) ==
  c.dist[x] < c.dist[y] \/ (c.dist[x] = c.dist[y] /\ x < y)

NearestIds(c, S, n) ==
  {x \in S : Cardinality({y \in S : CandidateLess(c, y, x)}) < n}

(* A heap of at most `limit' candidates, the farthest on top.              *)
Retain(c, best, limit, x) ==
  LET top == CHOOSE y \in best : \A z \in best : ~CandidateLess(c, y, z)
  IN IF Cardinality(best) < limit THEN best \cup {x}
     ELSE IF CandidateLess(c, x, top) THEN (best \ {top}) \cup {x} ELSE best

Out(status, best, unique) ==
  [status |-> status, best |-> best, unique |-> unique]

OrderStatus(c, ids, n) ==
  IF ids[n] \notin 0 .. c.rows - 1 THEN 4
  ELSE IF n > 1 /\ ids[n] <= ids[n - 1] THEN 5 ELSE 0

Outer(c) == IF Len(c.ids) > c.rows THEN 2 ELSE IF Len(c.ids) < TopK THEN 3 ELSE 0

ScoreOne(c, limit, a, x) ==
  IF a.status # 0 THEN a
  ELSE IF c.dist[x] < 0 THEN [a EXCEPT !.status = 6]
  ELSE [a EXCEPT !.best = Retain(c, @, limit, x), !.unique = @ + 1]

(* Each id is checked just before it is scored.                            *)
ScanOne(c, limit, a, n) ==
  IF a.status # 0 THEN a
  ELSE IF OrderStatus(c, c.ids, n) # 0
  THEN [a EXCEPT !.status = OrderStatus(c, c.ids, n)]
  ELSE ScoreOne(c, limit, a, c.ids[n])

ScanAsRead(c, limit) ==
  LET a[n \in 0 .. Len(c.ids)] ==
        IF n = 0 THEN Out(Outer(c), {}, 0) ELSE ScanOne(c, limit, a[n - 1], n)
  IN a[Len(c.ids)]

(* The interleaved scorer checks every id before it scores the first.      *)
ScanValidated(c, ids, limit) ==
  LET wrong == {n \in 1 .. Len(ids) : OrderStatus(c, ids, n) # 0}
      a[n \in 0 .. Len(ids)] ==
        IF n = 0 THEN Out(0, {}, 0) ELSE ScoreOne(c, limit, a[n - 1], ids[n])
  IN IF wrong # {} THEN Out(OrderStatus(c, ids, Min(wrong)), {}, 0)
     ELSE a[Len(ids)]

Top64(c) == ScanAsRead(c, Shortlist)

RetainedTop11Legacy(c) == ScanAsRead(c, TopK + 1)

RetainedTop11(c) ==
  IF Outer(c) # 0 THEN Out(Outer(c), {}, 0)
  ELSE ScanValidated(c, c.ids, TopK + 1)

SortUnique(c) == Ascending(ToSet(c.ids))

-----------------------------------------------------------------------------
(* Segments: offsets[s] + 1 .. offsets[s + 1] are the places of segment s. *)

Segments(c) == 1 .. Len(c.offsets) - 1

SegmentStatus(c, s) ==
  LET from == c.offsets[s]
      to == c.offsets[s + 1]
      places == {n \in 1 .. Len(c.ids) : from < n /\ n <= to}
      wrong == {n \in places :
                  \/ c.ids[n] \notin 0 .. c.rows - 1
                  \/ n > from + 1 /\ c.ids[n] <= c.ids[n - 1]}
  IN IF from >= to \/ to > Len(c.ids) THEN 8
     ELSE IF wrong = {} THEN 0
     ELSE IF c.ids[Min(wrong)] \notin 0 .. c.rows - 1 THEN 4 ELSE 5

SegmentedOuter(c) ==
  LET bad == {s \in Segments(c) : SegmentStatus(c, s) # 0}
  IN IF c.ids = <<>> \/ Len(c.ids) > c.rows THEN 2
     ELSE IF Segments(c) = {} \/ Cardinality(Segments(c)) > MaxSegments THEN 7
     ELSE IF c.offsets[1] # 0 \/ Last(c.offsets) # Len(c.ids) THEN 8
     ELSE IF bad = {} THEN 0 ELSE SegmentStatus(c, Min(bad))

Open(c, a) == {s \in Segments(c) : a.at[s] < c.offsets[s + 1]}

Head1(c, a, s) == c.ids[a.at[s] + 1]

(* Faulty merge: only the first segment with the least head advances.      *)
SegmentStepOne(c, a) ==
  IF a.status # 0 \/ Open(c, a) = {} THEN a
  ELSE LET x == Min({Head1(c, a, s) : s \in Open(c, a)})
           first == Min({s \in Open(c, a) : Head1(c, a, s) = x})
       IN ScoreOne(c, TopK + 1, [a EXCEPT !.at[first] = @ + 1], x)

(* The least head is taken from every segment that shows it and is scored  *)
(* once.                                                                   *)
Past(c, a, x) ==
  [s \in Segments(c) |->
     IF s \in Open(c, a) /\ Head1(c, a, s) = x THEN a.at[s] + 1 ELSE a.at[s]]

SegmentStep(c, a) ==
  IF a.status # 0 \/ Open(c, a) = {} THEN a
  ELSE LET x == Min({Head1(c, a, s) : s \in Open(c, a)})
       IN ScoreOne(c, TopK + 1, [a EXCEPT !.at = Past(c, a, x)], x)

SegmentedTop11(c) ==
  LET start == [status |-> 0, best |-> {}, unique |-> 0,
                at |-> [s \in Segments(c) |-> c.offsets[s]]]
      a[n \in 0 .. Len(c.ids)] ==
        IF n = 0 THEN start ELSE SegmentStep(c, a[n - 1])
      end == a[Len(c.ids)]
  IN IF SegmentedOuter(c) # 0 THEN Out(SegmentedOuter(c), {}, 0)
     ELSE IF end.status # 0 THEN Out(end.status, {}, 0)
     ELSE IF end.unique < TopK THEN Out(3, {}, 0)
     ELSE Out(0, end.best, end.unique)

=============================================================================
