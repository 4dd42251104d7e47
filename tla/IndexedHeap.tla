---------------------------- MODULE IndexedHeap -----------------------------
(***************************************************************************)
(* The indexed-heap frontier: a sorted elite and two binary heaps, tail by *)
(* greatest and pending by least, with the position of every vertex in     *)
(* each of them, so that nothing stale ever stays in a heap.  Statuses are *)
(* stamped with the epoch of the query that wrote them and are reset on    *)
(* the first touch of a later one.  A call that would throw sets `failed'. *)
(***************************************************************************)
EXTENDS BeamOrder

CONSTANT EpochMax     (* last epoch before every stamp is cleared *)

ASSUME EpochAssumption == EpochMax \in Nat \ {0}

Untouched == [stamp |-> 0, visited |-> FALSE, elite |-> 0, tail |-> 0,
              pending |-> 0]

IndexedNew(nodes) ==
  [elite |-> <<>>, tail |-> <<>>, pending |-> <<>>, count |-> 0,
   status |-> [x \in nodes |-> Untouched], epoch |-> 0, visited |-> {},
   failed |-> FALSE]

(* Faulty reset: the epoch starts again over statuses that still bear it.  *)
IndexedResetKeeps(b) ==
  [b EXCEPT !.elite = <<>>, !.tail = <<>>, !.pending = <<>>, !.count = 0,
            !.visited = {},
            !.epoch = IF b.epoch + 1 > EpochMax THEN 1 ELSE @ + 1]

(* A query clears the arrays, but of the statuses only what epochs cannot  *)
(* tell apart.                                                             *)
IndexedReset(b) ==
  LET wraps == b.epoch + 1 > EpochMax IN
  [b EXCEPT !.elite = <<>>, !.tail = <<>>, !.pending = <<>>, !.count = 0,
            !.visited = {},
            !.epoch = IF wraps THEN 1 ELSE @ + 1,
            !.status = IF wraps
                       THEN [x \in DOMAIN @ |-> [@[x] EXCEPT !.stamp = 0,
                                                             !.visited = FALSE]]
                       ELSE @]

Touch(b, x) ==
  IF b.status[x].stamp = b.epoch THEN b
  ELSE [b EXCEPT !.status[x] = [Untouched EXCEPT !.stamp = b.epoch]]

(* Heap order: the tail has its farthest on top, pending its nearest.      *)
Above(q, f, x, y) == IF f = "tail" THEN Less(q, y, x) ELSE Less(q, x, y)

Put(b, f, n, x) == [b EXCEPT ![f][n] = x, !.status[x][f] = n]

Swap(b, f, m, n) == Put(Put(b, f, m, b[f][n]), f, n, b[f][m])

(* One turn of a sift: the entry of heap f at `at' and its parent, or the  *)
(* better of its children, change places if they are out of order.         *)
Rise(q, f, s) ==
  LET up == s.at \div 2 IN
  IF s.at = 1 \/ ~Above(q, f, s.heap[f][s.at], s.heap[f][up]) THEN s
  ELSE [heap |-> Swap(s.heap, f, up, s.at), at |-> up]

Sink(q, f, s) ==
  LET kids == {m \in {2 * s.at, 2 * s.at + 1} : m <= Len(s.heap[f])}
      best == CHOOSE m \in kids :
                \A o \in kids : ~Above(q, f, s.heap[f][o], s.heap[f][m])
  IN IF kids = {} \/ ~Above(q, f, s.heap[f][best], s.heap[f][s.at]) THEN s
     ELSE [heap |-> Swap(s.heap, f, s.at, best), at |-> best]

SiftUp(b, q, f, n) ==
  LET s[m \in 0 .. n] ==
        IF m = 0 THEN [heap |-> b, at |-> n] ELSE Rise(q, f, s[m - 1])
  IN s[n].heap

SiftDown(b, q, f, n) ==
  LET s[m \in 0 .. Len(b[f])] ==
        IF m = 0 THEN [heap |-> b, at |-> n] ELSE Sink(q, f, s[m - 1])
  IN s[Len(b[f])].heap

Push(b, q, f, x) ==
  IF b.status[x][f] # 0 THEN [b EXCEPT !.failed = TRUE]
  ELSE SiftUp([b EXCEPT ![f] = Append(@, x),
                        !.status[x][f] = Len(b[f]) + 1],
              q, f, Len(b[f]) + 1)

(* The last entry fills the gap and finds its place up or down.            *)
Extract(b, q, f, n) ==
  LET c == [b EXCEPT !.status[b[f][n]][f] = 0, ![f] = Front(@)]
      d == Put(c, f, n, Last(b[f]))
  IN IF n = Len(b[f]) THEN c
     ELSE IF n > 1 /\ Above(q, f, d[f][n], d[f][n \div 2])
     THEN SiftUp(d, q, f, n)
     ELSE SiftDown(d, q, f, n)

Reindex(b) ==
  [b EXCEPT !.status = [x \in DOMAIN @ |->
     IF x \in ToSet(b.elite)
     THEN [@[x] EXCEPT !.elite = CHOOSE n \in 1 .. Len(b.elite) :
                                   b.elite[n] = x]
     ELSE @[x]]]

IndexedEliteInsert(b, q, x) ==
  Reindex([b EXCEPT !.elite = InsertAt(@, Place(q, @, x), x)])

EliteRemoveLast(b) ==
  [b EXCEPT !.status[Last(b.elite)].elite = 0, !.elite = Front(@)]

InBeam(b, x) == b.status[x].elite # 0 \/ b.status[x].tail # 0

IndexedInsert(b0, q, x) ==
  LET b == Touch(b0, x)
      c == [b EXCEPT !.count = @ + 1]
      d == IF b.status[x].visited THEN c ELSE Push(c, q, "pending", x)
      elites == IF q.beam < q.k + 1 THEN q.beam ELSE q.k + 1
  IN IF InBeam(b, x) THEN b
     ELSE IF Len(b.elite) < elites THEN IndexedEliteInsert(d, q, x)
     ELSE IF Less(q, x, Last(b.elite))
     THEN IndexedEliteInsert(
            Push(EliteRemoveLast(d), q, "tail", Last(b.elite)), q, x)
     ELSE Push(d, q, "tail", x)

IndexedFarthest(b) == IF b.tail # <<>> THEN b.tail[1] ELSE Last(b.elite)

IndexedRemoveFarthest(b, q) ==
  LET x == IndexedFarthest(b)
      c == IF b.tail # <<>> THEN Extract(b, q, "tail", 1)
           ELSE EliteRemoveLast(b)
      d == IF c.status[x].pending # 0
           THEN Extract(c, q, "pending", c.status[x].pending) ELSE c
  IN IF InBeam(c, x) THEN [c EXCEPT !.failed = TRUE]
     ELSE [d EXCEPT !.count = @ - 1]

IndexedTrim(b, q, d) ==
  LET s[m \in 0 .. b.count] ==
        IF m = 0 THEN b
        ELSE LET c == s[m - 1] IN
             IF c.count = 0 \/ ~Beyond(q, d, IndexedFarthest(c)) THEN c
             ELSE IndexedRemoveFarthest(c, q)
  IN s[b.count]

IndexedMerge(b, q, candidates) ==
  LET c == FoldLeft(LAMBDA acc, x :
                      LET i == IndexedInsert(acc, q, x)
                      IN IF i.count > q.beam THEN IndexedRemoveFarthest(i, q)
                         ELSE i,
                    b, candidates)
  IN IF ~(q.metric /\ c.count > q.k) THEN c
     ELSE IF Len(c.elite) <= q.k THEN [c EXCEPT !.failed = TRUE]
     ELSE IndexedTrim(c, q, CutDistance(q, q.dist[c.elite[q.k + 1]]))

IndexedVisit(b0, q) ==
  LET x == b0.pending[1]
      b == Touch(b0, x)
      c == Extract(b, q, "pending", 1)
  IN IF ~InBeam(b, x) \/ b.status[x].visited \/ b.status[x].pending # 1
     THEN [b EXCEPT !.failed = TRUE]
     ELSE [c EXCEPT !.status[x].visited = TRUE, !.visited = @ \cup {x}]

IndexedCutoff(b, q) ==
  IF b.count < q.beam THEN Infinite ELSE q.dist[IndexedFarthest(b)]

IndexedActive(b) == ToSet(b.elite) \cup ToSet(b.tail)

IndexedStep(b, q, keep) ==
  LET v == IndexedVisit(b, q) IN
  IndexedMerge(v, q, Candidates(q, keep, IndexedCutoff(v, q)))

(* Positions, heap shape and pending set at the end of an operation.       *)
IndexedAgrees(b, q) ==
  /\ \A f \in {"elite", "tail", "pending"} :
       \A n \in 1 .. Len(b[f]) :
         b.status[b[f][n]].stamp = b.epoch /\ b.status[b[f][n]][f] = n
  /\ \A f \in {"tail", "pending"} : \A n \in 2 .. Len(b[f]) :
       ~Above(q, f, b[f][n], b[f][n \div 2])
  /\ ToSet(b.pending) = IndexedActive(b) \ b.visited
  /\ b.count = Len(b.elite) + Len(b.tail)

=============================================================================
