--------------------------- MODULE BlockCompositor ---------------------------
(***************************************************************************)
(* The two fixed-block compositors.  A plan names segments of stored       *)
(* objects, each with or without an interval over an attribute; the        *)
(* objects are decoded once into a scratch array, the rows each segment    *)
(* admits are merged through a heap of the segments' heads, the query's    *)
(* own row is taken out, and batches of the rest are scored.  The first    *)
(* compositor is given its segments; the packed one finds them through a   *)
(* route table and a rank directory.  One step is one turn of a loop;      *)
(* statuses are those of the source.                                       *)
(*                                                                         *)
(* A stored object is a sequence of ids, a value of an attribute that is   *)
(* not valid or not finite is Invalid.  Checks of pointers and of the      *)
(* lengths of byte arrays are left out.                                    *)
(***************************************************************************)
EXTENDS RetainedTop

CONSTANTS
  MaxDecodedRows,   (* kMaxDecodedRows, 14 044                             *)
  BatchIds,         (* kBatchIds, 64                                       *)
  DirectoryBits     (* bits of a directory word, 64                        *)

ASSUME CompositorAssumption ==
  MaxDecodedRows \in Nat /\ BatchIds \in Nat \ {0} /\ DirectoryBits \in Nat \ {0}

Invalid == -1

FirstOf(s) == {n \in 1 .. Len(s) : \A m \in 1 .. n - 1 : s[m] # s[n]}

(* Objects in the order in which segments name them first.                 *)
Unique(s) ==
  LET n == Ascending(FirstOf(s)) IN [i \in 1 .. Len(n) |-> s[n[i]]]

Concat(c, objects) ==
  FoldLeft(LAMBDA a, o : a \o c.objects[o], <<>>, objects)

IntervalIsWrong(c, f) ==
  f # <<>> /\ (f.attribute \notin DOMAIN c.values \/ ~(f.lower < f.upper))

RowsOf(c, objects) ==
  FoldLeft(LAMBDA a, o : a + Len(c.objects[o]), 0, objects)

(* Decoded input of the segments: their objects' ids one after another.    *)
Decoded(c, segments) ==
  LET named == [s \in 1 .. Len(segments) |-> segments[s].object]
      objects == Unique(named)
      place(s) == CHOOSE n \in 1 .. Len(objects) : objects[n] = named[s]
      start(s) == RowsOf(c, SubSeq(objects, 1, place(s) - 1))
  IN [status |-> 0, scratch |-> Concat(c, objects),
      start |-> [s \in 1 .. Len(segments) |-> start(s)],
      end |-> [s \in 1 .. Len(segments) |->
                 start(s) + Len(c.objects[named[s]])],
      filter |-> [s \in 1 .. Len(segments) |-> segments[s].filter]]

Refused(status) == [status |-> status]

TooLarge(c, objects) ==
  LET total == RowsOf(c, objects) IN
  total > MaxDecodedRows \/ total = 0 \/ total > c.capacity

FixedPlan(c) ==
  LET named == [s \in 1 .. Len(c.segments) |-> c.segments[s].object]
      status(s) == IF named[s] \notin DOMAIN c.objects THEN 8
                   ELSE IF IntervalIsWrong(c, c.segments[s].filter) THEN 9
                   ELSE 0
      wrong == {s \in 1 .. Len(c.segments) : status(s) # 0}
  IN IF c.segments = <<>> \/ Len(c.segments) > MaxSegments THEN Refused(7)
     ELSE IF wrong # {} THEN Refused(status(Min(wrong)))
     ELSE IF TooLarge(c, Unique(named)) THEN Refused(2)
     ELSE Decoded(c, c.segments)

-----------------------------------------------------------------------------
(* Packed owners: routes in the order of their plans, positions and flags  *)
(* of all segments, one or two clauses of each route, and a directory of   *)
(* the positions that are stored, with the rank at the start of each word. *)

LowerBound(routes, plan) ==
  LET Between[low, high \in 0 .. Len(routes)] ==
        LET middle == low + (high - low) \div 2 IN
        IF low >= high THEN low
        ELSE IF routes[middle + 1].plan < plan THEN Between[middle + 1, high]
        ELSE Between[low, middle]
  IN Between[0, Len(routes)]

(* Object of a logical position, 0 if it is not stored.                    *)
Resolve(d, position) ==
  LET word == position \div DirectoryBits
      prior == {p \in d.selected : p \div DirectoryBits = word /\ p < position}
      ordinal == d.prefix[word + 1] + Cardinality(prior)
  IN IF position \notin d.selected \/ ordinal >= d.count THEN 0
     ELSE ordinal + 1

RouteIndex(c) == LowerBound(c.routes, c.plan)

RouteSegments(c) ==
  LET r == RouteIndex(c) + 1
      begin == c.routes[r].begin
      end == IF r < Len(c.routes) THEN c.routes[r + 1].begin
             ELSE Len(c.positions)
  IN [n \in 1 .. end - begin |-> begin + n]

SegmentFilter(c, n) ==
  IF c.flags[n] = 0 THEN <<>>
  ELSE c.clauses[RouteIndex(c) * c.perRoute + c.flags[n]]

(* Segments are looked at one after another, with the rows decoded so far. *)
PackedSegment(c, a, n) ==
  LET position == c.positions[n]
      object == Resolve(c.directory, position)
      known == \E s \in 1 .. Len(a.segments) :
                 a.segments[s].position = position
      rows == a.rows + (IF known THEN 0 ELSE Len(c.objects[object]))
  IN IF a.status # 0 THEN a
     ELSE IF c.flags[n] > c.perRoute \/ IntervalIsWrong(c, SegmentFilter(c, n))
     THEN [a EXCEPT !.status = 9]
     ELSE IF object = 0 THEN [a EXCEPT !.status = 8]
     ELSE IF rows > MaxDecodedRows THEN [a EXCEPT !.status = 2]
     ELSE [a EXCEPT !.rows = rows,
                    !.segments = Append(@, [position |-> position,
                                            object |-> object,
                                            filter |-> SegmentFilter(c, n)])]

PackedPlan(c) ==
  LET r == RouteIndex(c) + 1
      begin == c.routes[r].begin
      end == IF r < Len(c.routes) THEN c.routes[r + 1].begin
             ELSE Len(c.positions)
      a == FoldLeft(LAMBDA b, n : PackedSegment(c, b, n),
                    [status |-> 0, rows |-> 0, segments |-> <<>>],
                    RouteSegments(c))
  IN IF RouteIndex(c) = Len(c.routes) \/ c.routes[r].plan # c.plan
     THEN Refused(13)
     ELSE IF begin >= end \/ end > Len(c.positions) \/ end - begin > MaxSegments
     THEN Refused(7)
     ELSE IF a.status # 0 THEN Refused(a.status)
     ELSE IF a.rows = 0 \/ a.rows > c.capacity THEN Refused(2)
     ELSE Decoded(c, a.segments)

-----------------------------------------------------------------------------
(* The merge.                                                              *)

Admits(c, f, id) ==
  \/ f = <<>>
  \/ LET v == c.values[f.attribute][id]
     IN v # Invalid /\ f.lower <= v /\ v < f.upper

(* Rows of a segment up to the next it admits; out of range and out of     *)
(* order rows end the call.                                                *)
Advance(c, p, st, s) ==
  LET places == {n \in 1 .. Len(p.scratch) : st.at[s] < n /\ n <= p.end[s]}
      status(n) == IF p.scratch[n] \notin 0 .. c.rows - 1 THEN 4
                   ELSE IF n > p.start[s] + 1 /\ p.scratch[n] <= p.scratch[n - 1]
                   THEN 5 ELSE 0
      stops == {n \in places : status(n) # 0
                               \/ Admits(c, p.filter[s], p.scratch[n])}
      last == IF stops = {} THEN p.end[s] ELSE Min(stops)
      failed == stops # {} /\ status(last) # 0
      passed == IF failed THEN last - 1 ELSE last
  IN [st EXCEPT
        !.status = IF failed THEN status(last) ELSE @,
        !.checks = IF p.filter[s] = <<>> THEN @ ELSE @ + passed - st.at[s],
        !.at[s] = last,
        !.live[s] = stops # {},
        !.current[s] = IF stops # {} THEN p.scratch[last] ELSE @]

HeadLess(st, r, s) ==
  st.current[r] < st.current[s] \/ (st.current[r] = st.current[s] /\ r < s)

Exchange(h, m, n) == [h EXCEPT ![m] = h[n], ![n] = h[m]]

(* The last entry rises, or the first sinks, to its place.                 *)
Rise(st, heap) ==
  LET From[h \in Seq(DOMAIN st.at), n \in Nat] ==
        IF n = 1 \/ ~HeadLess(st, h[n], h[n \div 2]) THEN h
        ELSE From[Exchange(h, n, n \div 2), n \div 2]
  IN From[heap, Len(heap)]

Sink(st, heap) ==
  LET Smaller(h, n) ==
        IF 2 * n + 1 <= Len(h) /\ HeadLess(st, h[2 * n + 1], h[2 * n])
        THEN 2 * n + 1 ELSE 2 * n
      From[h \in Seq(DOMAIN st.at), n \in Nat] ==
        IF 2 * n > Len(h) \/ ~HeadLess(st, h[Smaller(h, n)], h[n]) THEN h
        ELSE From[Exchange(h, n, Smaller(h, n)), Smaller(h, n)]
  IN From[heap, 1]

HeapPush(st, s) ==
  [st EXCEPT !.heap = Rise(st, Append(@, s))]

(* Faulty pop: the last entry is left on top.                              *)
HeapPopTop(st) ==
  IF Len(st.heap) = 1 THEN [st EXCEPT !.heap = <<>>]
  ELSE [st EXCEPT !.heap = [Front(@) EXCEPT ![1] = Last(st.heap)]]

HeapPop(st) ==
  IF Len(st.heap) = 1 THEN [st EXCEPT !.heap = <<>>]
  ELSE [st EXCEPT !.heap = Sink(st, [Front(@) EXCEPT ![1] = Last(st.heap)])]

AdvanceAndPush(c, p, st, s) ==
  LET t == Advance(c, p, st, s)
  IN IF t.status = 0 /\ t.live[s] THEN HeapPush(t, s) ELSE t

TakeTop(c, p, st, id) ==
  IF st.status # 0 \/ st.heap = <<>> \/ st.current[st.heap[1]] # id THEN st
  ELSE AdvanceAndPush(c, p, [HeapPop(st) EXCEPT !.equal = @ + 1], st.heap[1])

(* A segment shows an id once, so the loop ends with the heap's length.    *)
TakeEqual(c, p, st, id) ==
  FoldLeft(LAMBDA t, s : TakeTop(c, p, t, id), st, st.heap)

ScoreBatch(c, st) ==
  LET a == FoldLeft(LAMBDA b, x : ScoreOne(c, TopK, b, x),
                    [status |-> 0, best |-> st.best, unique |-> 0], st.batch)
      wrong == {n \in 1 .. Len(st.batch) : OrderStatus(c, st.batch, n) # 0}
  IN IF wrong # {}
     THEN [st EXCEPT !.status = OrderStatus(c, st.batch, Min(wrong))]
     ELSE [st EXCEPT !.status = a.status, !.best = a.best, !.batch = <<>>]

Started(p) ==
  [pc |-> "prime", status |-> 0, at |-> p.start,
   current |-> [s \in DOMAIN p.start |-> 0],
   live |-> [s \in DOMAIN p.start |-> FALSE],
   heap |-> <<>>, equal |-> 0, batch |-> <<>>, best |-> {},
   before |-> 0, after |-> 0, selfs |-> 0, checks |-> 0]

(* Every segment's first head.                                             *)
Prime(c, p, st) ==
  [FoldLeft(LAMBDA t, s : IF t.status # 0 THEN t ELSE AdvanceAndPush(c, p, t, s),
            st, [s \in 1 .. Len(p.start) |-> s])
     EXCEPT !.pc = "merge"]

(* The least head, from every segment that shows it.                       *)
MergeNext(c, p, st) ==
  LET id == st.current[st.heap[1]]
      t == TakeEqual(c, p, [st EXCEPT !.equal = 0], id)
      u == [t EXCEPT !.before = @ + 1]
      v == [u EXCEPT !.batch = Append(@, id), !.after = @ + 1]
  IN IF t.status # 0 THEN t
     ELSE IF id = c.self THEN [u EXCEPT !.selfs = @ + t.equal]
     ELSE IF Len(v.batch) = BatchIds THEN ScoreBatch(c, v) ELSE v

Finish(c, st) ==
  LET t == IF st.batch = <<>> THEN st ELSE ScoreBatch(c, st)
      status == IF st.selfs = 0 \/ st.before # st.after + 1 THEN 10
                ELSE IF t.status # 0 THEN t.status
                ELSE IF t.after < TopK \/ Cardinality(t.best) # TopK THEN 3
                ELSE 0
  IN [t EXCEPT !.pc = "done", !.status = status]

CompositorStep(c, p, st) ==
  IF st.status # 0 THEN [st EXCEPT !.pc = "done"]
  ELSE CASE st.pc = "prime" -> Prime(c, p, st)
         [] st.pc = "merge" /\ st.heap # <<>> -> MergeNext(c, p, st)
         [] st.pc = "merge" /\ st.heap = <<>> -> Finish(c, st)

=============================================================================
