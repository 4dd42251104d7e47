---------------------------- MODULE LayoutEngines ----------------------------
(***************************************************************************)
(* The engines that answer a predicate query over a labelled base of the   *)
(* predicate cube experiments: the mixed runner's fragments (whose ids or  *)
(* packed vectors a selection holds), the pair-major base with residual    *)
(* ranges, the cube, its range scan X3, and the two ablations of X3.       *)
(*                                                                         *)
(* A query q holds its family, the labels a, b, c, d, the range lo..hi,    *)
(* and near and far: the distance of every row over the first and over the *)
(* last half of the dimensions.  A vector is named by its row, so a packed *)
(* copy of a fragment's vectors is that fragment's ids.                    *)
(***************************************************************************)
EXTENDS PredicateLayouts

CONSTANTS
  Widths,         (* {1, 2, 4, 8}: the widths of the dyadic ranges         *)
  VectorBytes,    (* D, bytes of a vector                                  *)
  SeedRows,       (* X3_SEED_ROWS                                          *)
  BatchRows       (* X3_BATCH_ROWS                                         *)

ASSUME LayoutAssumption ==
  /\ Widths \subseteq Nat \ {0} /\ 1 \in Widths
  /\ VectorBytes \in Nat \ {0} /\ BatchRows \in Nat \ {0}
  /\ SeedRows \in Nat /\ SeedRows >= TopK

DistanceTo(q) == [x \in DOMAIN q.near |-> q.near[x] + q.far[x]]

MatchesQuery(d, q, x) ==
  CASE q.family = "equality" -> d.a[x] = q.a
    [] q.family = "conjunction" -> d.a[x] = q.a /\ d.b[x] = q.b
    [] q.family = "range" -> d.bin[x] \in q.lo .. q.hi
    [] q.family = "dnf" -> \/ (d.a[x] = q.a /\ d.b[x] = q.b)
                           \/ (d.a[x] = q.c /\ d.b[x] = q.d)

APost(d, a) == Ascending({x \in BaseIds(d) : d.a[x] = a})

BPost(d, b) == Ascending({x \in BaseIds(d) : d.b[x] = b})

PairPost(d, p) == Ascending({x \in BaseIds(d) : PairIndex(d, x) = p})

RangePost(d, w, start) ==
  Ascending({x \in BaseIds(d) : d.bin[x] \in start .. start + w - 1})

(* The concatenated postings of the query, sorted and made unique.         *)
SupportOf(d, q) ==
  CASE q.family = "equality" -> APost(d, q.a)
    [] q.family = "conjunction" -> PairPost(d, q.a * d.bs + q.b)
    [] q.family = "range" -> RangePost(d, q.hi - q.lo + 1, q.lo)
    [] q.family = "dnf" ->
         Ascending(ToSet(PairPost(d, q.a * d.bs + q.b))
                     \cup ToSet(PairPost(d, q.c * d.bs + q.d)))

ScanIds(q, ids) ==
  IF Len(ids) < TopK THEN Refusal
  ELSE LET dist == DistanceTo(q)
           heap == FoldLeft(LAMBDA h, x : ConsiderHit(h, TopK, <<dist[x], x>>),
                            <<>>, ids)
       IN [n \in DOMAIN heap |-> heap[n][2]]

IndependentOracle(d, q) == ScanIds(q, SupportOf(d, q))

MergeResults(q, parts) ==
  IF \E n \in DOMAIN parts : parts[n] = Refusal THEN Refusal
  ELSE ScanIds(q, Ascending(UNION {ToSet(parts[n]) : n \in DOMAIN parts}))

-----------------------------------------------------------------------------
(* Fragments: an A label, a pair of labels, a dyadic range.                *)

AKey(a) == <<"A", a>>

PairKey(p) == <<"P", p>>

RangeKey(w, start) == <<"R", w, start>>

IsPair(k) == k[1] = "P"

IsRange(k) == k[1] = "R"

Dyadic(d) == {r \in Widths \X (0 .. d.bins - 1) : r[2] % r[1] = 0}

Catalog(d) ==
  {AKey(a) : a \in 0 .. d.as - 1} \cup {PairKey(p) : p \in 0 .. PairCells(d) - 1}
    \cup {RangeKey(r[1], r[2]) : r \in Dyadic(d)}

IdsOf(d, k) ==
  CASE k[1] = "A" -> APost(d, k[2])
    [] k[1] = "P" -> PairPost(d, k[2])
    [] k[1] = "R" -> RangePost(d, k[2], k[3])

FragmentKeys(d, q) ==
  CASE q.family = "equality" -> {AKey(q.a)}
    [] q.family = "conjunction" -> {PairKey(q.a * d.bs + q.b)}
    [] q.family = "range" ->
         {RangeKey(r[1], r[2]) : r \in
            {r \in Dyadic(d) : q.lo <= r[2] /\ r[2] + r[1] - 1 <= q.hi}}
    [] q.family = "dnf" ->
         {PairKey(q.a * d.bs + q.b), PairKey(q.c * d.bs + q.d)}

Held(s, k) == k \in s.ids \cup s.packed

FragmentCost(d, k, s) ==
  LET n == Len(IdsOf(d, k)) IN
  IF k \in s.packed THEN 3500 + 8 * n
  ELSE IF IsPair(k) /\ k \notin s.ids
  THEN 5000 + 4 * (Len(APost(d, k[2] \div d.bs)) + Len(BPost(d, k[2] % d.bs)))
         + 16 * n
  ELSE 3500 + 16 * n

(* The cheapest cover of lo..hi by held dyadic ranges and by single bins:  *)
(* among covers of one cost the shortest, then the narrowest first part.   *)
Cover(d, lo, hi, s) ==
  LET Ahead(x, y) ==
        \/ x.cost < y.cost
        \/ /\ x.cost = y.cost
           /\ \/ Len(x.keys) < Len(y.keys)
              \/ Len(x.keys) = Len(y.keys) /\ x.keys[1][2] < y.keys[1][2]
      (* best[w] is the best cover of pos + w .. hi.                       *)
      From(best, pos) ==
        LET covers ==
              {[cost |-> FragmentCost(d, RangeKey(w, pos), s) + best[w].cost
                           + (IF best[w].keys = <<>> THEN 0 ELSE 1500),
                keys |-> <<RangeKey(w, pos)>> \o best[w].keys] :
                 w \in {w \in Widths : /\ pos % w = 0
                                      /\ pos + w - 1 <= hi
                                      /\ \/ w = 1
                                         \/ Held(s, RangeKey(w, pos))}}
        IN <<CHOOSE x \in covers : \A y \in covers : ~Ahead(y, x)>> \o best
  IN FoldLeft(From, <<[cost |-> 0, keys |-> <<>>]>>,
              [n \in 1 .. hi - lo + 1 |-> hi - n + 1])[1]

QueryCost(d, q, s) ==
  LET pair(a, b) == FragmentCost(d, PairKey(a * d.bs + b), s) IN
  CASE q.family = "equality" -> FragmentCost(d, AKey(q.a), s)
    [] q.family = "conjunction" -> pair(q.a, q.b)
    [] q.family = "range" -> Cover(d, q.lo, q.hi, s).cost
    [] q.family = "dnf" -> pair(q.a, q.b) + pair(q.c, q.d) + 1500

-----------------------------------------------------------------------------
(* Engines.                                                                *)

(* The ids of a pair: those held, or else the merge of the two postings.   *)
PairIds(d, a, b, held) ==
  IF held THEN PairPost(d, a * d.bs + b)
  ELSE SelectSeq(APost(d, a), LAMBDA x : x \in ToSet(BPost(d, b)))

MixedQuery(d, q, s) ==
  LET pair(a, b) ==
        ScanIds(q, PairIds(d, a, b, PairKey(a * d.bs + b) \in s.ids))
  IN CASE q.family = "equality" -> ScanIds(q, APost(d, q.a))
       [] q.family = "conjunction" -> pair(q.a, q.b)
       [] q.family = "range" ->
            LET keys == Cover(d, q.lo, q.hi, s).keys IN
            MergeResults(q, [n \in DOMAIN keys |-> ScanIds(q, IdsOf(d, keys[n]))])
       [] q.family = "dnf" -> MergeResults(q, <<pair(q.a, q.b), pair(q.c, q.d)>>)

(* Rows are scored four at a time and the rest at the end; every row fed   *)
(* counts, even one fed twice.                                             *)
FourWayTop10(q, fed) ==
  LET dist == DistanceTo(q)
      Consider(h, x) == ConsiderHit(h, TopK, <<dist[x], x>>)
      end == FoldLeft(LAMBDA l, x :
               IF Len(l.pending) = 3
               THEN [pending |-> <<>>,
                     heap |-> FoldLeft(Consider, l.heap, Append(l.pending, x))]
               ELSE [l EXCEPT !.pending = Append(@, x)],
               [pending |-> <<>>, heap |-> <<>>], fed)
      heap == FoldLeft(Consider, end.heap, end.pending)
  IN IF Len(heap) # TopK THEN Refusal ELSE [n \in 1 .. TopK |-> heap[n][2]]

Concatenated(parts) == FoldLeft(LAMBDA a, p : a \o p, <<>>, parts)

Twice(q) == q.a = q.c /\ q.b = q.d

CEngine(d, q, s) ==
  LET pair(a, b) == PairIds(d, a, b, Held(s, PairKey(a * d.bs + b))) IN
  FourWayTop10(q,
    CASE q.family = "equality" -> APost(d, q.a)
      [] q.family = "conjunction" -> pair(q.a, q.b)
      [] q.family = "range" ->
           LET keys == Cover(d, q.lo, q.hi, s).keys
           IN Concatenated([n \in DOMAIN keys |-> IdsOf(d, keys[n])])
      [] q.family = "dnf" ->
           pair(q.a, q.b) \o (IF Twice(q) THEN <<>> ELSE pair(q.c, q.d)))

(* Vectors are found by position; a row is reported by the id at it.       *)
AtPositions(l, ps) == [n \in DOMAIN ps |-> l.toGlobal[ps[n]]]

PEngine(d, q, s, base) ==
  LET range(k) == IF k \in s.packed THEN IdsOf(d, k)
                  ELSE [n \in DOMAIN IdsOf(d, k) |->
                          base.vectors[base.toPos[IdsOf(d, k)[n]]]]
  IN FourWayTop10(q,
       CASE q.family = "equality" -> AtPositions(base, PairASlice(d, base, q.a))
         [] q.family = "conjunction" ->
              AtPositions(base, PairSlice(d, base, q.a, q.b))
         [] q.family = "range" ->
              LET keys == Cover(d, q.lo, q.hi, s).keys
              IN Concatenated([n \in DOMAIN keys |-> range(keys[n])])
         [] q.family = "dnf" ->
              AtPositions(base, PairSlice(d, base, q.a, q.b)
                \o (IF Twice(q) THEN <<>> ELSE PairSlice(d, base, q.c, q.d))))

XSegments(d, q, cube) ==
  LET pair(bin, p) == CellSlice(d, cube, bin, p \div d.bs, p % d.bs)
      first == Min({q.a * d.bs + q.b, q.c * d.bs + q.d})
      second == Max({q.a * d.bs + q.b, q.c * d.bs + q.d})
  IN CASE q.family = "range" -> <<RangeSlice(d, cube, q.lo, q.hi)>>
       [] q.family = "equality" ->
            [n \in 1 .. d.bins |-> CubeASlice(d, cube, n - 1, q.a)]
       [] q.family = "conjunction" ->
            [n \in 1 .. d.bins |-> CellSlice(d, cube, n - 1, q.a, q.b)]
       [] q.family = "dnf" ->
            [n \in 1 .. d.bins |-> pair(n - 1, first) \o pair(n - 1, second)]

XEngine(d, q, cube) ==
  FourWayTop10(q, AtPositions(cube, Concatenated(XSegments(d, q, cube))))

(* Faulty scan: the rows that tie with the threshold are dropped too.      *)
SurvivesBelow(partial, threshold) == partial < threshold

(* Ids do not ascend within a range of the cube: a row that only ties with *)
(* the threshold may still win by its id.                                  *)
Survives(partial, threshold) == partial <= threshold

(* A seed is scored in full; then, batch by batch, the rows whose first    *)
(* half is not already beyond the batch's threshold.                       *)
X3Scan(q, fed) ==
  LET Consider(h, x) == ConsiderHit(h, TopK, <<DistanceTo(q)[x], x>>)
      seeds == Min({SeedRows, Len(fed)})
      batches == (Len(fed) - seeds + BatchRows - 1) \div BatchRows
      Batch(h, n) ==
        LET from == seeds + (n - 1) * BatchRows + 1
            rows == SubSeq(fed, from, Min({Len(fed), from + BatchRows - 1}))
            threshold == h[TopK][1]
        IN FoldLeft(Consider, h,
                    SelectSeq(rows, LAMBDA x : Survives(q.near[x], threshold)))
      heap == FoldLeft(Batch, FoldLeft(Consider, <<>>, SubSeq(fed, 1, seeds)),
                       [n \in 1 .. batches |-> n])
  IN IF Len(fed) < TopK THEN Refusal ELSE [n \in 1 .. TopK |-> heap[n][2]]

X3Engine(d, q, cube) ==
  IF q.family = "range"
  THEN X3Scan(q, AtPositions(cube, RangeSlice(d, cube, q.lo, q.hi)))
  ELSE XEngine(d, q, cube)

(* Without the directory of offsets: every position is tried.              *)
SupportOffEngine(d, q, cube) ==
  LET fed == SelectSeq(AtPositions(cube, [n \in 1 .. d.rows |-> n - 1]),
                       LAMBDA x : MatchesQuery(d, q, x))
  IN IF q.family = "range" THEN X3Scan(q, fed) ELSE FourWayTop10(q, fed)

(* Without the physical order: the support's rows are gathered.            *)
LayoutOffEngine(d, q, cube) ==
  LET ids == SupportOf(d, q)
      fed == [n \in DOMAIN ids |-> cube.vectors[cube.toPos[ids[n]]]]
  IN IF q.family = "range" THEN X3Scan(q, fed) ELSE FourWayTop10(q, fed)

=============================================================================
