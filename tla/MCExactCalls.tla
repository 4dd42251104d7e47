--------------------------- MODULE MCExactCalls ----------------------------
(***************************************************************************)
(* Calls for TLC: pairs of postings over six rows, one of them longer than *)
(* its offsets can name; supports in and out of order over five rows; every *)
(* support of nine rows with every bit of its encoding flipped; plans of up *)
(* to three segments over overlapping objects; ten rows with two labels of *)
(* two values and four bins, some of them thin; ten blocks of an ordered   *)
(* attribute; three stages with what may be left of them; two passes of    *)
(* two attempts in one directory; and seven rows with two tokens, in data, *)
(* engines and measurements that pass and that do not.                     *)
(***************************************************************************)
EXTENDS ExactCalls

Sorted(S) == Ascending(S)

Ids == 0 .. 5

Bases ==
  {[x \in Ids |-> [g \in 1 .. 6 |-> (a * x + b * g) % m]] :
     a \in {1, 2}, b \in {1, 3}, m \in {2, 5}}

PairCalls ==
  {[primary |-> Sorted(P), secondary |-> Sorted(S), bitmap |-> 1 \in S,
    base |-> base, order |-> <<4, 6, 2, 1, 5, 3>>, k |-> k] :
     P \in SUBSET Ids \ {{}}, S \in {Ids, {0, 2, 3, 5}, {1, 2, 4}},
     base \in Bases, k \in {1, 2}}

-----------------------------------------------------------------------------

TopDists ==
  {[x \in 0 .. 8 |-> (a * x + 1) % m] : a \in {1, 2}, m \in {2, 5}}
    \cup {[x \in 0 .. 8 |-> IF x = 3 THEN -1 ELSE 5 - x]}

TopSupports ==
  {<<0, 1, 2, 3, 4>>, <<0, 1, 2, 4>>, <<0, 2, 1, 4>>, <<1, 3, 1, 3>>, <<2, 2>>,
   <<0, 1, 0, 2, 4>>, <<0, 4, 1, 4, 2>>, <<1, 2, 5>>, <<2, 1, 2, 4>>, <<3>>,
   <<0, 1, 0, 1, 0>>, <<0, 1, 2, 3, 4, 4>>}

TopOffsets ==
  {<<0, 5>>, <<0, 4>>, <<0, 2, 4>>, <<0, 2, 5>>, <<0, 1, 3, 5>>, <<0, 2, 2, 4>>,
   <<0, 1, 2>>, <<0, 3>>, <<1, 4>>, <<0>>, <<0, 2, 4, 5>>, <<0, 1, 2, 3, 4>>}

TopCalls ==
  {[rows |-> 5, dist |-> d, ids |-> ids, offsets |-> o] :
     d \in TopDists, ids \in TopSupports, o \in TopOffsets}

-----------------------------------------------------------------------------

Bits(o) == 0 .. WordBits * Len(o.words) - 1

Flipped(words, p) ==
  [words EXCEPT ![p \div WordBits + 1] =
     IF Bit(words, p) = 1 THEN @ - 2 ^ (p % WordBits) ELSE @ + 2 ^ (p % WordBits)]

Object(o, rows, words) ==
  [rows |-> rows, lower |-> o.lower, high |-> o.high, words |-> words]

Objects(ids) ==
  LET o == Encode(ids) IN
  {Object(o, o.rows + n, o.words) : n \in -1 .. 1}
    \cup {Object(o, o.rows, Flipped(o.words, p)) : p \in Bits(o)}

CodecDist == [x \in 0 .. 8 |-> (5 * x) % 4]

CodecCall(ids, o) ==
  [rows |-> 9, dist |-> CodecDist, ids |-> ids, object |-> o,
   self |-> 4, other |-> <<0, 4, 7>>]

CodecCalls ==
  UNION {LET ids == Sorted(S) IN {CodecCall(ids, o) : o \in Objects(ids)} :
           S \in SUBSET (0 .. 8) \ {{}}}

-----------------------------------------------------------------------------

CallObjects == << <<0, 2, 3, 6>>, <<1, 2, 4>>, <<2, 3, 5>>, <<3, 2, 7>> >>

Values == << <<0, 3, 5, Invalid, 2, 7, 5, 1>>, <<4, 4, 2, 6, 6, 0, 3, 1>> >>

Over8(s) == [x \in 0 .. 7 |-> s[x + 1]]

Filters ==
  << [attribute |-> 1, lower |-> 0, upper |-> 6],
     [attribute |-> 2, lower |-> 2, upper |-> 7] >>

(* Objects 1 to 4 are stored at logical positions 1, 2, 5 and 6 of 8.      *)
Places == <<1, 2, 5, 6>>

Directory == [selected |-> ToSet(Places), prefix |-> <<0, 1, 2, 3>>, count |-> 4]

Segment(o, f) ==
  [object |-> o, filter |-> IF f = 0 THEN <<>> ELSE Filters[f]]

Plans ==
  {<<a>> : a \in (1 .. 4) \X (0 .. 2)}
    \cup {<<a, b>> : a \in (1 .. 3) \X (0 .. 2), b \in (1 .. 3) \X (0 .. 2)}
    \cup {<<a, b, c>> : a \in {<<1, 0>>, <<2, 0>>, <<1, 2>>},
                         b \in (1 .. 3) \X (0 .. 1),
                         c \in {<<1, 0>>, <<3, 0>>, <<3, 1>>, <<4, 0>>}}

CompositorDists ==
  {[x \in 0 .. 7 |-> (3 * x) % 4],
   [x \in 0 .. 7 |-> IF x = 5 THEN -1 ELSE 7 - x]}

(* The plan is the middle one of three routes of the packed owner.         *)
CompositorCall(s, d, self, capacity) ==
  [rows |-> 8, dist |-> d, self |-> self, capacity |-> capacity,
   objects |-> CallObjects,
   values |-> [a \in 1 .. 2 |-> Over8(Values[a])],
   segments |-> [n \in 1 .. Len(s) |-> Segment(s[n][1], s[n][2])],
   plan |-> 4,
   routes |-> <<[plan |-> 1, begin |-> 0], [plan |-> 4, begin |-> 1],
                [plan |-> 9, begin |-> 1 + Len(s)]>>,
   positions |-> <<1>> \o [n \in 1 .. Len(s) |-> Places[s[n][1]]] \o <<5>>,
   flags |-> <<0>> \o [n \in 1 .. Len(s) |-> s[n][2]] \o <<0>>,
   perRoute |-> 2,
   clauses |-> Filters \o Filters \o Filters,
   directory |-> Directory]

CompositorCalls ==
  {CompositorCall(s, d, self, 10) :
     s \in Plans, d \in CompositorDists, self \in {2, 4}}
    \cup {CompositorCall(<<<<1, 0>>, <<2, 0>>>>, [x \in 0 .. 7 |-> x], 2, 6)}

-----------------------------------------------------------------------------

TenRows == 0 .. 9

DataSet(a, b, bin) ==
  [rows |-> 10, as |-> 2, bs |-> 2, bins |-> 4, a |-> a, b |-> b, bin |-> bin]

Even == DataSet([x \in TenRows |-> x % 2], [x \in TenRows |-> (x \div 2) % 2],
                [x \in TenRows |-> (x \div 2) % 4])

(* Bins 2 and 3 are empty, and one pair has a single row.                  *)
Skewed == DataSet([x \in TenRows |-> IF x < 8 THEN 0 ELSE 1],
                  [x \in TenRows |-> x % 2], [x \in TenRows |-> (x * x) % 4])

(* Bin 3 has a single row.                                                 *)
Thin3 == DataSet([x \in TenRows |-> (x + x \div 3) % 2],
                 [x \in TenRows |-> x \div 5],
                 [x \in TenRows |-> IF x = 4 THEN 3 ELSE x % 3])

Halves(n, m) ==
  [near |-> [x \in TenRows |-> (3 * x + n) % m],
   far |-> [x \in TenRows |-> (7 - x + n * x) % 2]]

PredicateOf(family, a, b, c, e, lo, hi) ==
  [family |-> family, a |-> a, b |-> b, c |-> c, d |-> e, lo |-> lo, hi |-> hi]

LabelA(a) == PredicateOf("equality", a, 0, 0, 0, 0, 0)
LabelsAB(a, b) == PredicateOf("conjunction", a, b, 0, 0, 0, 0)
Bins(lo, hi) == PredicateOf("range", 0, 0, 0, 0, lo, hi)
Either(a, b, c, e) == PredicateOf("dnf", a, b, c, e, 0, 0)

(* Queries over rows first, first + 1, ...; the SIEVE heap of a query is   *)
(* the right one, or lacks its nearest row.                                *)
WorkloadOf(d, ps, first, m, short) ==
  [n \in DOMAIN ps |->
     LET q == [row |-> first + n - 1] @@ ps[n] @@ Halves(n, m)
         r == IF ps[n].family # "range" \/ Len(SupportOf(d, q)) >= TopK
              THEN IndependentOracle(d, q) ELSE Refusal
     IN [heap |-> IF r = Refusal THEN <<>>
                  ELSE SubSeq(Reverse(r), 1, TopK - short)] @@ q]

DevSpecs ==
  {<<LabelA(0), LabelA(1), LabelsAB(0, 0), LabelsAB(0, 1), Bins(0, 1), Bins(1, 2),
     Either(0, 0, 0, 1), Either(0, 0, 1, 0)>>,
   <<LabelA(0), LabelA(0), LabelsAB(0, 0), LabelsAB(1, 1), Bins(0, 3), Bins(0, 1),
     Either(0, 1, 0, 0), Either(0, 1, 1, 1)>>}

EvalSpecs ==
  {<<LabelA(0), LabelA(1), LabelsAB(1, 0), LabelsAB(1, 1), Bins(2, 3), Bins(0, 3),
     Either(0, 1, 1, 0), Either(1, 0, 1, 1)>>,
   <<LabelA(1), LabelA(1), LabelsAB(0, 1), LabelsAB(1, 0), Bins(1, 2), Bins(2, 2),
     Either(1, 1, 0, 0), Either(1, 0, 0, 1)>>,
   <<LabelA(1), LabelA(1), LabelsAB(0, 1), LabelsAB(1, 0), Bins(1, 2), Bins(2, 2),
     Either(1, 1, 1, 1), Either(1, 0, 0, 1)>>,
   <<LabelA(1), LabelsAB(0, 1), Bins(1, 2), Either(1, 1, 0, 0)>>}

Systems ==
  {"C", "P", "X", "FULL", "SUPPORT_OFF", "LAYOUT_OFF", "PLAN_OFF", "SIEVE",
   "joint", "staged"}

LayoutCall(d, system, phase, dev, eval, m, residual, short) ==
  [d |-> d, system |-> system, phase |-> phase,
   dev |-> WorkloadOf(d, dev, 0, m, short),
   eval |-> WorkloadOf(d, eval, SplitRow, m, short),
   budget |-> IF system \in {"joint", "staged"} THEN residual
              ELSE BaseBytes(d, system) + SupportCatalogBytes(d) + residual,
   order |-> <<"dnf", "equality", "range", "conjunction">>]

LayoutCalls ==
  {LayoutCall(d, system, phase, dev, eval, m, residual, 0) :
     d \in {Even, Skewed, Thin3}, system \in Systems \ {"SIEVE"},
     phase \in {"execute"}, dev \in DevSpecs, eval \in EvalSpecs,
     m \in {3, 5}, residual \in {60, 700, 2500}}
    \cup {LayoutCall(Even, system, phase, dev, eval, 4, 0, short) :
             system \in {"C", "SIEVE"}, phase \in {"select", "execute"},
             dev \in DevSpecs, eval \in EvalSpecs, short \in 0 .. 1}

Swapped(f, x, y) == [f EXCEPT ![x] = f[y], ![y] = f[x]]

Corrupted(l) ==
  {l} \cup {[l EXCEPT !.offsets[c] = @ + 1] : c \in DOMAIN l.offsets}
    \cup UNION {{[l EXCEPT !.vectors = Swapped(@, p[1], p[2])],
                 [l EXCEPT !.toGlobal = Swapped(@, p[1], p[2])],
                 [l EXCEPT !.toGlobal = Swapped(@, p[1], p[2]),
                           !.vectors = Swapped(@, p[1], p[2]),
                           !.toPos = Swapped(@, l.toGlobal[p[1]], l.toGlobal[p[2]])]} :
                 p \in {p \in TenRows \X TenRows : p[1] < p[2]}}

Span(begin, end) == [begin |-> begin, end |-> end]

Posting(space, values) == [space |-> space, values |-> values]

CheckCall(d) ==
  [d |-> d, cube |-> PredicateCube(d), base |-> PairMajorBase(d),
   q |-> [row |-> 0] @@ LabelA(0) @@ Halves(1, 3), heap |-> <<>>,
   ids |-> <<1, 4, 7>>, segments |-> <<Span(0, 3)>>,
   postings |-> <<Posting("global", <<0, 5>>)>>]

Predicates == {LabelA(0), LabelsAB(0, 1), Bins(0, 1), Either(0, 0, 1, 1)}

CheckCalls ==
  LET Of(d) ==
        {[CheckCall(d) EXCEPT !.cube = l] : l \in Corrupted(PredicateCube(d))}
          \cup {[CheckCall(d) EXCEPT !.base = l, !.ids = ids] :
                  l \in Corrupted(PairMajorBase(d)),
                  ids \in {<<1, 4, 7>>, <<8, 2, 2>>, <<3, 10>>}}
          \cup {[CheckCall(d) EXCEPT !.heap = h, !.q = q] :
                  h \in {<<>>} \cup [1 .. 1 -> 0 .. 10] \cup [1 .. 2 -> 0 .. 10],
                  q \in {[row |-> 0] @@ p @@ Halves(1, 3) : p \in Predicates}}
          \cup {[CheckCall(d) EXCEPT !.segments = <<Span(s[1], s[2]), Span(t[1], t[2])>>] :
                  s \in {<<0, 3>>, <<2, 5>>, <<4, 4>>, <<3, 7>>},
                  t \in {<<0, 3>>, <<3, 6>>, <<8, 11>>, <<5, 4>>, <<7, 10>>}}
          \cup {[CheckCall(d) EXCEPT !.postings = <<Posting("global", v), Posting("at", w)>>] :
                  v \in {<<0, 5>>, <<2, 4, 8>>, <<10>>}, w \in {<<>>, <<1, 4>>, <<0, 9, 3>>}}
  IN Of(Even) \cup Of(Thin3)

-----------------------------------------------------------------------------

(* Ten blocks of two values: the outer ones hold six rows, the others one  *)
(* or two.                                                                 *)
OrderedRows == 0 .. 23

BlockOf(x) ==
  IF x < 6 THEN 0 ELSE IF x > 17 THEN 9 ELSE ((x - 6) * 2) \div 3 + 1

ValueOf == [x \in OrderedRows |-> 2 * BlockOf(x) + ((x * x + x \div 3) % 2)]

SubsetOf == [b \in 0 .. 9 |-> Ascending({x \in OrderedRows : BlockOf(x) = b})]

OffsetsOf == [n \in 1 .. 11 |-> Cardinality({x \in OrderedRows : BlockOf(x) < n - 1})]

RangeOf(lo, hi) == [lo |-> lo, hi |-> hi]

RowsIn(r) == {x \in OrderedRows : r.lo <= ValueOf[x] /\ ValueOf[x] <= r.hi}

OrderedDist(n) == [x \in OrderedRows |-> (n * x + (x \div 4)) % 7]

OrderedQuery(n, ranges) == [ranges |-> ranges, dist |-> OrderedDist(n)]

Unlost == [w \in {1, 2, 4, 8} |-> {}]

OrderedCall(ranges, n, beam, surplus) ==
  LET queries == <<OrderedQuery(n, ranges), OrderedQuery(n + 1, <<RangeOf(0, 12)>>),
                   OrderedQuery(n + 2, <<RangeOf(3, 3)>>)>>
  IN [value |-> ValueOf, subset |-> SubsetOf,
      packed |-> Reverse(SubsetOf[0]) \o FlattenSeq([b \in 1 .. 9 |-> SubsetOf[b]]),
      offsets |-> OffsetsOf, queries |-> queries, beam |-> beam,
      surplus |-> surplus, lost |-> Unlost, built |-> {}, kept |-> {},
      truth |-> [m \in 1 .. 3 |->
                   NearestIds(queries[m], RowsIn(queries[m].ranges[1]), TopK)]]

OneRange ==
  {<<RangeOf(lo, hi)>> : lo \in {0, 1, 2, 4, 17, 18}, hi \in {0, 1, 3, 8, 15, 18, 19}}
    \cup {<<RangeOf(19, 20)>>, <<RangeOf(-1, 3)>>}

TwoRanges ==
  {<<RangeOf(a, b), RangeOf(c, e)>> :
     a \in {0, 1}, b \in {1, 5}, c \in {1, 4, 19}, e \in {19}}

OrderedCalls ==
  LET Base == OrderedCall(<<RangeOf(1, 18)>>, 3, 2, 0) IN
  {OrderedCall(r, n, 2 + surplus, surplus) :
     r \in OneRange \cup TwoRanges, n \in {1, 3}, surplus \in {0, 2}}
    \cup {[OrderedCall(<<RangeOf(1, 18)>>, n, 2, 0) EXCEPT !.lost[w] = S] :
            n \in {1, 3, 5}, w \in {1, 2, 8}, S \in {{0, 20}, {7, 8, 9}}}
    \cup {[Base EXCEPT !.truth[1] = {}], [Base EXCEPT !.truth[2] = {0}],
          [Base EXCEPT !.built = {3}], [Base EXCEPT !.kept = {1}],
          [Base EXCEPT !.kept = {2}], [Base EXCEPT !.offsets[4] = 0],
          [Base EXCEPT !.subset[3] = <<6>> \o @], [Base EXCEPT !.subset[4] = <<>>],
          [Base EXCEPT !.subset[9] = Tail(@)],
          [Base EXCEPT !.subset[0] = Append(@, 5)]}

Leaves == (0 .. 2) \X ToSet(RawKinds)

ProviderCalls ==
  {[coordinate |-> 1, other |-> 2, bad |-> bad, left |-> left] :
     bad \in SUBSET (0 .. 2),
     left \in {{}, {<<0, "ids">>}, {<<0, "ids">>, <<0, "distances">>},
               {l \in Leaves : l[1] = 0}, {<<1, "summary">>},
               {l \in Leaves : l[1] <= 1} \ {<<0, "ids">>, <<0, "distances">>, <<0, "summary">>}}}

(* Bad passes, one token, one CSV path, and a release in one step or two.  *)
PassCalls ==
  {[bad |-> x[1], oneToken |-> x[2], oneCsv |-> x[3], atomic |-> x[4]] :
     x \in {<<{}, TRUE, FALSE, TRUE>>, <<{2}, FALSE, FALSE, TRUE>>,
            <<{}, TRUE, TRUE, TRUE>>, <<{1}, TRUE, FALSE, FALSE>>}}

-----------------------------------------------------------------------------

ResidentRow(s) == [x \in 0 .. Len(s) - 1 |-> s[x + 1]]

(* Bins: attribute 1 below 3 and from 3, attribute 2 below 2, to 5, above. *)
Resident ==
  [rows |-> 7, columns |-> 3,
   csr |-> ResidentRow(<< <<0, 1>>, <<0, 1, 2>>, <<0, 1>>, <<0>>, <<0, 1, 2>>,
                          <<1>>, <<0, 1>> >>),
   edges |-> << <<3>>, <<2, 5>> >>,
   value |-> <<ResidentRow(<<1, 3, 0, 4, NoValue, 2, 1>>),
               ResidentRow(<<2, 5, 1, 1, 6, NoValue, 2>>)>>,
   vec |-> ResidentRow(<<0, 1, -1, 3, 6, 2, 5, 1>>)]

Bounds(a, lo, hi) == [of |-> a, lo |-> lo, hi |-> hi]

SpecOf(f, self, t, u, i, j) ==
  LET q == [family |-> f, self |-> self, primary |-> t, secondary |-> u,
            first |-> i, second |-> j]
  IN [support |-> Cardinality(LeaveOneOut(Resident, q))] @@ q

Pool ==
  LET a == Bounds(1, 0, 1)
      b == Bounds(2, 1, 3)
  IN <<SpecOf("range", 0, 0, 0, a, a), SpecOf("equality", 6, 0, 0, a, a),
       SpecOf("conjunction", 0, 0, 1, a, a), SpecOf("dnf2", 6, 0, 1, b, a),
       SpecOf("equality", 2, 1, 0, a, a), SpecOf("range", 1, 1, 0, b, a),
       SpecOf("conjunction", 6, 1, 0, a, a), SpecOf("dnf2", 2, 1, 0, a, b)>>

Engine(skip, stray, twice) == [skip |-> skip, stray |-> stray, twice |-> twice]

Perfect == Engine({}, {}, {})

EngineSets ==
  {{Perfect, e} : e \in
     {Engine({1}, {}, {}), Engine({}, {}, {1, 2}), Engine({}, {7}, {}),
      Engine({}, {5}, {}), Engine({0, 6}, {}, {}), Engine({}, {}, {0, 6}),
      Engine({1, 2, 3, 4, 6}, {}, {})}}
    \cup {{Perfect}}

Fresh ==
  [program |-> "formal", complete |-> FALSE, perFamily |-> 2, pool |-> 4,
   subsets |-> [t \in 0 .. 1 |-> Ascending(TokenRows(Resident, t))],
   history |-> <<Pool[1], Pool[4]>>, historyPer |-> 0, queries |-> Pool,
   memberships |-> 33, census |-> TRUE, graphFiles |-> 4,
   persistent |-> [saturated |-> 9, reference |-> 5, graph |-> 4],
   rss |-> <<1, 3, 6, 9>>, words |-> <<1, 7, 12, 3, 10>>,
   fingerprint |-> FrozenPermutation(8, <<1, 7, 12, 3, 10>>),
   engines |-> {Perfect}] @@ Resident

LegacyGraph ==
  [Fresh EXCEPT !.program = "graph", !.subsets[0] = Append(@, 0),
                !.queries = SubSeq(Pool, 5, 8), !.perFamily = 1]

BlockCalls ==
  {[Fresh EXCEPT !.engines = e, !.complete = exact] :
     e \in EngineSets, exact \in BOOLEAN}
    \cup {[Fresh EXCEPT !.engines = e, !.program = p] :
            e \in EngineSets, p \in {"hybrid", "mixed"}}
    \cup {[LegacyGraph EXCEPT !.engines = e] : e \in EngineSets}
    \cup {[Fresh EXCEPT !.persistent = [saturated |-> a, reference |-> b,
                                        graph |-> d]] :
            a \in {4, 9, 15}, b \in {0, 5, 15}, d \in {4, 10, 15}}
    \cup {[Fresh EXCEPT !.rss = r] :
            r \in {<<1, 3, 6, 12>>, <<1, 3, 2, 3>>, <<1, 0, 6, 6>>, <<0, 9, 15, 15>>}}
    \cup {[Fresh EXCEPT !.words = w, !.fingerprint = FrozenPermutation(8, w)] :
            w \in {<<0, 5, 1, 15>>, <<9>>, <<14, 3, 2>>}}
    \cup {[Fresh EXCEPT !.perFamily = 1,
                        !.fingerprint = FrozenPermutation(4, Fresh.words)],
          [Fresh EXCEPT !.fingerprint[1] = 9], [Fresh EXCEPT !.perFamily = 3],
          [Fresh EXCEPT !.memberships = 32], [Fresh EXCEPT !.census = FALSE],
          [Fresh EXCEPT !.graphFiles = 5], [Fresh EXCEPT !.csr[3] = <<0, 0>>],
          [Fresh EXCEPT !.edges[1] = <<3, 4>>], [Fresh EXCEPT !.columns = 1],
          [Fresh EXCEPT !.queries[1].support = 3],
          [Fresh EXCEPT !.queries[3].secondary = 0],
          [Fresh EXCEPT !.queries[6].first.hi = 4],
          [Fresh EXCEPT !.queries[6].first.hi = 4, !.program = "hybrid"],
          [Fresh EXCEPT !.history[2].first.hi = 4],
          [Fresh EXCEPT !.history[1].support = 1],
          [Fresh EXCEPT !.program = "mixed", !.historyPer = 1, !.history = Pool],
          [Fresh EXCEPT !.program = "mixed", !.historyPer = 2, !.history = Tail(Pool)],
          [Fresh EXCEPT !.subsets[0] = Append(@, 0)],
          [LegacyGraph EXCEPT !.subsets[0] = Tail(@)],
          [LegacyGraph EXCEPT !.queries = Pool],
          [LegacyGraph EXCEPT !.perFamily = 2]}

MCCalls ==
  [k \in {"pair", "tops", "codec", "compositor", "layout", "checks",
         "ordered", "provider", "passes", "block"} |->
     CASE k = "pair" -> PairCalls
       [] k = "tops" -> TopCalls
       [] k = "codec" -> CodecCalls
       [] k = "compositor" -> CompositorCalls
       [] k = "layout" -> LayoutCalls
       [] k = "checks" -> CheckCalls
       [] k = "ordered" -> OrderedCalls
       [] k = "provider" -> ProviderCalls
       [] k = "passes" -> PassCalls
       [] k = "block" -> BlockCalls]

=============================================================================
