--------------------------- MODULE LayoutSelector ----------------------------
(***************************************************************************)
(* What surrounds the layout engines: the acceptance of the development    *)
(* and evaluation workloads, the choice of the fragments to hold and to    *)
(* pack under a byte budget, and the validation of what was served.        *)
(*                                                                         *)
(* A selection holds ids (fragments whose ids are materialized) and packed *)
(* (fragments whose vectors are stored together).                          *)
(***************************************************************************)
EXTENDS LayoutEngines

CONSTANTS
  SplitRow,       (* 800: the first query row kept for evaluation          *)
  PerFamily,      (* 100: queries of each family in a workload             *)
  MaxImprovements (* 256: iterations of the joint selection                *)

Families == {"equality", "conjunction", "range", "dnf"}

OfFamily(queries, f) == SelectSeq(queries, LAMBDA q : q.family = f)

-----------------------------------------------------------------------------
(* Workloads.                                                              *)

Pairs(d, q) == {q.a * d.bs + q.b} \cup
               (IF q.family = "dnf" THEN {q.c * d.bs + q.d} ELSE {})

ConjunctionPairs(d, w) ==
  {Pairs(d, w[n]) : n \in {n \in DOMAIN w : w[n].family = "conjunction"}}

DnfIdentities(d, w) ==
  {Pairs(d, w[n]) : n \in {n \in DOMAIN w : w[n].family = "dnf"}}

(* A query the reader accepts: each part of its predicate has k answers of *)
(* its own, and a DNF has two different clauses.                           *)
QueryIsAccepted(d, q) ==
  CASE q.family = "equality" -> Len(APost(d, q.a)) >= TopK
    [] q.family = "conjunction" ->
         Len(PairPost(d, q.a * d.bs + q.b)) >= TopK
    [] q.family = "range" ->
         /\ q.lo <= q.hi /\ q.hi < d.bins /\ q.hi - q.lo + 1 \in Widths
         /\ Len(RangePost(d, q.hi - q.lo + 1, q.lo)) >= TopK
    [] q.family = "dnf" ->
         /\ Cardinality(Pairs(d, q)) = 2
         /\ \A p \in Pairs(d, q) : Len(PairPost(d, p)) >= TopK

LoadWorkload(d, w, evaluation) ==
  LET number(f) == Len(OfFamily(w, f)) IN
  /\ \A n \in DOMAIN w : (w[n].row >= SplitRow) = evaluation
  /\ \A n \in DOMAIN w : QueryIsAccepted(d, w[n])
  /\ Cardinality({w[n].row : n \in DOMAIN w}) = Len(w)
  /\ Cardinality(ConjunctionPairs(d, w)) = number("conjunction")
  /\ Cardinality(DnfIdentities(d, w)) = number("dnf")
  /\ \A f \in Families : number(f) = PerFamily

(* The mixed runner makes its own queries: pairs are taken from those with *)
(* k rows, and the second pair of a DNF is not the first.                  *)
MakesSpec(d, q) ==
  /\ q.family \in {"conjunction", "dnf"} =>
       \A p \in Pairs(d, q) : Len(PairPost(d, p)) >= TopK
  /\ q.family = "dnf" => Cardinality(Pairs(d, q)) = 2
  /\ q.family = "range" => q.lo <= q.hi /\ q.hi < d.bins

SplitIsDisjoint(d, dev, eval) ==
  /\ {dev[n].row : n \in DOMAIN dev} \cap {eval[n].row : n \in DOMAIN eval} = {}
  /\ ConjunctionPairs(d, dev) \cap ConjunctionPairs(d, eval) = {}
  /\ DnfIdentities(d, dev) \cap DnfIdentities(d, eval) = {}

-----------------------------------------------------------------------------
(* Bytes.                                                                  *)

BytesOf(d, k) == 4 * Len(IdsOf(d, k))

PackedBytesOf(d, k) == VectorBytes * Len(IdsOf(d, k))

SumOver(S, F(_)) == MapThenFoldSet(+, 0, F, LAMBDA T : CHOOSE k \in T : TRUE, S)

AccountOf(d, s) ==
  SumOver(s.ids, LAMBDA k : BytesOf(d, k))
    + SumOver(s.packed, LAMBDA k : PackedBytesOf(d, k))

(* Labels, and postings of A, B, pairs, bins and each dyadic width.        *)
SupportCatalogBytes(d) == 3 * d.rows + 4 * d.rows * (4 + Cardinality(Widths))

BaseBytes(d, system) ==
  CASE system = "C" -> VectorBytes * d.rows
    [] system = "P" -> VectorBytes * d.rows + 4 * (PairCells(d) + 1) + 8 * d.rows
    [] OTHER -> VectorBytes * d.rows + 4 * (CubeCells(d) + 1) + 8 * d.rows

Residual(d, system, budget) ==
  budget - BaseBytes(d, system) - SupportCatalogBytes(d)

-----------------------------------------------------------------------------
(* Selection.                                                              *)

Nothing == [ids |-> {}, packed |-> {}]

TotalCost(d, dev, s) ==
  FoldLeft(LAMBDA c, q : c + QueryCost(d, q, s), 0, dev)

Uses(d, dev, k) ==
  Len(SelectSeq(dev, LAMBDA q : k \in FragmentKeys(d, q)))

(* The order of the keys' names.                                           *)
KeyBefore(j, k) ==
  LET rank(x) == CASE x[1] = "A" -> 0 [] x[1] = "P" -> 1 [] x[1] = "R" -> 2
  IN \/ rank(j) < rank(k)
     \/ rank(j) = rank(k) /\ j[2] < k[2]
     \/ IsRange(j) /\ IsRange(k) /\ j[2] = k[2] /\ j[3] < k[3]

Supports(d) ==
  {k \in Catalog(d) : IsPair(k) \/ (IsRange(k) /\ k[2] > 1)}

(* Ids are admitted greedily by their uses per byte.                       *)
Admitted(d, dev, budget) ==
  LET used == {[key |-> k, bytes |-> BytesOf(d, k),
                weight |-> Uses(d, dev, k) * (IF IsPair(k) THEN 35000 ELSE 3000)] :
                 k \in {k \in Supports(d) : Uses(d, dev, k) > 0}}
      Denser(x, y) ==
        \/ x.weight * y.bytes > y.weight * x.bytes
        \/ x.weight * y.bytes = y.weight * x.bytes /\ KeyBefore(x.key, y.key)
      Admit(l, n) ==
        LET x == CHOOSE x \in l.left : \A y \in l.left \ {x} : Denser(x, y)
            t == [l.s EXCEPT !.ids = @ \cup {x.key}]
        IN [left |-> l.left \ {x}, s |-> IF AccountOf(d, t) <= budget THEN t ELSE l.s]
  IN FoldLeft(Admit, [left |-> used, s |-> Nothing],
              [n \in 1 .. Cardinality(used) |-> n]).s

Eligible(k, s) ==
  (~IsPair(k) /\ (~IsRange(k) \/ k[2] = 1)) \/ k \in s.ids

(* Then layouts, one at a time by their saving per byte: the admitted ids  *)
(* are not revisited.                                                      *)
PackOnce(d, dev, budget, s) ==
  LET with(k) == [s EXCEPT !.packed = @ \cup {k}]
      able == {x \in {[key |-> k, bytes |-> PackedBytesOf(d, k),
                       saving |-> Uses(d, dev, k) * (FragmentCost(d, k, s)
                                            - FragmentCost(d, k, with(k)))] :
                        k \in {k \in Catalog(d) \ s.packed : Eligible(k, s)}} :
                 /\ x.saving > 0 /\ x.bytes > 0
                 /\ AccountOf(d, s) + x.bytes <= budget}
      Denser(x, y) ==
        \/ x.saving * y.bytes > y.saving * x.bytes
        \/ x.saving * y.bytes = y.saving * x.bytes /\ KeyBefore(x.key, y.key)
  IN IF able = {} THEN s
     ELSE with((CHOOSE x \in able : \A y \in able \ {x} : Denser(x, y)).key)

StagedSelect(d, dev, budget) ==
  FoldLeft(LAMBDA s, n : PackOnce(d, dev, budget, s),
           Admitted(d, dev, budget), [n \in 1 .. Cardinality(Catalog(d)) |-> n])

(* What one iteration of the joint selection considers: the ids of one     *)
(* fragment, its ids and its vectors, or every aligned pair of bins of one *)
(* range query.                                                            *)
Considered(d, dev, s) ==
  {[s EXCEPT !.ids = @ \cup {k}] : k \in Supports(d) \ s.ids}
    \cup {[ids |-> s.ids \cup {k}, packed |-> s.packed \cup {k}] :
            k \in Supports(d)}
    \cup {[s EXCEPT !.packed = @ \cup {k}] :
            k \in Catalog(d) \ (Supports(d) \cup s.packed)}
    \cup {LET twos == {RangeKey(2, start) : start \in
                         {n \in q.lo .. q.hi - 1 : n % 2 = 0}}
          IN [ids |-> s.ids \cup twos, packed |-> s.packed \cup twos] :
            q \in ToSet(OfFamily(dev, "range"))}

(* What a selection t would cost and weigh beyond s.                      *)
Step(d, dev, s, t) ==
  [s |-> t, bytes |-> AccountOf(d, t) - AccountOf(d, s),
   saved |-> TotalCost(d, dev, s) - TotalCost(d, dev, t)]

(* Faulty selection: what exceeds the budget by one fragment is kept.      *)
AffordableBefore(d, dev, budget, s) ==
  {x \in {Step(d, dev, s, t) : t \in Considered(d, dev, s)} :
     AccountOf(d, s) < budget /\ x.bytes > 0 /\ x.saved > 0}

Affordable(d, dev, budget, s) ==
  {x \in {Step(d, dev, s, t) : t \in Considered(d, dev, s)} :
     AccountOf(d, x.s) <= budget /\ x.bytes > 0 /\ x.saved > 0}

(* The densest of these, the cheapest of those: which of the ties is taken *)
(* depends on the order of a hash table.                                   *)
Improvements(d, dev, budget, s) ==
  LET able == Affordable(d, dev, budget, s)
      Ahead(x, y) == \/ x.saved * y.bytes > y.saved * x.bytes
                     \/ /\ x.saved * y.bytes = y.saved * x.bytes
                        /\ x.saved > y.saved
  IN {x.s : x \in {x \in able : \A y \in able : ~Ahead(y, x)}}

(* The staged selection is kept if the joint one is no better.             *)
JointSelect(d, dev, budget, incumbent, s) ==
  IF /\ AccountOf(d, incumbent) <= budget
     /\ TotalCost(d, dev, incumbent) < TotalCost(d, dev, s)
  THEN incumbent ELSE s

-----------------------------------------------------------------------------
(* Serving and validation.                                                 *)

(* The heap of the SIEVE index (an external library) comes out farthest    *)
(* first and is turned round; missing answers are an id no row has.        *)
SieveResult(d, heap) ==
  Reverse([n \in 1 .. TopK |-> IF n <= Len(heap) THEN heap[n] ELSE d.rows])

Served(d, system, q, s, base, cube) ==
  CASE system = "C" -> CEngine(d, q, s)
    [] system = "P" -> PEngine(d, q, s, base)
    [] system \in {"X", "PLAN_OFF"} -> XEngine(d, q, cube)
    [] system = "FULL" -> X3Engine(d, q, cube)
    [] system = "SUPPORT_OFF" -> SupportOffEngine(d, q, cube)
    [] system = "LAYOUT_OFF" -> LayoutOffEngine(d, q, cube)
    [] system = "SIEVE" -> SieveResult(d, q.heap)
    [] system \in {"joint", "staged"} -> MixedQuery(d, q, s)

IntegrityFails(d, q, r) ==
  \/ \E n \in DOMAIN r : r[n] >= d.rows \/ ~MatchesQuery(d, q, r[n])
  \/ Cardinality(ToSet(r)) # Len(r)

(* One family, after all families were timed: every answer has the         *)
(* predicate, none comes twice; an exact system answers as the oracle does *)
(* rank by rank, the others miss fewer than five answers in a thousand     *)
(* when the run is an evaluation.                                          *)
FamilyIsValid(d, queries, results, exact, phase) ==
  LET expected(n) == IndependentOracle(d, queries[n])
      hits == FoldLeft(LAMBDA h, n :
                h + Cardinality(ToSet(results[n]) \cap ToSet(expected(n))),
                0, [n \in DOMAIN queries |-> n])
  IN /\ \A n \in DOMAIN queries : ~IntegrityFails(d, queries[n], results[n])
     /\ IF exact THEN \A n \in DOMAIN queries : results[n] = expected(n)
        ELSE phase = "execute" => 1000 * hits >= 995 * TopK * Len(queries)

=============================================================================
