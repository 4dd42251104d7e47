--------------------------- MODULE ResidentBlocks ---------------------------
(***************************************************************************)
(* The decisions of the same-resident runs: whether the two systems in     *)
(* memory are alike enough to open the queries, in which order the queries *)
(* are asked, which engine answers which, and whether the answers of a     *)
(* block may count.  c.program is the formal runner or one of the three    *)
(* pilots: SIEVE alone (mixed), the local graphs alone (graph), and the    *)
(* hybrid.  c.complete tells whether equality is answered exactly (v20b).  *)
(* Worker lanes and publication are WorkerBarrier's and BlockRelease's.    *)
(***************************************************************************)
EXTENDS ResidentData

CONSTANTS
  ResidentPairs,  (* kPairs, 8                                             *)
  RecallNum,      (* kMinimumRecallNumerator, 9995                         *)
  RecallDen,      (* kMinimumRecallDenominator, 10000                      *)
  WordSize        (* 2^64, the values of a size, and of a random word      *)

ASSUME ResidentBlocksAssumption ==
  /\ ResidentPairs \in Nat \ {0} /\ RecallNum \in Nat \ {0}
  /\ RecallDen \in Nat \ {0} /\ WordSize \in Nat \ {0, 1}

(* Local graphs: a subset file per token, in the order of its posting.     *)
KnownLegacyTail(c, t) ==
  t = 0 /\ c.subsets[t] = Append(Ascending(TokenRows(c, t)), 0)

AtomLoaded(c, t) == c.subsets[t] = Ascending(TokenRows(c, t))

InventoryAccepted(c) ==
  LET rejected == {t \in 0 .. TokenAtoms - 1 : ~AtomLoaded(c, t)}
  IN IF c.program = "graph"
     THEN rejected = {0} /\ KnownLegacyTail(c, 0)
     ELSE rejected = {}

(* A size a and the sum of b and d, compared without a wrapped sum.        *)
FitsIn(a, b, d) == d <= WordSize - 1 - b /\ a <= (b + d) % WordSize

ResourceDecision(m) ==
  IF ~FitsIn(m.saturated, m.reference, m.graph) THEN "stop persistent"
  ELSE IF ~FitsIn(m.saturatedRun, m.referenceRun, m.graphRun) THEN "stop runtime"
  ELSE "pass"

(* What each load has added to the process; a loss ends the run.           *)
Deltas(rss) == [n \in 1 .. 3 |-> rss[n + 1] - rss[n]]

ResourceGate(c) ==
  LET d == Deltas(c.rss) IN
  /\ \A n \in 1 .. 3 : d[n] >= 0
  /\ c.census /\ c.graphFiles <= c.persistent.graph
  /\ ResourceDecision(
       [saturated |-> c.persistent.saturated, reference |-> c.persistent.reference,
        graph |-> c.persistent.graph, referenceRun |-> d[1], graphRun |-> d[2],
        saturatedRun |-> d[3]]) = "pass"

(* The formal runner reads the whole history, c.historyPer = 0.            *)
HistoryAccepted(c) ==
  LET history == ReadWorkload(c.history, c.historyPer) IN
  /\ WorkloadAccepted(c, c.history, c.historyPer)
  /\ \A n \in DOMAIN history :
       SupportAccepted(c, history[n]) /\ FilterAccepted(c, history[n])

(* The steps before the query file is opened, and the first that fails.    *)
(* The pilots read their queries before they load the engines: for them    *)
(* only which of two refusals comes first differs.                         *)
WhyClosed(c) ==
  IF ~LoadData(c) THEN "data"
  ELSE IF c.program # "graph" /\ ~HistoryAccepted(c) THEN "history"
  ELSE IF c.program # "graph" /\ ~MetadataAccepted(c) THEN "metadata"
  ELSE IF c.program # "mixed" /\ ~InventoryAccepted(c) THEN "inventory"
  ELSE IF c.program = "formal" /\ ~ResourceGate(c) THEN "resources"
  ELSE "open"

-----------------------------------------------------------------------------
(* The order of the queries.                                               *)

DrawAccepted(v, bound) == v >= (WordSize - bound) % bound

(* The shuffle from the back; words not accepted are passed over.          *)
FrozenPermutation(n, words) ==
  LET Word(k) == words[((k - 1) % Len(words)) + 1]
      Swap(o, i, j) == [o EXCEPT ![i] = o[j], ![j] = o[i]]
      Turn(a, i) ==
        LET remaining == n + 1 - i
            k == Min({k \in a.at .. a.at + Len(words) :
                        DrawAccepted(Word(k), remaining)})
        IN [at |-> k + 1,
            order |-> Swap(a.order, remaining, (Word(k) % remaining) + 1)]
  IN FoldLeft(Turn, [at |-> 1, order |-> [i \in 1 .. n |-> i]],
              [i \in 1 .. n - 1 |-> i]).order

Asked(c) ==
  LET file == IF c.program = "graph"
              THEN SelectSeq(c.queries, LAMBDA q : q.family = "equality")
              ELSE ReadWorkload(c.queries, c.perFamily)
      order == FrozenPermutation(Len(file), c.words)
  IN IF c.program = "formal" THEN [n \in DOMAIN file |-> file[order[n]]]
     ELSE IF c.program = "graph"
     THEN SubSeq(file, 1, Min({c.perFamily, Len(file)}))
     ELSE file

WhyUnasked(c) ==
  LET asked == Asked(c) IN
  IF ~WorkloadAccepted(c, c.queries, IF c.program = "graph" THEN 0 ELSE c.perFamily)
    THEN "workload"
  ELSE IF c.program = "graph" /\ Len(asked) # c.perFamily THEN "workload"
  ELSE IF c.program \in {"graph", "hybrid"} /\ \E n \in DOMAIN asked :
            asked[n].family = "equality" /\ ~AtomLoaded(c, asked[n].primary)
    THEN "graph"
  ELSE IF c.program = "formal" /\ c.fingerprint # FrozenPermutation(Len(asked), c.words)
    THEN "permutation"
  ELSE IF \E n \in DOMAIN asked : ~SupportAccepted(c, asked[n]) THEN "support"
  ELSE "ready"

-----------------------------------------------------------------------------
(* One block: arm "S" is SIEVE, arm "H" the hybrid, "G" the graphs.        *)

ScheduledArm(block) ==
  IF ((block \div 2) % 2 = 0) <=> (block % 2 = 0) THEN "S" ELSE "H"

ArmOf(c, block) ==
  CASE c.program = "formal" -> ScheduledArm(block)
    [] c.program = "mixed" -> "S"
    [] c.program = "hybrid" -> "H"
    [] c.program = "graph" -> "G"

Route(c, arm, family) ==
  CASE arm = "S" -> "sieve"
    [] arm = "G" -> "graph"
    [] arm = "H" /\ family = "equality" -> IF c.complete THEN "exact" ELSE "graph"
    [] arm = "H" /\ family = "conjunction" -> "sieve"
    [] arm = "H" /\ family \in {"range", "dnf2"} -> "exact"

Execute(c, arm, q, e) ==
  CASE Route(c, arm, q.family) = "sieve" -> SieveQuery(c, q, e)
    [] Route(c, arm, q.family) = "graph" -> GraphQuery(c, q, e)
    [] Route(c, arm, q.family) = "exact" -> ExactQuery(c, q)

(* SIEVE's own filter is compared with the support before it is timed.     *)
PrewarmAccepted(c, arm, q) ==
  Route(c, arm, q.family) = "sieve" =>
    FilterAccepted(c, q) /\ Cardinality(FilterRows(c, q)) = q.support + 1

Differs(c, r, again) ==
  r.ids # again.ids \/ (c.program = "formal" /\ r.removed # again.removed)

AuditQuery(c, q, r, again) ==
  LET truth == ExactTop(c, q)
      d == From(c, q)
      kth == Max({d.dist[x] : x \in ToSet(truth)})
      Count(P(_)) == Cardinality({n \in DOMAIN r.ids : P(r.ids[n])})
  IN [family |-> q.family,
      hits |-> Count(LAMBDA x : x \in ToSet(truth)),
      tie |-> Count(LAMBDA x : x < c.rows /\ d.dist[x] <= kth),
      invalid |-> Count(LAMBDA x : x >= c.rows),
      predicateFail |-> Count(LAMBDA x : x < c.rows /\ ~MatchesSpec(c, q, x)),
      duplicate |-> Len(r.ids) - Cardinality(ToSet(r.ids)),
      forbiddenSelf |-> Count(LAMBDA x : x = q.self),
      underfull |-> Len(r.ids) < TopK,
      nondeterministic |-> Differs(c, r, again)]

Total(audits, field) ==
  FoldLeft(LAMBDA n, a : n + a[field], 0, audits)

(* Faulty gate: answers that hold a row twice are let pass.                *)
ValidityPassesTwice(audits) ==
  \A n \in DOMAIN audits :
    LET a == audits[n] IN
    /\ a.invalid = 0 /\ a.predicateFail = 0
    /\ a.forbiddenSelf = 0 /\ ~a.underfull /\ ~a.nondeterministic

ValidityPasses(audits) ==
  \A n \in DOMAIN audits :
    LET a == audits[n] IN
    /\ a.invalid = 0 /\ a.predicateFail = 0 /\ a.duplicate = 0
    /\ a.forbiddenSelf = 0 /\ ~a.underfull /\ ~a.nondeterministic

RecallPasses(hits, denominator) == hits * RecallDen >= denominator * RecallNum

OfQueryFamily(audits, f) == SelectSeq(audits, LAMBDA a : a.family = f)

FormalGate(c, arm, audits) ==
  LET Pass(s) == LET k == TopK * Len(s) IN
        RecallPasses(Total(s, "hits"), k) /\ RecallPasses(Total(s, "tie"), k)
  IN /\ ValidityPasses(audits) /\ Pass(audits)
     /\ \A f \in QueryFamilies :
          LET s == OfQueryFamily(audits, f) IN
          /\ ValidityPasses(s) /\ Pass(s)
          /\ Route(c, arm, f) = "exact" =>
               /\ Total(s, "hits") = TopK * Len(s)
               /\ Total(s, "tie") = TopK * Len(s)

HybridGate(c, audits) ==
  /\ ValidityPasses(audits)
  /\ \A f \in QueryFamilies :
       LET s == OfQueryFamily(audits, f)
           hits == Total(s, "hits")
       IN IF f \in {"range", "dnf2"} THEN hits = TopK * Len(s)
          ELSE RecallPasses(hits, TopK * Len(s))

(* The pilot of SIEVE alone asks for validity, that of the graphs only     *)
(* reports.                                                                *)
BlockGate(c, arm, audits) ==
  CASE c.program = "formal" -> FormalGate(c, arm, audits)
    [] c.program = "hybrid" -> HybridGate(c, audits)
    [] c.program = "mixed" -> ValidityPasses(audits)
    [] c.program = "graph" -> TRUE

RunBlock(c, queries, block, e, again) ==
  LET arm == ArmOf(c, block)
      results == [n \in DOMAIN queries |-> Execute(c, arm, queries[n], e)]
      repeats == [n \in DOMAIN queries |-> Execute(c, arm, queries[n], again)]
      audits == [n \in DOMAIN queries |->
                   AuditQuery(c, queries[n], results[n], repeats[n])]
  IN [arm |-> arm, results |-> results, repeats |-> repeats,
      gate |-> BlockGate(c, arm, audits)]

LastResidentBlock(c) == IF c.program = "formal" THEN 2 * ResidentPairs - 1 ELSE 0

=============================================================================
