----------------------------- MODULE ExactCalls -----------------------------
(***************************************************************************)
(* One call of the exact executors, whichever: the pair scans, the         *)
(* retained and segmented tops, the Elias-Fano codec and scan, the two     *)
(* block compositors, given the same logical plan and run in step, and the *)
(* layout selector, from its workloads to the validation of its answers;   *)
(* the executors of ranges over an ordered attribute, with the stages of   *)
(* their two harnesses; the passes of the categorical executor; and the    *)
(* same-resident LAION runs, from the data to the gate of the last block.  *)
(***************************************************************************)
EXTENDS PairScan, EliasFano, BlockCompositor, LayoutSelector,
        OrderedRanges, RangeProvider, CategoricalPasses, ResidentBlocks

CONSTANT Calls    (* Calls[k]: the calls of kernel k                       *)

(* Postings rise; a row has a sum for each group, of which the packed copy *)
(* has an order, and more groups than the two lines of the prefix.         *)
ASSUME PostingAssumption ==
  "pair" \in DOMAIN Calls =>
    \A c \in Calls["pair"] :
      /\ c.primary \in Seq(Int) /\ Strict(c.primary)
      /\ c.secondary \in Seq(Int) /\ Strict(c.secondary)
      /\ c.order \in Seq(Int) /\ Len(c.order) > 4
      /\ ToSet(c.order) = 1 .. Len(c.order) /\ IsInjective(c.order)
      /\ \A x \in ToSet(c.primary) :
           x \in DOMAIN c.base /\ c.base[x] \in [1 .. Len(c.order) -> Nat]
      /\ c.k \in Nat \ {0}

(* An earlier attempt leaves files of the kinds a stage publishes.         *)
ASSUME LeftAssumption ==
  "provider" \in DOMAIN Calls =>
    \A c \in Calls["provider"] : c.left \subseteq Nat \X ToSet(RawKinds)

(* The subsets of an ordered attribute are read as lists of row numbers.   *)
ASSUME SubsetAssumption ==
  "ordered" \in DOMAIN Calls =>
    \A c \in Calls["ordered"] :
      /\ IsFiniteSet(DOMAIN c.value)
      /\ \A b \in Blocks : c.subset[b] \in Seq(Int)

(* A support is a list of row numbers with a distance for each row.        *)
ASSUME SupportAssumption ==
  "tops" \in DOMAIN Calls =>
    \A c \in Calls["tops"] :
      /\ c.rows \in Nat /\ c.ids \in Seq(Int) /\ c.offsets \in Seq(Int)
      /\ \A x \in 0 .. c.rows - 1 : c.dist[x] \in Int

(* Sizes on disk and in memory are words.                                  *)
ASSUME SizeAssumption ==
  "block" \in DOMAIN Calls =>
    \A c \in Calls["block"] :
      /\ \A n \in 1 .. 4 : c.rss[n] \in 0 .. WordSize - 1
      /\ c.persistent \in [{"saturated", "reference", "graph"} -> 0 .. WordSize - 1]

VARIABLES kernel, call, result

vars == <<kernel, call, result>>

Unanswered == [pc |-> "called"]

Done == result.pc = "done"

-----------------------------------------------------------------------------
(* Pairs: every scan over the offsets every intersection gives.            *)

Strategies == {"bitmap", "merge", "gallop"}

NoAnswer == <<>>

CheckedScans(c, strategy) ==
  LET offsets == LocalOffsets(c, strategy)
  IN IF ~AcceptedPacked(c, offsets) THEN {NoAnswer}
     ELSE {ScanExact(c, offsets), ScanBounded(c, offsets),
           ScanPacked(c, offsets), ScanPackedBounded(c, offsets),
           ScanPackedBounded32(c, offsets), ScanBlock16(c, offsets),
           ScanPrefix128(c, offsets)}

PairResult(c, strategy) ==
  LET ids == GlobalIds(c, strategy) IN
  IF Scratch(c) = "global32"
  THEN [support |-> ids, answers |-> {ScanGlobalIds(c, ids)}]
  ELSE [support |-> [n \in DOMAIN ids |->
                       c.primary[LocalOffsets(c, strategy)[n] + 1]],
        answers |-> CheckedScans(c, strategy) \cup {ScanGlobalIds(c, ids)}]

CallPair ==
  /\ kernel = "pair" /\ result = Unanswered
  /\ result' = [pc |-> "done",
                chosen |-> ChosenStrategy(call),
                complement |-> ComplementStrategy(call),
                of |-> [s \in Strategies |-> PairResult(call, s)]]
  /\ UNCHANGED <<kernel, call>>

CallTops ==
  /\ kernel = "tops" /\ result = Unanswered
  /\ result' = [pc |-> "done",
                top64 |-> Top64(call),
                legacy |-> RetainedTop11Legacy(call),
                retained |-> RetainedTop11(call),
                segmented |-> SegmentedTop11(call),
                unique |-> SortUnique(call)]
  /\ UNCHANGED <<kernel, call>>

CallCodec ==
  /\ kernel = "codec" /\ result = Unanswered
  /\ result' = [pc |-> "done",
                decoded |-> Decode(call.object),
                streamed |-> ScanTop10(call, call.object),
                encoded |-> EncodeSorted(call.ids),
                union |-> EncodeUnion(call.ids, call.other)]
  /\ UNCHANGED <<kernel, call>>

-----------------------------------------------------------------------------
(* Compositors.                                                            *)

Opened(p) ==
  IF p.status # 0 THEN [pc |-> "done", status |-> p.status] ELSE Started(p)

OpenCompositors ==
  /\ kernel = "compositor" /\ result = Unanswered
  /\ LET p == FixedPlan(call)
         q == PackedPlan(call)
     IN result' = [pc |-> "merging", fixedPlan |-> p, packedPlan |-> q,
                   fixed |-> Opened(p), packed |-> Opened(q)]
  /\ UNCHANGED <<kernel, call>>

Stepped(p, st) == IF st.pc = "done" THEN st ELSE CompositorStep(call, p, st)

Compose ==
  /\ kernel = "compositor" /\ result.pc = "merging"
  /\ result' = [result EXCEPT
       !.fixed = Stepped(result.fixedPlan, @),
       !.packed = Stepped(result.packedPlan, @),
       !.pc = IF result.fixed.pc = "done" /\ result.packed.pc = "done"
              THEN "done" ELSE @]
  /\ UNCHANGED <<kernel, call>>

-----------------------------------------------------------------------------
(* The layout selector.                                                    *)

ExactRequired(system) == system # "SIEVE"

Mixed(system) == system \in {"joint", "staged"}

Selects(system) == system \in {"C", "P", "joint", "staged"}

Timed(c) == IF c.phase = "select" THEN c.dev ELSE c.eval

BudgetOf(c) ==
  IF Mixed(c.system) THEN c.budget ELSE Residual(c.d, c.system, c.budget)

(* The development queries the selection is made for.                      *)
SelectedFor(c) ==
  IF c.system = "P" THEN OfFamily(c.dev, "range") ELSE c.dev

Refuse == result' = [result EXCEPT !.pc = "refused"]

LoadWorkloads ==
  /\ kernel = "layout" /\ result = Unanswered
  /\ LET accepted ==
           \/ /\ Mixed(call.system)
              /\ \A n \in DOMAIN call.dev : MakesSpec(call.d, call.dev[n])
              /\ \A n \in DOMAIN call.eval : MakesSpec(call.d, call.eval[n])
           \/ /\ ~Mixed(call.system)
              /\ LoadWorkload(call.d, call.dev, FALSE)
              /\ call.phase = "execute" =>
                   /\ LoadWorkload(call.d, call.eval, TRUE)
                   /\ SplitIsDisjoint(call.d, call.dev, call.eval)
     IN result' =
          [pc |-> IF ~accepted \/ BudgetOf(call) <= 0 THEN "refused"
                  ELSE IF Selects(call.system) THEN "staging" ELSE "timing",
           accepted |-> accepted,
           staged |-> Nothing, s |-> Nothing, rounds |-> 0,
           families |-> call.order, timed |-> <<>>]
  /\ UNCHANGED <<kernel, call>>

SelectStaged ==
  /\ kernel = "layout" /\ result.pc = "staging"
  /\ LET s == StagedSelect(call.d, SelectedFor(call), BudgetOf(call))
     IN result' = [result EXCEPT
          !.pc = IF call.system = "staged" THEN "timing" ELSE "improving",
          !.staged = s,
          !.s = IF call.system = "staged" THEN s ELSE Nothing]
  /\ UNCHANGED <<kernel, call>>

Improve ==
  /\ kernel = "layout" /\ result.pc = "improving"
  /\ result.rounds < MaxImprovements
  /\ \E t \in Improvements(call.d, SelectedFor(call), BudgetOf(call), result.s) :
       result' = [result EXCEPT !.s = t, !.rounds = @ + 1]
  /\ UNCHANGED <<kernel, call>>

(* No improvement is left: the better selection is taken and checked.      *)
Settle ==
  /\ kernel = "layout" /\ result.pc = "improving"
  /\ \/ result.rounds = MaxImprovements
     \/ Improvements(call.d, SelectedFor(call), BudgetOf(call), result.s) = {}
  /\ LET dev == SelectedFor(call)
         s == JointSelect(call.d, dev, BudgetOf(call), result.staged, result.s)
     IN IF \/ TotalCost(call.d, dev, s) > TotalCost(call.d, dev, result.staged)
           \/ AccountOf(call.d, s) > BudgetOf(call)
           \/ call.system = "P" /\ \E k \in s.ids \cup s.packed : ~IsRange(k)
        THEN Refuse
        ELSE result' = [result EXCEPT !.pc = "timing", !.s = s]
  /\ UNCHANGED <<kernel, call>>

(* One family: every answer, or the end of the run at one that fails.      *)
TimeFamily ==
  /\ kernel = "layout" /\ result.pc = "timing" /\ result.families # <<>>
  /\ LET queries == OfFamily(Timed(call), Head(result.families))
         base == PairMajorBase(call.d)
         cube == PredicateCube(call.d)
         served == [n \in DOMAIN queries |->
                      Served(call.d, call.system, queries[n], result.s,
                             base, cube)]
     IN result' = [result EXCEPT
          !.timed = Append(@, [queries |-> queries, results |-> served]),
          !.families = Tail(@),
          !.pc = IF \E n \in DOMAIN served : served[n] = Refusal
                 THEN "refused" ELSE @]
  /\ UNCHANGED <<kernel, call>>

(* Only after all families: the mixed runner counts, the others must pass. *)
ValidateRun ==
  /\ kernel = "layout" /\ result.pc = "timing" /\ result.families = <<>>
  /\ result' = [result EXCEPT
       !.pc = IF \/ Mixed(call.system)
                 \/ \A n \in DOMAIN result.timed :
                      FamilyIsValid(call.d, result.timed[n].queries,
                                    result.timed[n].results,
                                    ExactRequired(call.system), call.phase)
              THEN "done" ELSE "refused"]
  /\ UNCHANGED <<kernel, call>>

(* The audits of two layouts, and the validation of one answer.            *)
CallChecks ==
  /\ kernel = "checks" /\ result = Unanswered
  /\ LET d == call.d
         served == <<SieveResult(d, call.heap)>>
         dist == DistanceTo(call.q)
         base == PairMajorBase(d)
     IN result' =
          [pc |-> "done",
           cube |-> CubeAudit(d, call.cube), base |-> PairAudit(d, call.base),
           compiled |-> CompilePosting(call.base, call.ids),
           exact |-> FamilyIsValid(d, <<call.q>>, served, TRUE, "execute"),
           recall |-> FamilyIsValid(d, <<call.q>>, served, FALSE, "execute"),
           segments |-> ExactTopKSegments(base, dist, call.segments, TopK),
           postings |-> ExactTopKPostings(base, dist, call.postings, TopK)]
  /\ UNCHANGED <<kernel, call>>

-----------------------------------------------------------------------------
(* The ordered executors, and the child that runs one in stages.           *)

CallRanges ==
  /\ kernel = "ordered" /\ result = Unanswered
  /\ result' = [pc |-> "done", bench |-> RangeBench(call),
                hierarchy |-> Hierarchy(call),
                adapter |-> FixedBlockAdapter(call)]
  /\ UNCHANGED <<kernel, call>>

StartProvider ==
  /\ kernel = "provider" /\ result = Unanswered
  /\ result' = ProviderStart(call)
  /\ UNCHANGED <<kernel, call>>

RunStage ==
  /\ kernel = "provider" /\ result.pc = "running"
  /\ result' = PublishStage(call, result)
  /\ UNCHANGED <<kernel, call>>

Release ==
  /\ kernel = "provider" /\ result.pc = "ready"
  /\ \E m \in Messages(call, result) : result' = TakeRelease(call, result, m)
  /\ UNCHANGED <<kernel, call>>

-----------------------------------------------------------------------------
(* The passes of the categorical executor.                                 *)

StartPasses ==
  /\ kernel = "passes" /\ result = Unanswered
  /\ result' = BarrierStart(call)
  /\ UNCHANGED <<kernel, call>>

StepPass ==
  /\ kernel = "passes" /\ result # Unanswered
  /\ result' \in PassStep(call, result)
  /\ UNCHANGED <<kernel, call>>

EndPasses ==
  /\ kernel = "passes" /\ result # Unanswered
  /\ result' \in PassEnds(result)
  /\ UNCHANGED <<kernel, call>>

StartAgain ==
  /\ kernel = "passes" /\ result # Unanswered
  /\ result' \in AttemptAgain(call, result)
  /\ UNCHANGED <<kernel, call>>

SupervisePass ==
  /\ kernel = "passes" /\ result # Unanswered
  /\ result' \in Acknowledge(call, result) \cup ReleasePass(call, result)
  /\ UNCHANGED <<kernel, call>>

(* Bounded: only while there is an attempt left that finds what it left.   *)
Crash ==
  /\ kernel = "passes" /\ result # Unanswered /\ result.pc # "done"
  /\ result.attempt < Attempts
  /\ result' \in CrashMachine(result)
  /\ UNCHANGED <<kernel, call>>

-----------------------------------------------------------------------------
(* The same-resident runs.                                                 *)

OpenResident ==
  /\ kernel = "block" /\ result = Unanswered
  /\ result' = [pc |-> IF WhyClosed(call) = "open" THEN "open" ELSE "refused",
                why |-> WhyClosed(call), queries |-> <<>>, outcomes |-> <<>>]
  /\ UNCHANGED <<kernel, call>>

OpenQueries ==
  /\ kernel = "block" /\ result.pc = "open"
  /\ result' = [result EXCEPT
       !.pc = IF WhyUnasked(call) = "ready" THEN "ready" ELSE "refused",
       !.why = WhyUnasked(call),
       !.queries = IF WhyUnasked(call) = "ready" THEN Asked(call) ELSE @]
  /\ UNCHANGED <<kernel, call>>

(* A block is warmed up, timed and audited; the run goes on if it passes.  *)
TimeBlock ==
  /\ kernel = "block" /\ result.pc = "ready"
  /\ LET block == Len(result.outcomes)
         warm == \A n \in DOMAIN result.queries :
                   PrewarmAccepted(call, ArmOf(call, block), result.queries[n])
     IN IF ~warm
        THEN result' = [result EXCEPT !.pc = "refused", !.why = "prewarm"]
        ELSE \E e \in call.engines, again \in call.engines :
               LET o == RunBlock(call, result.queries, block, e, again)
               IN result' = [result EXCEPT
                    !.outcomes = Append(@, o),
                    !.pc = IF ~o.gate THEN "stopped"
                           ELSE IF block = LastResidentBlock(call) THEN "done"
                           ELSE @]
  /\ UNCHANGED <<kernel, call>>

Init ==
  /\ kernel \in DOMAIN Calls
  /\ call \in Calls[kernel]
  /\ result = Unanswered

Next == CallPair \/ CallTops \/ CallCodec \/ OpenCompositors \/ Compose
          \/ LoadWorkloads \/ SelectStaged \/ Improve \/ Settle
          \/ TimeFamily \/ ValidateRun \/ CallChecks
          \/ CallRanges \/ StartProvider \/ RunStage \/ Release
          \/ StartPasses \/ StepPass \/ EndPasses \/ StartAgain
          \/ SupervisePass \/ Crash
          \/ OpenResident \/ OpenQueries \/ TimeBlock

Spec == Init /\ [][Next]_vars

-----------------------------------------------------------------------------

Common(c) == ToSet(c.primary) \cap ToSet(c.secondary)

(* The k nearest common rows, by how many of the common rows are nearer.   *)
NearestOfPair(c) ==
  LET S == Common(c)
      Ahead(x) == {y \in S : Closer(Entry(c, y), Entry(c, x))}
  IN [r \in 1 .. c.k |-> IF r <= Cardinality(S)
                         THEN CHOOSE x \in S : Cardinality(Ahead(x)) = r - 1
                         ELSE -1]

(* Bitmap probe, merge and galloping find the same rows, and 16-bit        *)
(* offsets lead back to the same ids as 32-bit ids: no posting is longer   *)
(* than its offsets can name.  Cutting a row short by its partial sum      *)
(* loses none of the k nearest: bounded, packed, blockwise and prefix      *)
(* scans all answer as the full scan does, ties included, whatever order   *)
(* the groups are stored in.                                               *)
PairIsExact ==
  Done /\ kernel = "pair" =>
    \A s \in Strategies :
      /\ ToSet(result.of[s].support) = Common(call)
      /\ Strict(result.of[s].support)
      /\ result.of[s].answers = {NearestOfPair(call)}

(* The ids from a place on to another rise.                                *)
IdsRise(c, from, to) ==
  \A m, n \in from .. to : m < n => c.ids[m] < c.ids[n]

AreScored(c) == \A x \in ToSet(c.ids) : x \in 0 .. c.rows - 1 /\ c.dist[x] >= 0

GoodSupport(c) ==
  Len(c.ids) \in TopK .. c.rows /\ IdsRise(c, 1, Len(c.ids)) /\ AreScored(c)

GoodSegments(c) ==
  /\ Len(c.ids) <= c.rows /\ Cardinality(ToSet(c.ids)) >= TopK
  /\ Len(c.offsets) - 1 \in 1 .. MaxSegments
  /\ c.offsets[1] = 0 /\ Last(c.offsets) = Len(c.ids)
  /\ \A s \in Segments(c) :
       /\ c.offsets[s] < c.offsets[s + 1] /\ c.offsets[s + 1] <= Len(c.ids)
       /\ IdsRise(c, c.offsets[s] + 1, c.offsets[s + 1])
  /\ AreScored(c)

(* The segmented merge scores a row once however many segments hold it and *)
(* retains the nearest of their union with the one behind the cutoff; over *)
(* one segment all kernels agree.  A kernel answers for the supports it    *)
(* promises to and for no other: enough rows of the base, each with a      *)
(* finite distance, rising throughout or within each segment.              *)
TopsAreExact ==
  LET Good(r, n) == r.status = 0 =>
                      r.best = NearestIds(call, ToSet(call.ids), n)
                      /\ r.unique = Cardinality(ToSet(call.ids))
  IN Done /\ kernel = "tops" =>
       /\ \A r \in {result.top64, result.legacy, result.retained} :
            r.status = 0 <=> GoodSupport(call)
       /\ result.segmented.status = 0 <=> GoodSegments(call)
       /\ Good(result.top64, Shortlist)
       /\ Good(result.legacy, TopK + 1)
       /\ Good(result.segmented, TopK + 1)
       /\ result.retained.status = 0 => result.retained = result.legacy
       /\ result.legacy.status = 0 => result.retained.status = 0
       /\ result.retained.status = 0 /\ call.offsets = <<0, Len(call.ids)>>
            => result.segmented = result.retained
       /\ result.retained.status = 0 => result.unique = call.ids

Rows(s) == {x \in ToSet(s) : x < call.rows}

(* What is encoded comes back, from the union of two supports as from one; *)
(* and an object that is accepted, by the decoder or the scan, is          *)
(* canonical: it is the encoding of what it is decoded to, down to the     *)
(* unused bits, whatever lies behind its words.  (An altered object that   *)
(* is the encoding of another support is not noticed.)                     *)
(* The scan, which decodes into a ring, scores every row but the query's   *)
(* once and answers with the nearest of them, whatever batches the ring    *)
(* was emptied in.                                                         *)
CodecIsExact ==
  Done /\ kernel = "codec" =>
    LET Back(r, S) == r.status = EfOk =>
                        Decode(r.object) =
                          [status |-> EfOk, ids |-> Ascending(S)]
        kept == ToSet(result.decoded.ids) \ {call.self}
    IN /\ Back(result.encoded, ToSet(call.ids))
       /\ Back(result.union, ToSet(call.ids) \cup ToSet(call.other))
       /\ result.decoded.status = EfOk =>
            Encode(result.decoded.ids) = [call.object EXCEPT
              !.words = SubSeq(@, 1, call.object.high
                                       + Account(call.object.rows).highWords)]
       /\ result.streamed.status = 0 =>
            /\ result.decoded.status = EfOk
            /\ result.streamed.unique = Cardinality(kept)
            /\ result.streamed.best = NearestIds(call, kept, TopK)

Support(p) ==
  UNION {{x \in {p.scratch[n] : n \in p.start[s] + 1 .. p.end[s]} :
            Admits(call, p.filter[s], x)} : s \in DOMAIN p.start}

Holding(p, x) ==
  {s \in DOMAIN p.start :
     /\ x \in {p.scratch[n] : n \in p.start[s] + 1 .. p.end[s]}
     /\ Admits(call, p.filter[s], x)}

(* A compositor that succeeds has taken the query's row out of every       *)
(* segment that admits it, has merged each other row once and kept the k   *)
(* nearest; it fails for the query's row or for too few rows only if the   *)
(* segments give it the reason to.  The route table and the rank directory *)
(* lead the packed one to the segments that the fixed one is given.        *)
CompositorsAreExact ==
  LET Exact(p, st) ==
        p.status = 0 =>
          LET S == Support(p)
          IN /\ st.status = 0 =>
                  /\ st.before = Cardinality(S)
                  /\ st.after = Cardinality(S \ {call.self})
                  /\ st.selfs = Cardinality(Holding(p, call.self))
                  /\ st.best = NearestIds(call, S \ {call.self}, TopK)
             /\ st.status = 3 => Cardinality(S \ {call.self}) < TopK
             /\ st.status = 10 /\ call.self \in S =>
                  \E x \in ToSet(p.scratch) : x >= call.rows \/ call.dist[x] < 0
      Alike(p, f) ==
        /\ p.status = 0 <=> f.status = 0
        /\ p.status = 0 => /\ p.best = f.best
                           /\ p.before = f.before
                           /\ p.checks = f.checks
  IN Done /\ kernel = "compositor" =>
       /\ Exact(result.fixedPlan, result.fixed)
       /\ Exact(result.packedPlan, result.packed)
       /\ Alike(result.packed, result.fixed)

-----------------------------------------------------------------------------

(* A workload the reader accepts is answered by every exact system as the  *)
(* oracle answers it, rank by rank and with equal distances in the order   *)
(* of the ids, whatever was selected; and the run passes its own checks.   *)
(* The mixed runner alone may give up, on a range that it covers with a    *)
(* part of fewer than k rows.                                              *)
LayoutsAgree ==
  LET Thin(q) == \E n \in DOMAIN Cover(call.d, q.lo, q.hi, result.s).keys :
                   Len(IdsOf(call.d, Cover(call.d, q.lo, q.hi, result.s).keys[n]))
                     < TopK
      Right(q, r) == \/ r = IndependentOracle(call.d, q)
                     \/ /\ r = Refusal /\ Mixed(call.system)
                        /\ q.family = "range" /\ Thin(q)
  IN kernel = "layout" /\ result # Unanswered /\ ExactRequired(call.system) =>
       /\ \A n \in DOMAIN result.timed :
            \A m \in DOMAIN result.timed[n].queries :
              Right(result.timed[n].queries[m], result.timed[n].results[m])
       /\ result.pc = "refused" /\ result.accepted =>
            Mixed(call.system) \/ BudgetOf(call) <= 0

(* Whatever order the hash table gives the candidates: what is selected    *)
(* fits its budget and costs no more than the staged selection, nothing is *)
(* packed whose ids would not be looked for, the pair-major base keeps     *)
(* ranges only, and every range has a cover without a gap or an overlap.   *)
SelectionIsSound ==
  LET c == call
      s == result.s
      Covered(q) == Concatenated(
        [n \in DOMAIN Cover(c.d, q.lo, q.hi, s).keys |->
           LET k == Cover(c.d, q.lo, q.hi, s).keys[n]
           IN [m \in 1 .. k[2] |-> k[3] + m - 1]])
  IN kernel = "layout" /\ result.pc \in {"improving", "timing", "done"} =>
       /\ Selects(c.system) => AccountOf(c.d, s) <= BudgetOf(c)
       /\ s.packed \cap Supports(c.d) \subseteq s.ids
       /\ c.system = "P" => \A k \in s.ids \cup s.packed : IsRange(k)
       /\ result.rounds < MaxImprovements
       /\ result.pc # "improving" =>
            TotalCost(c.d, SelectedFor(c), s)
              <= TotalCost(c.d, SelectedFor(c), result.staged)
       /\ \A q \in ToSet(OfFamily(Timed(c), "range")) :
            Covered(q) = [m \in 1 .. q.hi - q.lo + 1 |-> q.lo + m - 1]

(* The checks refuse what is wrong and only that: an audit passes the      *)
(* layout that is built and no other, a posting is compiled if and only if *)
(* its ids can be told from the positions, and an answer is valid if it is *)
(* the oracle's; segments and postings give each of their rows once.       *)
ChecksAreExact ==
  Done /\ kernel = "checks" =>
    LET d == call.d
        oracle == IndependentOracle(d, call.q)
        served == SieveResult(d, call.heap)
        base == PairMajorBase(d)
        Answer10(S) == LET ids == ScanIds(call.q, Ascending(S)) IN
          [n \in DOMAIN ids |-> <<DistanceTo(call.q)[ids[n]], ids[n]>>]
        within == UNION {{base.toGlobal[p] : p \in x.begin .. x.end - 1} :
                           x \in ToSet(call.segments)}
        listed == UNION {{IF p.space = "global" THEN v ELSE base.toGlobal[v] :
                            v \in ToSet(p.values)} : p \in ToSet(call.postings)}
    IN /\ result.cube <=> call.cube = PredicateCube(d)
       /\ result.base <=> call.base = base
       /\ result.exact <=> served = oracle
       /\ result.recall <=> ToSet(served) = ToSet(oracle)
       /\ result.base /\ result.compiled.passed =>
            /\ ToSet(AtPositions(base, result.compiled.values)) = ToSet(call.ids)
            /\ Strict(result.compiled.values)
       /\ result.segments # Refusal /\ Cardinality(within) >= TopK =>
            result.segments = Answer10(within)
       /\ result.postings # Refusal /\ Cardinality(listed) >= TopK =>
            result.postings = Answer10(listed)

-----------------------------------------------------------------------------

(* A row the answer to q should hold: reachable, in one of q's ranges, and *)
(* closer than the last row returned.                                      *)
Missed(q, answer) ==
  {x \in DOMAIN call.value \ UNION {call.lost[w] : w \in DOMAIN call.lost} :
     /\ \E m \in DOMAIN q.ranges : Qualifies(call, q.ranges[m], x)
     /\ x \notin ToSet(answer)
     /\ Len(answer) < TopK \/ CandidateLess(q, x, Last(answer))}

(* In its block, of which the range holds a part, the pool was full.       *)
Crowded(q, r, x) ==
  LET b == call.value[x] \div BlockWidth
      nearer == {y \in DOMAIN call.value : call.value[y] \div BlockWidth = b
                                           /\ CandidateLess(q, y, x)}
  IN Cardinality(nearer) * Overlap(r, b) >= BoundaryFactor * TopK * BlockWidth

Boundary(r, b) == b \in {r.lo \div BlockWidth, r.hi \div BlockWidth}

(* Every executor returns rows of the ranges, each once and nearest first, *)
(* and misses a row its graphs can reach only where a block is cut by the  *)
(* range and `boundary_factor' times the rows it should give are nearer:   *)
(* never in a whole block, nor in a node of the hierarchy, whose cover has *)
(* a graph for each part; both schedules of the bench answer alike.        *)
RangesLoseOnlyAtBoundaries ==
  LET Sound(q, answer) ==
        /\ \A x \in ToSet(answer) :
             \E m \in DOMAIN q.ranges : Qualifies(call, q.ranges[m], x)
        /\ \A n \in 1 .. Len(answer) - 1 :
             CandidateLess(q, answer[n], answer[n + 1])
      Excused(q, r, x) == Qualifies(call, r, x) => Crowded(q, r, x)
      Cut(r, x) == Overlap(r, call.value[x] \div BlockWidth) < BlockWidth
      First(q) == [q EXCEPT !.ranges = <<q.ranges[1]>>]
      Flat(q, answer) ==
        /\ Sound(q, answer)
        /\ \A x \in Missed(q, answer) : \A m \in DOMAIN q.ranges :
             Excused(q, q.ranges[m], x)
               /\ (Qualifies(call, q.ranges[m], x) => Cut(q.ranges[m], x))
      Nodes(q, answer) ==
        /\ Sound(q, answer)
        /\ \A x \in Missed(q, answer) :
             /\ Crowded(q, q.ranges[1], x)
             /\ Boundary(q.ranges[1], call.value[x] \div BlockWidth)
  IN Done /\ kernel = "ordered" /\ LoadPredicates(call) =>
       \A n \in DOMAIN call.queries :
         LET q == call.queries[n] IN
         /\ PartitionAccepted(call) =>
              /\ result.bench.pc = "done"
              /\ result.bench.block[n] = result.bench.query[n]
              /\ Flat(q, result.bench.query[n])
         /\ LoadOffsets(call) => /\ result.hierarchy.pc = "done"
                                 /\ Nodes(First(q), result.hierarchy.answers[n])
         /\ result.adapter.pc = "done" =>
              Flat(First(q), result.adapter.published[2][n])

GateHolds ==
  Done /\ kernel = "ordered" /\ Len(result.adapter.published) = 2 =>
    LET first == result.adapter.published[1]
        hits == UNION {{n} \X (ToSet(first[n]) \cap call.truth[n]) :
                         n \in DOMAIN first}
    IN /\ Cardinality(hits) >= GateHits
       /\ \A n \in DOMAIN first :
            /\ Cardinality(ToSet(first[n])) = TopK
            /\ \A x \in ToSet(first[n]) :
                 Qualifies(call, call.queries[n].ranges[1], x)
       /\ \A x \in DOMAIN call.value :
            Cardinality({b \in Blocks : x \in ToSet(call.subset[b])}) = 1

StageIsReleased ==
  kernel = "provider" /\ result # Unanswered =>
    /\ result.accepted \cap call.bad = {}
    /\ result.accepted = 0 .. result.stage - 1
    /\ \A leaf \in DOMAIN result.files :
         /\ leaf \in call.left <=> result.files[leaf].by = "earlier"
         /\ leaf \notin call.left => leaf[1] - 1 \in result.accepted \cup {-1}
    /\ result.accepted # {} =>
         \A leaf \in call.left : leaf[1] \notin result.accepted
    /\ result.pc = "done" => result.accepted = 0 .. LastStage

PassIsReleased ==
  kernel = "passes" /\ result # Unanswered =>
    LET Behind(p) == p < result.pass \/ result.pc = "done"
        Has(d, p, kind) == Final(p, kind) \in DOMAIN d
        Is(d, p, kind, x) == Has(d, p, kind) /\ d[Final(p, kind)] = x
        seen == result.seen
    IN \A p \in 1 .. PassRuns :
         /\ Behind(p) =>
              /\ p \notin call.bad
              /\ \A kind \in {"raw", "ready"} :
                   LET x == PassContent(call, [result EXCEPT !.pass = p], kind)
                   IN Is(result.kept, p, kind, x) /\ x \in result.flushed
         /\ Has(seen, p, "ready") =>
              LET raw == [seen[Final(p, "ready")] EXCEPT !.what = "raw"]
              IN Is(seen, p, "raw", raw) /\ Is(result.kept, p, "raw", raw)
                   /\ raw \in result.flushed
         /\ Has(seen, p, "ack") /\ seen[Final(p, "ack")] # Torn =>
              Is(seen, p, "raw", seen[Final(p, "ack")].raw)

(* No stage is run on results that were not found right.  The adapter      *)
(* searches for all queries only after the first ones gave k different     *)
(* rows each, all in range and enough of them true, over subsets that are  *)
(* a partition of the rows.  The provider goes on only if an audit of the  *)
(* files this process has published found them right, in the order of the  *)
(* stages, and whatever releases of other stages, of other processes or of *)
(* an earlier attempt come instead; files an attempt has left are never    *)
(* replaced.  The categorical executor leaves a pass only with results     *)
(* that are right and that it has itself published, whole and for good; a  *)
(* ready record is never seen without the synced results it is of, nor an  *)
(* acknowledgement with other results than it names, whatever crashes, is  *)
(* released twice or is left by an earlier attempt.                        *)
StagesAreGated == GateHolds /\ StageIsReleased /\ PassIsReleased

-----------------------------------------------------------------------------

(* The rows a query means: an interval of bins lo .. hi - 1 is the values  *)
(* from the edge before lo up to, and without, the edge after hi - 1.      *)
Meant(c, q) ==
  LET Within(x, i) ==
        LET v == c.value[i.of][x] IN
        /\ v # NoValue
        /\ i.lo > 0 => v >= c.edges[i.of][i.lo]
        /\ i.hi <= Len(c.edges[i.of]) => v < c.edges[i.of][i.hi]
      Has(x, t) == \E n \in DOMAIN c.csr[x] : c.csr[x][n] = t
  IN {x \in (0 .. c.rows - 1) \ {q.self} :
        CASE q.family = "equality" -> Has(x, q.primary)
          [] q.family = "conjunction" -> Has(x, q.primary) /\ Has(x, q.secondary)
          [] q.family = "range" -> Has(x, q.primary) /\ Within(x, q.first)
          [] q.family = "dnf2" -> \/ Has(x, q.primary) /\ Within(x, q.first)
                                  \/ Has(x, q.secondary) /\ Within(x, q.second)}

(* SIEVE's labels are counted and in order, and admit just the rows the   *)
(* query means and its own: a warm-up fails only for a bin there is not.   *)
LabelsMeanRows(c) ==
  /\ result.why = "metadata" =>
       c.memberships # Cardinality(
         {l \in (0 .. c.rows - 1) \X (0 .. TokenAtoms - 1)
                                  \X (0 .. Len(c.edges)) :
            /\ l[2] \in ToSet(c.csr[l[1]])
            /\ l[3] > 0 => c.value[l[3]][l[1]] # NoValue})
  /\ result.why = "prewarm" =>
       \E n \in DOMAIN result.queries : ~FilterAccepted(c, result.queries[n])
  /\ \A n \in DOMAIN result.queries :
       LET q == result.queries[n] IN
       /\ SupportRows(c, q) = Meant(c, q) \cup {q.self}
       /\ FilterAccepted(c, q) /\ c.program # "graph" =>
            FilterRows(c, q) = Meant(c, q) \cup {q.self}

(* The queries are opened only if SIEVE's side is no larger than the other *)
(* on disk and in memory, whatever the sums of sizes wrap to.              *)
SystemsAreComparable(c) ==
  c.program = "formal" /\ result.why \notin {"data", "history", "metadata",
                                            "inventory", "resources"} =>
    /\ c.persistent.saturated <= c.persistent.reference + c.persistent.graph
    /\ c.rss[4] - c.rss[3] <= c.rss[3] - c.rss[1]

(* Of any number of places up to n, none is drawn by more of the words    *)
(* that the shuffle accepts than another.                                  *)
DrawsAreFair(n) ==
  \A bound \in 1 .. n :
    LET Words(r) == {v \in 0 .. WordSize - 1 :
                       DrawAccepted(v, bound) /\ v % bound = r}
    IN \A r, t \in 0 .. bound - 1 : Cardinality(Words(r)) = Cardinality(Words(t))

(* The queries asked are those of the file, each once, in an order drawn   *)
(* so that none of the places left is likelier than another.               *)
OrderIsFair(c) ==
  result.queries # <<>> /\ c.program # "graph" =>
    /\ Len(result.queries) = Cardinality(QueryFamilies) * c.perFamily
    /\ \A m \in DOMAIN c.queries :
         LET Times(s) == Cardinality({n \in DOMAIN s : s[n] = c.queries[m]})
         IN Times(result.queries) = Times(ReadWorkload(c.queries, c.perFamily))
    /\ DrawsAreFair(Len(result.queries))

(* A block counts if and only if all its answers are k different rows that *)
(* their queries mean, the same when asked again, and enough of each       *)
(* family are among the nearest: all of a family that is answered exactly. *)
GateIsExact(c) ==
  LET asked == result.queries
      Nearest(q) == NearestIds(From(c, q), Meant(c, q), TopK)
      Valid(o) ==
        \A n \in DOMAIN asked :
          LET r == o.results[n] IN
          /\ Len(r.ids) = TopK /\ Cardinality(ToSet(r.ids)) = TopK
          /\ ToSet(r.ids) \subseteq Meant(c, asked[n])
          /\ r.ids = o.repeats[n].ids
          /\ c.program = "formal" => r.removed = o.repeats[n].removed
      Hits(o, f) ==
        {h \in (DOMAIN asked) \X (0 .. c.rows - 1) :
           /\ asked[h[1]].family = f
           /\ h[2] \in ToSet(o.results[h[1]].ids) \cap Nearest(asked[h[1]])}
      Size(f) == TopK * Cardinality({n \in DOMAIN asked : asked[n].family = f})
      Enough(o, f) ==
        IF Route(c, o.arm, f) = "exact"
        THEN Cardinality(Hits(o, f)) = Size(f)
        ELSE Cardinality(Hits(o, f)) * RecallDen >= Size(f) * RecallNum
  IN \A b \in DOMAIN result.outcomes :
       LET o == result.outcomes[b] IN
       /\ c.program \in {"formal", "hybrid"} =>
            o.gate = (Valid(o) /\ \A f \in QueryFamilies : Enough(o, f))
       /\ c.program = "mixed" => o.gate = Valid(o)
       /\ \A n \in DOMAIN asked : Route(c, o.arm, asked[n].family) = "exact" =>
            /\ ToSet(o.results[n].ids) = Nearest(asked[n])
            /\ o.results[n] = o.repeats[n]

(* The run ends at the first block that does not count, it is done with    *)
(* all of them, and each pair of blocks has one of either system.          *)
RunIsInOrder(c) ==
  /\ result.pc = "done" => Len(result.outcomes) = LastResidentBlock(c) + 1
  /\ \A b \in DOMAIN result.outcomes :
       LET o == result.outcomes[b] IN
       /\ ~o.gate => b = Len(result.outcomes) /\ result.pc = "stopped"
       /\ c.program = "formal" /\ b % 2 = 0 =>
            {o.arm, result.outcomes[b - 1].arm} = {"S", "H"}

(* What is timed is comparable and what counts is right: both systems are  *)
(* asked the same queries, which mean the same rows to both, and a block   *)
(* is counted by what was answered in it.                                  *)
BlocksAreSound ==
  kernel = "block" /\ result # Unanswered =>
    /\ LabelsMeanRows(call)
    /\ SystemsAreComparable(call)
    /\ OrderIsFair(call)
    /\ GateIsExact(call)
    /\ RunIsInOrder(call)

=============================================================================
