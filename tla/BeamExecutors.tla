--------------------------- MODULE BeamExecutors ----------------------------
(***************************************************************************)
(* The graph searches of the categorical executor over the containers that *)
(* replace the reference's vectors.  One workspace serves one query after  *)
(* another: epochs stand in for clearing, and the memo is kept across the  *)
(* replays of a query.  Every one of them performs the reference search.   *)
(***************************************************************************)
EXTENDS DualHeap, IndexedHeap, FixedFrontier, BatchedSearch

CONSTANTS
  Engines,        (* which searches are run                                *)
  Queries,        (* Queries[n]: what the n-th search may be asked for     *)
  FilterEpochMax, (* last epoch before the seen filter is cleared          *)
  SlotMax         (* slots of the largest filter                           *)

(* Queries of one shard, whose filters fit the workspace.                  *)
ASSUME QueryAssumption ==
  /\ Len(Queries) \in Nat \ {0} /\ Queries[1] # {}
  /\ \A n, m \in 1 .. Len(Queries) : \A q \in Queries[n], r \in Queries[m] :
       /\ IsQuery(q) /\ q.slots <= SlotMax
       /\ DOMAIN q.dist = DOMAIN r.dist

ASSUME FilterAssumption == FilterEpochMax \in Nat \ {0} /\ SlotMax \in Nat \ {0}

VARIABLES
  engine,         (* the search in use                                     *)
  phase, query,
  beam,           (* the container                                         *)
  filter,         (* the seen filter                                       *)
  visits,         (* expansions so far                                     *)
  computed,       (* distances computed or recalled                        *)
  width, bound,   (* limits in force                                       *)
  memo,           (* exact distances of the current query                  *)
  scored,         (* distances as the search has them                      *)
  spill, trace, top, widened,
  tops,           (* history: top k after each expansion                   *)
  observed, served

vars == <<engine, phase, query, beam, filter, visits, computed, width, bound,
          memo, scored, spill, trace, top, widened, tops, observed, served>>

Nodes == DOMAIN query.dist

(* The query with the distances this search works with.                    *)
View == [query EXCEPT !.dist = scored]

NoCell == [id |-> 0, epoch |-> 0]

(* Filters allocated per search, stamped filters of the prepared size, and *)
(* packed ones, assigned anew when the size they are asked for changes.    *)
FilterKind ==
  CASE engine \in {"dual", "radix", "batched", "memo", "spill"} -> "fresh"
    [] engine \in {"indexed", "fixed"} -> "stamped"
    [] engine = "reusable" -> "packed"

FilterBegin(h, q) ==
  LET renewed == \/ FilterKind = "fresh" \/ h.epoch + 1 > FilterEpochMax
                 \/ FilterKind = "packed" /\ h.size # q.slots
  IN [size |-> q.slots,
      epoch |-> IF renewed THEN 1 ELSE h.epoch + 1,
      cells |-> IF renewed THEN [n \in DOMAIN h.cells |-> NoCell]
                ELSE h.cells]

FilterLook(h, q, a, y) ==
  LET cell == [id |-> y, epoch |-> h.epoch] IN
  IF y = q.self \/ a.cells[Slot(q, y)] = cell THEN a
  ELSE [keep |-> Append(a.keep, y),
        cells |-> [a.cells EXCEPT ![Slot(q, y)] = cell]]

(* The neighbours of x to score and the filter after them.                 *)
FilterUnseen(h, q, x) ==
  LET a[n \in 0 .. Len(q.edges[x])] ==
        IF n = 0 THEN [keep |-> <<>>, cells |-> h.cells]
        ELSE IF n \notin Row(q, x) THEN a[n - 1]
        ELSE FilterLook(h, q, a[n - 1], q.edges[x][n])
  IN a[Len(q.edges[x])]

-----------------------------------------------------------------------------

Vector == engine \in {"reusable", "batched", "memo", "spill"}

NewContainer(e, nodes) ==
  CASE e = "indexed" -> IndexedNew(nodes)
    [] e = "fixed" -> FixedNew(nodes)
    [] OTHER -> <<>>

Reset(q) ==
  CASE engine = "dual" ->
         FoldLeft(LAMBDA acc, x : DualInsert(acc, q, x), DualReset(q), q.starts)
    [] engine = "indexed" ->
         FoldLeft(LAMBDA acc, x : IndexedInsert(acc, q, x),
                  IndexedReset(beam), q.starts)
    [] engine = "fixed" -> FixedReset(beam, q)
    [] engine = "radix" -> RadixReset(q)
    [] Vector -> VectorReset(q)

(* Unvisited vertices as the container finds them.                         *)
Open ==
  CASE engine = "dual" -> {e.id : e \in {w \in beam.pending : Waiting(beam, w)}}
    [] engine = "indexed" -> ToSet(beam.pending)
    [] engine = "fixed" -> IF FixedIndex(beam) = 0 THEN {}
                           ELSE {beam.frontier[FixedIndex(beam)]}
    [] engine = "radix" -> RadixOpen(beam)
    [] Vector -> beam.frontier \ beam.visited

(* The vertex the container hands out next.                                *)
NextVertex ==
  CASE engine = "indexed" -> beam.pending[1]
    [] OTHER -> Ranked(View, Open, 0)

Active ==
  CASE engine = "dual" -> DualActive(beam)
    [] engine = "indexed" -> IndexedActive(beam)
    [] engine = "radix" -> beam.active
    [] engine = "fixed" -> ToSet(beam.frontier)
    [] Vector -> beam.frontier

Step(q, keep) ==
  CASE engine = "dual" -> DualStep(beam, q, keep)
    [] engine = "indexed" -> IndexedStep(beam, q, keep)
    [] engine = "fixed" -> FixedStep(beam, q, keep)
    [] engine = "radix" -> RadixStep(beam, q, keep)
    [] engine = "memo" -> MemoStep(beam, memo, q, keep)
    [] engine \in {"reusable", "batched", "spill"} ->
         VectorStep(beam, q, keep, width)

-----------------------------------------------------------------------------

Init ==
  /\ engine \in Engines
  /\ phase = "idle"
  /\ query = CHOOSE q \in Queries[1] : TRUE
  /\ beam = NewContainer(engine, Nodes)
  /\ filter = [size |-> 0, epoch |-> 0,
               cells |-> [n \in 0 .. SlotMax - 1 |-> NoCell]]
  /\ visits = 0 /\ computed = 0 /\ width = 0 /\ bound = 0
  /\ memo = MemoNew(Nodes)
  /\ scored = query.dist
  /\ spill = NoSpill
  /\ trace = TraceReset(query)
  /\ top = {} /\ widened = FALSE /\ tops = <<>>
  /\ observed = {} /\ served = 0

(* A replay asks the same query vector of the same graph again, with other *)
(* parameters and the memo as it stands.                                   *)
Replays(q) ==
  engine = "memo" /\ served > 0
  /\ q.dist = query.dist /\ q.edges = query.edges

Begin(q) ==
  /\ phase # "searching" /\ served < Len(Queries)
  /\ q \in Queries[served + 1]
  /\ \/ Replays(q) /\ memo' = memo
     \/ ~Replays(q) /\ memo' = MemoInsert(MemoBegin(memo), q, ToSet(q.starts))
  /\ phase' = "searching"
  /\ query' = q
  /\ beam' = Reset(q)
  /\ filter' = FilterBegin(filter, q)
  /\ visits' = 0
  /\ computed' = Len(q.starts)
  /\ width' = q.beam
  /\ bound' = q.limit
  /\ scored' = IF Replays(q) THEN Recalled(memo, q, q.dist, ToSet(q.starts))
               ELSE q.dist
  /\ spill' = NoSpill
  /\ trace' = TraceReset(q)
  /\ top' = {} /\ widened' = FALSE /\ tops' = <<Nearest(q, ToSet(q.starts), q.k)>>
  /\ observed' = ToSet(q.starts)
  /\ served' = served + 1
  /\ UNCHANGED engine

Expand ==
  /\ phase = "searching"
  /\ Open # {} /\ visits < bound
  /\ LET x == NextVertex
         new == FilterUnseen(filter, query, x)
         keep == ToSet(new.keep)
         dist == IF engine = "memo" THEN Recalled(memo, query, scored, keep)
                 ELSE scored
         q == [query EXCEPT !.dist = dist]
         cutoff == Cutoff(q, Active, query.beam)
     IN /\ scored' = dist
        /\ filter' = [filter EXCEPT !.cells = new.cells]
        /\ beam' = Step(q, new.keep)
        /\ computed' = computed + Len(new.keep)
        /\ visits' = visits + 1
        /\ observed' = observed \cup keep
        /\ memo' = IF engine = "memo"
                   THEN MemoInsert(memo, query,
                                   Completed(memo, q, new.keep, cutoff))
                   ELSE memo
        /\ LET now == Nearest(q, beam'.frontier, q.k)
               traced == engine = "spill" /\ ~widened
           IN /\ spill' = IF traced /\ query.eligible
                          THEN Spilled(spill, beam, q, new.keep) ELSE spill
              /\ trace' = IF traced THEN Observe(trace, now, visits + 1)
                          ELSE trace
              /\ tops' = IF traced THEN Append(tops, now) ELSE tops
  /\ UNCHANGED <<engine, phase, query, width, bound, top, widened, served>>

MustContinue ==
  /\ engine = "spill" /\ query.eligible /\ ~widened
  /\ visits > 0 /\ Open = {}
  /\ Triggered(trace, beam, View, visits, computed)

Continue ==
  /\ phase = "searching" /\ MustContinue
  /\ beam' = [beam EXCEPT !.frontier = Handoff(spill, beam, View)]
  /\ top' = Nearest(View, beam.frontier, query.k)
  /\ computed' = computed + Cardinality(CompletedSpill(spill, beam, View))
  /\ width' = query.beam + AddedWidth
  /\ bound' = Min({query.limit, visits + AddedVisits})
  /\ widened' = TRUE
  /\ UNCHANGED <<engine, phase, query, filter, visits, memo, scored, spill,
                 trace, tops, observed, served>>

Answer ==
  /\ phase = "searching" /\ ~MustContinue
  /\ Open = {} \/ visits >= bound
  /\ phase' = "answered"
  /\ beam' = IF widened THEN [beam EXCEPT !.frontier = @ \cup top] ELSE beam
  /\ UNCHANGED <<engine, query, filter, visits, computed, width, bound, memo,
                 scored, spill, trace, top, widened, tops, observed, served>>

Next ==
  \/ \E q \in UNION ToSet(Queries) : Begin(q)
  \/ Expand
  \/ Continue
  \/ Answer

Spec == Init /\ [][Next]_vars

-----------------------------------------------------------------------------

Filtered ==
  [n \in 0 .. query.slots - 1 |->
     IF filter.cells[n].epoch = filter.epoch THEN filter.cells[n].id ELSE None]

Started == phase # "idle"

Abstract == INSTANCE BeamSearch WITH
  frontier <- IF Started THEN Active ELSE {},
  visited <- IF Started THEN beam.visited ELSE {},
  seen <- IF Started THEN Filtered ELSE EmptyFilter(query)

(* Whatever the container, and whatever earlier queries left in the        *)
(* workspace, a search expands the same vertices in the same order, scores *)
(* as many distances and answers with the same frontier as the reference.  *)
ImplementsBeamSearch == Abstract!Spec

(* The beam forgets a vertex it has scored only for k others at least as   *)
(* near: trimming, the cutoff, the metric cut, collisions of the seen      *)
(* filter and the continuation lose none of the k nearest distances.       *)
NearestAreKept == Abstract!NearestAreKept

(* What the containers hold agrees with itself: positions and heap shape   *)
(* of the indexed heap, flags of the fixed frontier, every unvisited entry *)
(* of the dual heap still waiting with its sorted part nearest, memo       *)
(* entries of the current query exact; and the exceptions the containers   *)
(* throw on themselves are never thrown.                                   *)
ContainersAgree ==
  Started =>
    /\ ~beam.failed
    /\ engine = "indexed" => IndexedAgrees(beam, View)
    /\ engine = "fixed" => FixedAgrees(beam)
    /\ engine = "dual" =>
         /\ Open = Active \ beam.visited
         /\ beam.count = Cardinality(Active)
         /\ {e.id : e \in ToSet(beam.elite)} =
              Nearest(View, Active, Len(beam.elite))
    /\ \A x \in Nodes : Hit(memo, x) /\ engine = "memo" =>
                          memo.value[x] = query.dist[x]

(* The rolling counters of the stability trace are what a full history of  *)
(* the top k gives.  The search never makes more visits than the query     *)
(* allows; one that continues makes at most AddedVisits after those of its *)
(* history and keeps at most AddedWidth vertices more than its beam.       *)
TraceIsExact ==
  LET changed(n) == tops[n + 1] # tops[n]
      recent == {n \in 1 .. Len(tops) - 1 : n > Len(tops) - 1 - Window}
  IN Started /\ engine = "spill" =>
       /\ trace.changes = Cardinality({n \in recent : changed(n)})
       /\ trace.entries =
            Cardinality({p \in recent \X Nodes :
                           p[2] \in tops[p[1] + 1] \ tops[p[1]]})
       /\ trace.last = Max({0} \cup {n \in 1 .. Len(tops) - 1 : changed(n)})
       /\ visits <= query.limit
       /\ widened =>
            /\ visits <= Len(tops) - 1 + AddedVisits
            /\ phase = "searching" => Cardinality(Active) <= query.beam + AddedWidth

=============================================================================
