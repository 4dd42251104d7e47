---------------------------- MODULE OrderedRanges ----------------------------
(***************************************************************************)
(* The executors of ranges over an ordered attribute, whose values are cut *)
(* into blocks with one graph each: the range bench, under both schedules  *)
(* and for one clause or two, the hierarchical bench, whose aligned nodes  *)
(* of several blocks have graphs too, and the 100k adapter.  A call c      *)
(* holds the attribute `value' of each row, the loaded subsets, the packed *)
(* order of the rows and its block offsets, the queries (each with its     *)
(* distances and its ranges), the beam, and what is known of the graphs:   *)
(* `lost[w]' are the rows that a search of a node of w blocks cannot reach *)
(* and `surplus' the rows beyond the pool that its frontier keeps.         *)
(***************************************************************************)
EXTENDS RetainedTop

CONSTANTS
  BlockWidth,       (* kBlockWidth, 25 or 500 values                       *)
  NumBlocks,        (* kNumBlocks, 200                                     *)
  WidestNode,       (* 128, blocks of the widest node                      *)
  BoundaryFactor,   (* boundary_factor, 4                                  *)
  GateQueries,      (* 10, queries of the first stage of the adapter       *)
  GateHits          (* 80, hits it must reach                              *)

ASSUME OrderedAssumption ==
  /\ BlockWidth \in Nat \ {0} /\ NumBlocks \in Nat \ {0}
  /\ BoundaryFactor \in Nat \ {0} /\ GateQueries \in Nat /\ GateHits \in Nat

Blocks == 0 .. NumBlocks - 1

ValidRange(r) == r.lo >= 0 /\ r.hi < BlockWidth * NumBlocks /\ r.lo <= r.hi

ValuesIn(r, values) ==
  Cardinality({v \in values : r.lo <= v /\ v <= r.hi})

ValuesOf(b) == b * BlockWidth .. b * BlockWidth + BlockWidth - 1

Overlap(r, b) == ValuesIn(r, ValuesOf(b))

(* Rows a search is asked for: k if all of its rows qualify, and more the  *)
(* fewer of the block's values do.                                         *)
PoolOf(overlap, full, rows) ==
  LET wanted == IF full THEN TopK
                ELSE (BoundaryFactor * TopK * BlockWidth + overlap - 1) \div overlap
  IN Min({wanted, rows})

(* beam_search over the graph of a node: its nearest reachable rows, at    *)
(* least the pool and at most the beam.                                    *)
Frontier(c, q, rows, pool, w) ==
  NearestIds(q, rows \ c.lost[w], Min({Max({c.beam, pool}), pool + c.surplus}))

Qualifies(c, r, x) == r.lo <= c.value[x] /\ c.value[x] <= r.hi

SearchBlock(c, q, r, b, overlap) ==
  LET rows == ToSet(c.subset[b])
      pool == PoolOf(overlap, overlap = BlockWidth, Cardinality(rows))
  IN Ascending({x \in Frontier(c, q, rows, pool, 1) : Qualifies(c, r, x)})

BlockSpan(r) == [n \in 1 .. r.hi \div BlockWidth - r.lo \div BlockWidth + 1 |->
                   r.lo \div BlockWidth + n - 1]

Tasks(c) ==
  FlattenSeq([n \in DOMAIN c.queries |->
    FlattenSeq([m \in DOMAIN c.queries[n].ranges |->
      [i \in DOMAIN BlockSpan(c.queries[n].ranges[m]) |->
         LET b == BlockSpan(c.queries[n].ranges[m])[i]
         IN [query |-> n, block |-> b, clause |-> m,
             overlap |-> Overlap(c.queries[n].ranges[m], b)]]])])

(* The nearest k of what was found, in order.                              *)
TakeNearest(q, merged) ==
  LET s == SortSeq(merged, LAMBDA x, y : CandidateLess(q, x, y))
  IN [j \in DOMAIN s \cap 1 .. TopK |-> s[j]]

(* Rows found for two clauses are merged by id; one clause needs no check. *)
FinishQuery(q, merged) ==
  TakeNearest(q, IF Len(q.ranges) > 1 THEN Ascending(ToSet(merged)) ELSE merged)

(* Block schedule: each task writes its own result, merged in task order.  *)
BlockSchedule(c) ==
  LET tasks == Tasks(c)
      found == [t \in DOMAIN tasks |->
                  SearchBlock(c, c.queries[tasks[t].query],
                              c.queries[tasks[t].query].ranges[tasks[t].clause],
                              tasks[t].block, tasks[t].overlap)]
      Merged(n) == FlattenSeq([t \in DOMAIN tasks |->
                     IF tasks[t].query = n THEN found[t] ELSE <<>>])
  IN [n \in DOMAIN c.queries |-> FinishQuery(c.queries[n], Merged(n))]

SearchSpan(c, q, r) ==
  FlattenSeq([n \in DOMAIN BlockSpan(r) |->
    SearchBlock(c, q, r, BlockSpan(r)[n], Overlap(r, BlockSpan(r)[n]))])

QuerySchedule(c) ==
  [n \in DOMAIN c.queries |->
     LET q == c.queries[n]
     IN FinishQuery(q, FlattenSeq([m \in DOMAIN q.ranges |->
                                     SearchSpan(c, q, q.ranges[m])]))]

(* The bench stops at a returned row that no clause admits.                *)
RangeAudit(c, answers) ==
  \A n \in DOMAIN answers : \A x \in ToSet(answers[n]) :
    \E m \in DOMAIN c.queries[n].ranges : Qualifies(c, c.queries[n].ranges[m], x)

LoadPredicates(c) ==
  \A n \in DOMAIN c.queries : \A m \in DOMAIN c.queries[n].ranges :
    ValidRange(c.queries[n].ranges[m])

RangeBench(c) ==
  IF ~LoadPredicates(c) THEN [pc |-> "refused"]
  ELSE IF ~RangeAudit(c, QuerySchedule(c)) \/ ~RangeAudit(c, BlockSchedule(c))
  THEN [pc |-> "refused"]
  ELSE [pc |-> "done", block |-> BlockSchedule(c), query |-> QuerySchedule(c)]

-----------------------------------------------------------------------------
(* The hierarchy.                                                          *)

PowersUpTo(n) == {2 ^ e : e \in {e \in 0 .. n : 2 ^ e <= n}}

AllNodes ==
  UNION {{<<first, first + w>> : first \in
                   {f \in Blocks : f % w = 0 /\ f + w <= NumBlocks}} :
                  w \in PowersUpTo(WidestNode)}

(* Faulty width: nodes of any width from any block.                        *)
CoverWidthUnaligned(first, end) ==
  Max({w \in PowersUpTo(NumBlocks) : first + w <= end})

CoverWidth(first, end) ==
  Max({w \in PowersUpTo(NumBlocks) : first % w = 0 /\ first + w <= end})

(* Aligned nodes from first up to end, each as wide as it can be.          *)
SegmentCover(first, end) ==
  LET From[f \in first .. Max({first, end})] ==
        IF f >= end THEN <<>>
        ELSE <<<<f, f + CoverWidth(f, end)>>>> \o From[f + CoverWidth(f, end)]
  IN From[first]

LoadOffsets(c) ==
  /\ c.offsets[1] = 0 /\ c.offsets[NumBlocks + 1] = Len(c.packed)
  /\ \A b \in 1 .. NumBlocks : c.offsets[b] <= c.offsets[b + 1]

(* BlockLocalPointRange and packed_to_original: the rows of a node.        *)
NodeRows(c, node) ==
  {c.packed[p] : p \in c.offsets[node[1] + 1] + 1 .. c.offsets[node[2] + 1]}

SearchNode(c, q, r, node, overlap, full) ==
  LET rows == NodeRows(c, node)
      pool == PoolOf(overlap, full, Cardinality(rows))
  IN Ascending({x \in Frontier(c, q, rows, pool, node[2] - node[1]) :
                  full \/ Qualifies(c, r, x)})

(* The first and the last block are searched as boundaries, even whole.    *)
HierarchyPlan(r) ==
  LET first == r.lo \div BlockWidth
      last == r.hi \div BlockWidth
      inner == SegmentCover(first + 1, last)
      Boundary(b, overlap) ==
        <<[node |-> <<b, b + 1>>, overlap |-> overlap, full |-> FALSE]>>
  IN IF first = last THEN Boundary(first, r.hi - r.lo + 1)
     ELSE Boundary(first, (first + 1) * BlockWidth - r.lo)
          \o [n \in DOMAIN inner |->
                [node |-> inner[n], overlap |-> BlockWidth, full |-> TRUE]]
          \o Boundary(last, r.hi - last * BlockWidth + 1)

HierarchyAnswer(c, q) ==
  LET r == q.ranges[1]
      plan == HierarchyPlan(r)
  IN TakeNearest(q,
       FlattenSeq([n \in DOMAIN plan |->
         SearchNode(c, q, r, plan[n].node, plan[n].overlap, plan[n].full)]))

(* A node that has no graph ends the run.                                  *)
NodesPresent(c) ==
  \A n \in DOMAIN c.queries :
    LET plan == HierarchyPlan(c.queries[n].ranges[1])
    IN \A m \in DOMAIN plan : plan[m].node \in AllNodes

Hierarchy(c) ==
  IF ~LoadPredicates(c) \/ ~LoadOffsets(c) \/ ~NodesPresent(c)
  THEN [pc |-> "refused"]
  ELSE [pc |-> "done",
        answers |-> [n \in DOMAIN c.queries |-> HierarchyAnswer(c, c.queries[n])]]

-----------------------------------------------------------------------------
(* The 100k adapter: partition, two stages and the gate between them.      *)

PartitionAccepted(c) ==
  LET loaded == FlattenSeq([n \in 1 .. NumBlocks |-> c.subset[n - 1]])
  IN /\ \A b \in Blocks : c.subset[b] # <<>>
     /\ \A b \in Blocks : \A x \in ToSet(c.subset[b]) :
          x \in DOMAIN c.value /\ c.value[x] \div BlockWidth = b
     /\ IsInjective(loaded)
     /\ Len(loaded) = Cardinality(DOMAIN c.value)

AdapterAnswer(c, q) == TakeNearest(q, SearchSpan(c, q, q.ranges[1]))

AuditResults(c, answers) ==
  LET Placed(n) == DOMAIN answers[n]
      Of(P(_, _)) == Cardinality({p \in (DOMAIN answers) \X (1 .. TopK) : P(p[1], p[2])})
  IN [hits |-> Of(LAMBDA n, j : j \in Placed(n) /\ answers[n][j] \in c.truth[n]),
      duplicates |-> Cardinality({n \in DOMAIN answers : ~IsInjective(answers[n])}),
      violations |-> Of(LAMBDA n, j : j \in Placed(n)
                          /\ ~Qualifies(c, c.queries[n].ranges[1], answers[n][j])),
      missing |-> Of(LAMBDA n, j : j \notin Placed(n))]

GatePasses(audit) ==
  /\ audit.hits >= GateHits /\ audit.duplicates = 0
  /\ audit.violations = 0 /\ audit.missing = 0

ExecuteStage(c, n) == [m \in 1 .. n |-> AdapterAnswer(c, c.queries[m])]

(* The two files of a stage are written once, into a directory in which a  *)
(* run before may have left its own: then this run ends.                   *)
PersistStage(c, a, stage, answers) ==
  IF stage \in c.kept THEN [a EXCEPT !.pc = "refused"]
  ELSE [a EXCEPT !.published = Append(@, answers)]

(* An existing graph ends the run before it searches.                      *)
FixedBlockAdapter(c) ==
  LET idle == [pc |-> "done", published |-> <<>>]
      refused == [idle EXCEPT !.pc = "refused"]
      first == ExecuteStage(c, GateQueries)
      one == PersistStage(c, idle, 1, first)
  IN IF ~LoadPredicates(c) \/ ~PartitionAccepted(c) \/ c.built # {} THEN refused
     ELSE IF one.pc = "refused" \/ ~GatePasses(AuditResults(c, first))
     THEN [one EXCEPT !.pc = "refused"]
     ELSE PersistStage(c, one, 2, ExecuteStage(c, Len(c.queries)))

=============================================================================
