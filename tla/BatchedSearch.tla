--------------------------- MODULE BatchedSearch ----------------------------
(***************************************************************************)
(* The sorted-vector search itself and what is attached to it: the memo of *)
(* exact distances for replays of one query, the trace of changes of the   *)
(* top k over a rolling window, and the records of vertices lost by width, *)
(* cutoff or prefix from which a finished search may be continued.         *)
(***************************************************************************)
EXTENDS BeamOrder

CONSTANTS
  AddedWidth,     (* width a continuation adds                             *)
  AddedVisits,    (* visits a continuation adds                            *)
  Completions,    (* prefix records a continuation may complete            *)
  Window,         (* visits the trace looks back                           *)
  AgeMax,         (* a continuation needs a change of the top this recent  *)
  ComputedMin,    (* and this many distances computed                      *)
  MemoEpochMax    (* last epoch before the memo's stamps are cleared       *)

ASSUME BatchedAssumption ==
  /\ AddedWidth \in Nat \ {0} /\ AddedVisits \in Nat /\ Completions \in Nat
  /\ Window \in Nat \ {0} /\ MemoEpochMax \in Nat \ {0}

VectorReset(q) ==
  [frontier |-> ToSet(q.starts), visited |-> {}, failed |-> FALSE]

VectorStep(b, q, keep, w) ==
  LET x == Ranked(q, b.frontier \ b.visited, 0)
      candidates == StagedCandidates(q, keep, Cutoff(q, b.frontier, w))
  IN [b EXCEPT !.visited = @ \cup {x},
               !.frontier = Merged(q, @, candidates, w)]

-----------------------------------------------------------------------------

MemoNew(nodes) ==
  [value |-> [x \in nodes |-> 0], stamp |-> [x \in nodes |-> 0], epoch |-> 0]

MemoBegin(m) ==
  IF m.epoch = MemoEpochMax
  THEN [m EXCEPT !.stamp = [x \in DOMAIN @ |-> 0], !.epoch = 1]
  ELSE [m EXCEPT !.epoch = @ + 1]

Hit(m, x) == m.stamp[x] = m.epoch

(* Distances as this search sees them: what the memo holds is not computed *)
(* again.                                                                  *)
Recalled(m, q, dist, new) ==
  [x \in DOMAIN dist |-> IF x \notin new THEN dist[x]
                         ELSE IF Hit(m, x) THEN m.value[x] ELSE q.dist[x]]

(* Only distances that were completed enter the memo, never a partial sum. *)
MemoInsert(m, q, new) ==
  [m EXCEPT !.value = [x \in DOMAIN @ |->
                         IF x \in new THEN q.dist[x] ELSE @[x]],
            !.stamp = [x \in DOMAIN @ |->
                         IF x \in new THEN m.epoch ELSE @[x]]]

(* A remembered distance meets the cutoff without its prefix.              *)
MemoCandidates(m, q, keep, cutoff) ==
  Sorted(q, {y \in ToSet(keep) :
               q.dist[y] < cutoff /\ (Hit(m, y) \/ q.prefix[y] < cutoff)})

MemoStep(b, m, q, keep) ==
  LET x == Ranked(q, b.frontier \ b.visited, 0)
      cutoff == Cutoff(q, b.frontier, q.beam)
  IN [b EXCEPT !.visited = @ \cup {x},
               !.frontier = Merged(q, @, MemoCandidates(m, q, keep, cutoff),
                                   q.beam)]

Completed(m, q, keep, cutoff) ==
  {y \in ToSet(keep) : ~Hit(m, y) /\ q.prefix[y] < cutoff}

-----------------------------------------------------------------------------

TraceReset(q) ==
  [top |-> Nearest(q, ToSet(q.starts), q.k), last |-> 0,
   changed |-> [n \in 0 .. Window - 1 |-> 0], changes |-> 0,
   entered |-> [n \in 0 .. Window - 1 |-> 0], entries |-> 0]

(* Faulty trace: a slot is overwritten before its count is taken off.      *)
ObserveAdds(t, top, visit) ==
  LET slot == (visit - 1) % Window
      change == IF top = t.top THEN 0 ELSE 1
      entry == Cardinality(top \ t.top)
  IN [top |-> top,
      last |-> IF change = 1 THEN visit ELSE t.last,
      changed |-> [t.changed EXCEPT ![slot] = change],
      changes |-> t.changes + change,
      entered |-> [t.entered EXCEPT ![slot] = entry],
      entries |-> t.entries + entry]

Observe(t, top, visit) ==
  LET slot == (visit - 1) % Window
      change == IF top = t.top THEN 0 ELSE 1
      entry == Cardinality(top \ t.top)
  IN [top |-> top,
      last |-> IF change = 1 THEN visit ELSE t.last,
      changed |-> [t.changed EXCEPT ![slot] = change],
      changes |-> t.changes - t.changed[slot] + change,
      entered |-> [t.entered EXCEPT ![slot] = entry],
      entries |-> t.entries - t.entered[slot] + entry]

-----------------------------------------------------------------------------

NoSpill == [width |-> {}, cutoff |-> {}, prefix |-> <<>>]

(* What one expansion loses: entries a wider beam would have kept, scored  *)
(* neighbours past the cutoff but within the metric cut, and neighbours    *)
(* rejected by prefix, with the loosest cut they met.                      *)
Spilled(s, b, q, keep) ==
  LET cutoff == Cutoff(q, b.frontier, q.beam)
      metric == IF q.metric /\ Cardinality(b.frontier) > q.k
                THEN CutDistance(q, q.dist[Ranked(q, b.frontier, q.k)])
                ELSE Infinite
      all == b.frontier \cup ToSet(StagedCandidates(q, keep, cutoff))
      kept == MetricCut(q, Nearest(q, all, q.beam))
      wider == MetricCut(q, Nearest(q, all, q.beam + AddedWidth))
      rejected == {y \in ToSet(keep) : q.prefix[y] >= cutoff}
      met(y) == IF y \in DOMAIN s.prefix
                THEN Max({s.prefix[y], metric}) ELSE metric
  IN [width |-> s.width \cup (wider \ kept),
      cutoff |-> s.cutoff \cup {y \in ToSet(keep) \ rejected :
                                  cutoff <= q.dist[y] /\ q.dist[y] <= metric},
      prefix |-> [y \in DOMAIN s.prefix \cup rejected |->
                    IF y \in rejected THEN met(y) ELSE s.prefix[y]]]

(* The search ended at a narrow boundary, recently disturbed, after much   *)
(* work (or a forced one with a full beam).                                *)
Triggered(t, b, q, visits, computed) ==
  LET n == Cardinality(b.frontier)
      d(r) == q.dist[Ranked(q, b.frontier, r)]
      narrow == n > q.k /\ d(q.k - 1) > 0 /\ 1000 * d(q.k) <= 1006 * d(q.k - 1)
  IN \/ q.force /\ n = q.beam
     \/ narrow /\ visits - t.last <= AgeMax /\ computed >= ComputedMin

Lost(s, b) == (s.width \cup s.cutoff) \ b.visited

LowerBoundLess(q, x, y) ==
  q.prefix[x] < q.prefix[y] \/ (q.prefix[x] = q.prefix[y] /\ x < y)

(* Prefix records are completed in the order of their bounds.              *)
CompletedSpill(s, b, q) ==
  LET open == DOMAIN s.prefix \ (b.visited \cup Lost(s, b))
  IN {y \in open :
        Cardinality({z \in open : LowerBoundLess(q, z, y)}) < Completions}

Handoff(s, b, q) ==
  LET found == {y \in CompletedSpill(s, b, q) : q.dist[y] <= s.prefix[y]}
      room == q.beam + AddedWidth - Cardinality(b.frontier)
  IN b.frontier
     \cup Nearest(q, (Lost(s, b) \cup found) \ b.frontier, room)

=============================================================================
