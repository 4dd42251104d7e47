----------------------------- MODULE BeamOrder ------------------------------
(***************************************************************************)
(* What every graph search of a shard shares: the (distance, id) order, a  *)
(* query's view of the graph, the direct-mapped seen filter, the cutoff    *)
(* and the metric cut.  A query q holds the neighbour lists `edges', the   *)
(* distances `dist', the starting points `starts', its own vertex `self',  *)
(* the parameters beam, k, cut (num / den), metric, limit and degree, the  *)
(* neighbour view offset and stride, and the size `slots' of the filter.   *)
(***************************************************************************)
EXTENDS Integers, SequencesExt

None == -1
Infinite == 1000      (* INT_MAX: above every distance *)

(* What the searches check of a query or are prepared for: at least k      *)
(* places in the beam, a place for every start, an offset below the        *)
(* stride, and prefixes that do not exceed their distances.                *)
IsQuery(q) ==
  LET nodes == DOMAIN q.dist IN
  /\ IsFiniteSet(nodes) /\ nodes \subseteq Nat
  /\ q \in [edges : [nodes -> Seq(nodes)], dist : [nodes -> 0 .. Infinite - 1],
            prefix : [nodes -> Nat], starts : Seq(nodes), self : Int,
            beam : Nat, k : Nat \ {0}, num : Nat, den : Nat \ {0},
            metric : BOOLEAN, limit : Nat, degree : Nat, offset : Nat,
            stride : Nat \ {0}, slots : Nat \ {0}, eligible : BOOLEAN,
            force : BOOLEAN]
  /\ q.k <= q.beam /\ Len(q.starts) <= q.beam /\ q.offset < q.stride
  /\ \A x \in nodes : q.prefix[x] <= q.dist[x]

Less(q, x, y) ==
  \/ q.dist[x] < q.dist[y]
  \/ q.dist[x] = q.dist[y] /\ x < y

Before(q, S, x) == {y \in S : Less(q, y, x)}

Nearest(q, S, n) == {x \in S : Cardinality(Before(q, S, x)) < n}

Ranked(q, S, n) == CHOOSE x \in S : Cardinality(Before(q, S, x)) = n

(* Entries greater than the pair (0, d) lie beyond d.                      *)
Beyond(q, d, x) == d < q.dist[x] \/ (d = q.dist[x] /\ 0 < x)

CutDistance(q, d) == (q.num * d) \div q.den

MetricCut(q, S) ==
  IF q.metric /\ Cardinality(S) > q.k
  THEN LET d == CutDistance(q, q.dist[Ranked(q, S, q.k)])
       IN {x \in S : ~Beyond(q, d, x)}
  ELSE S

(* Faulty cutoff: in force before the beam is full.                        *)
CutoffEarly(q, S, w) ==
  IF S = {} THEN Infinite ELSE q.dist[Ranked(q, S, Cardinality(S) - 1)]

Cutoff(q, S, w) ==
  IF Cardinality(S) < w THEN Infinite
  ELSE q.dist[Ranked(q, S, Cardinality(S) - 1)]

Slot(q, x) == x % q.slots

EmptyFilter(q) == [n \in 0 .. q.slots - 1 |-> None]

(* Places of the neighbours a search looks at: every stride-th from an     *)
(* offset, up to the degree limit.                                         *)
Row(q, x) ==
  {n \in 1 .. Len(q.edges[x]) :
     n <= q.degree /\ (n - 1) % q.stride = q.offset}

Look(q, a, y) ==
  IF y = q.self \/ a.filter[Slot(q, y)] = y THEN a
  ELSE [keep |-> Append(a.keep, y),
        filter |-> [a.filter EXCEPT ![Slot(q, y)] = y]]

(* The neighbours of x to score, and the filter after them.                *)
Unseen(q, x, filter) ==
  LET a[n \in 0 .. Len(q.edges[x])] ==
        IF n = 0 THEN [keep |-> <<>>, filter |-> filter]
        ELSE IF n \notin Row(q, x) THEN a[n - 1]
        ELSE Look(q, a[n - 1], q.edges[x][n])
  IN a[Len(q.edges[x])]

Sorted(q, S) == [n \in 1 .. Cardinality(S) |-> Ranked(q, S, n - 1)]

(* Position at which std::lower_bound inserts x into a sorted sequence.    *)
Place(q, s, x) == 1 + Cardinality({n \in 1 .. Len(s) : Less(q, s[n], x)})

(* Scored neighbours that beat the cutoff, in order.                       *)
Candidates(q, keep, cutoff) ==
  Sorted(q, {y \in ToSet(keep) : q.dist[y] < cutoff})

(* The same in two stages: a partial sum never exceeds the distance, so    *)
(* rejecting by it first loses nothing.                                    *)
StagedCandidates(q, keep, cutoff) ==
  Sorted(q, {y \in ToSet(keep) : q.prefix[y] < cutoff /\ q.dist[y] < cutoff})

(* Union of two sorted vectors, cut to the beam and to the metric cut.     *)
Merged(q, S, candidates, w) ==
  MetricCut(q, Nearest(q, S \cup ToSet(candidates), w))

=============================================================================
