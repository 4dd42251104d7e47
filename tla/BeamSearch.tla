----------------------------- MODULE BeamSearch -----------------------------
(***************************************************************************)
(* The graph search of one shard as the sorted-vector reference performs   *)
(* it: a frontier of at most `width' vertices in (distance, id) order, the *)
(* nearest unvisited one expanded next, its unseen neighbours scored,      *)
(* united with the frontier, and the frontier trimmed to its width and to  *)
(* the metric cut.  The seen filter is direct mapped, so a collision lets  *)
(* a vertex be scored again.  A search may be continued once over a wider  *)
(* frontier without losing the top of the first part.                      *)
(***************************************************************************)
EXTENDS BeamOrder

CONSTANTS
  Queries,        (* Queries[n]: what the n-th search may be asked for     *)
  AddedWidth,     (* width a continuation adds                             *)
  AddedVisits     (* visits a continuation adds                            *)

VARIABLES
  phase,          (* "idle", "searching" or "answered"                     *)
  query,          (* the search being performed                            *)
  frontier,       (* vertices in the beam                                  *)
  visited,        (* vertices expanded                                     *)
  seen,           (* the direct-mapped filter                              *)
  computed,       (* distances computed                                    *)
  width, bound,   (* beam and visit limits in force                        *)
  top,            (* nearest k kept by a continuation                      *)
  observed,       (* history: vertices scored so far                       *)
  served          (* history: searches begun                               *)

vars == <<phase, query, frontier, visited, seen, computed, width, bound,
          top, observed, served>>

Starts(q) == ToSet(q.starts)

Unvisited == frontier \ visited

Init ==
  /\ phase = "idle"
  /\ query = CHOOSE q \in Queries[1] : TRUE
  /\ frontier = {} /\ visited = {} /\ observed = {} /\ top = {}
  /\ seen = EmptyFilter(query)
  /\ computed = 0 /\ width = 0 /\ bound = 0 /\ served = 0

Begin(q) ==
  /\ phase # "searching" /\ served < Len(Queries)
  /\ q \in Queries[served + 1]
  /\ phase' = "searching"
  /\ query' = q
  /\ frontier' = Starts(q)
  /\ visited' = {} /\ top' = {}
  /\ observed' = Starts(q)
  /\ seen' = EmptyFilter(q)
  /\ computed' = Len(q.starts)
  /\ width' = q.beam
  /\ bound' = q.limit
  /\ served' = served + 1

Expand ==
  /\ phase = "searching"
  /\ Unvisited # {}
  /\ Cardinality(visited) < bound
  /\ LET x == Ranked(query, Unvisited, 0)
         new == Unseen(query, x, seen)
         cutoff == Cutoff(query, frontier, width)
         candidates == {y \in ToSet(new.keep) : query.dist[y] < cutoff}
     IN /\ visited' = visited \cup {x}
        /\ seen' = new.filter
        /\ computed' = computed + Len(new.keep)
        /\ observed' = observed \cup ToSet(new.keep)
        /\ frontier' =
             MetricCut(query, Nearest(query, frontier \cup candidates, width))
  /\ UNCHANGED <<phase, query, width, bound, top, served>>

(* A finished search goes on over its whole frontier and other vertices it *)
(* has scored but not visited; scoring them may take further distances.    *)
Widen(H, extra) ==
  /\ phase = "searching"
  /\ visited # {} /\ Unvisited = {}
  /\ width = query.beam
  /\ H \subseteq observed \ (visited \cup frontier)
  /\ Cardinality(frontier \cup H) <= query.beam + AddedWidth
  /\ frontier' = frontier \cup H
  /\ top' = Nearest(query, frontier, query.k)
  /\ width' = query.beam + AddedWidth
  /\ bound' = IF query.limit < Cardinality(visited) + AddedVisits
              THEN query.limit ELSE Cardinality(visited) + AddedVisits
  /\ computed' = computed + extra
  /\ UNCHANGED <<phase, query, visited, seen, observed, served>>

Answer ==
  /\ phase = "searching"
  /\ Unvisited = {} \/ Cardinality(visited) >= bound
  /\ phase' = "answered"
  /\ frontier' = frontier \cup top
  /\ UNCHANGED <<query, visited, seen, computed, width, bound, top, observed,
                 served>>

Next ==
  \/ \E q \in UNION ToSet(Queries) : Begin(q)
  \/ Expand
  \/ \E H \in SUBSET observed, extra \in 0 .. Cardinality(observed) :
       Widen(H, extra)
  \/ Answer

Spec == Init /\ [][Next]_vars

-----------------------------------------------------------------------------

(* The cut keeps ties with its pivot when it lies beyond every distance.   *)
CutIsLoose(q) ==
  \A x \in DOMAIN q.dist : q.dist[x] < CutDistance(q, q.dist[x])

(* The beam may forget a vertex it has scored only for k others at least   *)
(* as near: trimming, the cutoff, the metric cut, a collision of the seen  *)
(* filter and a continuation never lose one of the k nearest distances.    *)
NearestAreKept ==
  phase # "idle" /\ CutIsLoose(query) =>
    \A x \in observed \ frontier :
      Cardinality({y \in frontier : query.dist[y] <= query.dist[x]})
        >= query.k

=============================================================================
