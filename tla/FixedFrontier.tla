--------------------------- MODULE FixedFrontier ----------------------------
(***************************************************************************)
(* Two further frontiers.  The fixed frontier is the sorted vector of the  *)
(* reference with a visited flag beside each entry; an entry that comes    *)
(* back after it had left asks the epoch-stamped statuses.  The radix      *)
(* frontier keeps sorted buckets of distances, with a heap of unvisited    *)
(* vertices whose stale entries are dropped late.                          *)
(***************************************************************************)
EXTENDS BeamOrder

CONSTANT
  FixedEpochMax,  (* last epoch before every stamp is cleared *)
  RadixWidth      (* distances of one bucket                  *)

ASSUME FixedAssumption ==
  FixedEpochMax \in Nat \ {0} /\ RadixWidth \in Nat \ {0}

FixedNew(nodes) ==
  [frontier |-> <<>>, flags |-> <<>>, epoch |-> 0, visited |-> {},
   status |-> [x \in nodes |-> [stamp |-> 0, visited |-> FALSE]],
   failed |-> FALSE]

FixedReset(b, q) ==
  LET wraps == b.epoch + 1 > FixedEpochMax
      start == Sorted(q, ToSet(q.starts))
  IN [b EXCEPT !.epoch = IF wraps THEN 1 ELSE @ + 1,
               !.status = IF wraps
                          THEN [x \in DOMAIN @ |->
                                  [stamp |-> 0, visited |-> FALSE]]
                          ELSE @,
               !.frontier = start,
               !.flags = [n \in 1 .. Len(start) |-> FALSE],
               !.visited = {}]

EverVisited(b, x) == b.status[x].stamp = b.epoch /\ b.status[x].visited

(* Index of the first entry without a flag, 0 if there is none.            *)
FixedIndex(b) ==
  LET open == {n \in 1 .. Len(b.flags) : ~b.flags[n]}
  IN IF open = {} THEN 0 ELSE Min(open)

FixedPop(b) ==
  LET n == FixedIndex(b)
      x == b.frontier[n]
  IN IF EverVisited(b, x) THEN [b EXCEPT !.failed = TRUE]
     ELSE [b EXCEPT !.flags[n] = TRUE, !.visited = @ \cup {x},
                    !.status[x] = [stamp |-> b.epoch, visited |-> TRUE]]

(* Faulty commit: an entry that enters is taken for a new vertex.          *)
FixedCommitFresh(b, scratch) ==
  LET old(x) == {n \in 1 .. Len(b.frontier) : b.frontier[n] = x}
  IN [b EXCEPT !.frontier = scratch,
               !.flags = [n \in 1 .. Len(scratch) |->
                            IF old(scratch[n]) = {} THEN FALSE
                            ELSE b.flags[Min(old(scratch[n]))]]]

(* Entries that stay keep their flag, entries that enter are looked up,    *)
(* and looking a vertex up stamps it.                                      *)
FixedCommit(b, scratch) ==
  LET old(x) == {n \in 1 .. Len(b.frontier) : b.frontier[n] = x}
      entering == {x \in ToSet(scratch) : old(x) = {}}
  IN [b EXCEPT !.frontier = scratch,
               !.flags = [n \in 1 .. Len(scratch) |->
                            IF scratch[n] \in entering
                            THEN EverVisited(b, scratch[n])
                            ELSE b.flags[Min(old(scratch[n]))]],
               !.status = [x \in DOMAIN @ |->
                             IF x \in entering
                             THEN [stamp |-> b.epoch,
                                   visited |-> EverVisited(b, x)]
                             ELSE @[x]]]

FixedStep(b, q, keep) ==
  LET v == FixedPop(b)
      cutoff == Cutoff(q, ToSet(v.frontier), q.beam)
  IN FixedCommit(v, Sorted(q, Merged(q, ToSet(v.frontier),
                                     StagedCandidates(q, keep, cutoff),
                                     q.beam)))

FixedAgrees(b) ==
  \A n \in 1 .. Len(b.frontier) : b.flags[n] <=> b.frontier[n] \in b.visited

-----------------------------------------------------------------------------

Bucket(q, x) == q.dist[x] \div RadixWidth

RadixInsert(b, q, x) ==
  LET k == Bucket(q, x)
      s == IF k \in DOMAIN b.radix THEN b.radix[k] ELSE <<>>
  IN IF x \in b.active THEN b
     ELSE [b EXCEPT !.active = @ \cup {x},
                    !.unvisited = @ \cup {x},
                    !.radix = [m \in DOMAIN @ \cup {k} |->
                               IF m = k THEN InsertAt(s, Place(q, s, x), x)
                               ELSE @[m]]]

RadixInserts(b, q, s) ==
  LET a[n \in 0 .. Len(s)] ==
        IF n = 0 THEN b ELSE RadixInsert(a[n - 1], q, s[n])
  IN a[Len(s)]

RadixReset(q) ==
  RadixInserts([radix |-> <<>>, active |-> {}, unvisited |-> {},
                visited |-> {}, failed |-> FALSE], q, q.starts)

RadixFarthest(b) == Last(b.radix[Max(DOMAIN b.radix)])

RadixRemoveFarthest(b) ==
  LET k == Max(DOMAIN b.radix)
      s == Front(b.radix[k])
  IN [b EXCEPT !.active = @ \ {RadixFarthest(b)},
               !.radix = IF s = <<>>
                         THEN [m \in DOMAIN @ \ {k} |-> @[m]]
                         ELSE [@ EXCEPT ![k] = s]]

RadixRanked(b, n) ==
  LET below(k) == Cardinality(UNION {{m} \X (1 .. Len(b.radix[m])) :
                                       m \in {m \in DOMAIN b.radix : m < k}})
      k == CHOOSE m \in DOMAIN b.radix :
             below(m) <= n /\ n < below(m) + Len(b.radix[m])
  IN b.radix[k][n - below(k) + 1]

RadixTrim(b, n) ==
  LET s[m \in 0 .. Cardinality(b.active)] ==
        IF m = 0 THEN b
        ELSE LET c == s[m - 1] IN
             IF Cardinality(c.active) <= n THEN c
             ELSE RadixRemoveFarthest(c)
  IN s[Cardinality(b.active)]

RadixCut(b, q, d) ==
  LET s[m \in 0 .. Cardinality(b.active)] ==
        IF m = 0 THEN b
        ELSE LET c == s[m - 1] IN
             IF c.active = {} \/ ~Beyond(q, d, RadixFarthest(c)) THEN c
             ELSE RadixRemoveFarthest(c)
  IN s[Cardinality(b.active)]

(* Stale tops: vertices that left the beam, and repeated entries of        *)
(* vertices that have been visited.                                        *)
RadixOpen(b) == {x \in b.unvisited : x \in b.active /\ x \notin b.visited}

RadixStep(b, q, keep) ==
  LET x == Ranked(q, RadixOpen(b), 0)
      v == [b EXCEPT !.visited = @ \cup {x},
                     !.unvisited = {y \in @ : Less(q, x, y)}]
      cutoff == IF Cardinality(v.active) < q.beam THEN Infinite
                ELSE q.dist[RadixFarthest(v)]
      c == RadixTrim(RadixInserts(v, q, Candidates(q, keep, cutoff)), q.beam)
  IN IF q.metric /\ Cardinality(c.active) > q.k
     THEN RadixCut(c, q, CutDistance(q, q.dist[RadixRanked(c, q.k)]))
     ELSE c

=============================================================================
