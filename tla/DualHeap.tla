------------------------------ MODULE DualHeap ------------------------------
(***************************************************************************)
(* The dual-heap frontier: the k + 1 nearest sorted, the others in a max   *)
(* heap, the unvisited ones in a min heap, and an open-addressing table of *)
(* statuses.  Heap entries that have become stale are dropped late, by the *)
(* generation the table holds.  A call that would throw sets `failed'.     *)
(***************************************************************************)
EXTENDS BeamOrder

CONSTANTS
  TableMin,       (* smallest status table                                 *)
  TableFactor     (* status slots per beam entry                           *)

ASSUME TableAssumption == TableMin \in Nat \ {0} /\ TableFactor \in Nat \ {0}

(* Status table of the dual heap: open addressing with tombstones.         *)

Empty == -1
Tombstone == -2
FreeSlot == [key |-> Empty, gen |-> 0, active |-> FALSE, visited |-> FALSE]

TableSize(t) == Cardinality(DOMAIN t.slots)

Probe(t, x, p) == (x + p) % TableSize(t)

(* Probes that end a search for x: its own slot, or one never used.        *)
Stops(t, x) ==
  {p \in 0 .. TableSize(t) - 1 : t.slots[Probe(t, x, p)].key \in {x, Empty}}

Find(t, x) ==
  IF Stops(t, x) = {} THEN None
  ELSE LET n == Probe(t, x, Min(Stops(t, x)))
       IN IF t.slots[n].key = x THEN n ELSE None

(* Where x goes: its own slot, else the first tombstone on the way.        *)
InsertSlot(t, x) ==
  LET tombs == {p \in 0 .. TableSize(t) - 1 :
                  t.slots[Probe(t, x, p)].key = Tombstone}
      usable == Stops(t, x) \cup (IF Find(t, x) = None THEN tombs ELSE {})
  IN IF Find(t, x) # None THEN Find(t, x) ELSE Probe(t, x, Min(usable))

ClearTable(size) ==
  [slots |-> [n \in 0 .. size - 1 |-> FreeSlot], live |-> 0, tombs |-> 0,
   next |-> 0]

ResetTable(beam) ==
  LET fits == {p \in 0 .. 10 : TableMin * 2 ^ p >= beam * TableFactor}
  IN ClearTable(TableMin * 2 ^ Min(fits))

Rehash(t, size) ==
  FoldLeft(LAMBDA u, n :
             IF t.slots[n].key < 0 \/ ~(t.slots[n].active \/ t.slots[n].visited)
             THEN u
             ELSE [u EXCEPT !.slots[InsertSlot(u, t.slots[n].key)] = t.slots[n],
                            !.live = @ + 1],
           [ClearTable(size) EXCEPT !.next = t.next],
           [n \in 1 .. TableSize(t) |-> n - 1])

Compact(t) ==
  IF (t.live + t.tombs + 1) * 2 >= TableSize(t)
  THEN Rehash(t, IF (t.live + 1) * 2 >= TableSize(t) THEN TableSize(t) * 2
                 ELSE TableSize(t))
  ELSE IF t.tombs * 3 < TableSize(t) THEN t
  ELSE Rehash(t, TableSize(t))

IsActive(t, x, gen) ==
  LET n == Find(t, x) IN
  n # None /\ t.slots[n].gen = gen /\ t.slots[n].active

IsVisited(t, x) == Find(t, x) # None /\ t.slots[Find(t, x)].visited

(* A table already compacted, with x made active under a new generation.   *)
Activate(t, x) ==
  LET n == InsertSlot(t, x)
      old == t.slots[n]
      known == old.key = x
  IN [t EXCEPT !.slots[n] = [key |-> x, gen |-> t.next + 1, active |-> TRUE,
                             visited |-> known /\ old.visited],
               !.live = IF known THEN @ ELSE @ + 1,
               !.tombs = IF old.key = Tombstone THEN @ - 1 ELSE @,
               !.next = @ + 1]

(* A visited vertex stays in the table when it leaves the frontier.        *)
Deactivate(t, x, gen) ==
  LET n == Find(t, x) IN
  IF ~IsActive(t, x, gen) THEN t
  ELSE IF t.slots[n].visited THEN [t EXCEPT !.slots[n].active = FALSE]
  ELSE [t EXCEPT !.slots[n] = [FreeSlot EXCEPT !.key = Tombstone],
                 !.live = @ - 1, !.tombs = @ + 1]

-----------------------------------------------------------------------------
(* Dual heap: the k + 1 nearest sorted, the others in a max heap, the      *)
(* unvisited in a min heap; heap entries that are stale are dropped late.  *)

Elites(q) == IF q.beam < q.k + 1 THEN q.beam ELSE q.k + 1

DualReset(q) ==
  [elite |-> <<>>, tail |-> {}, pending |-> {}, table |-> ResetTable(q.beam),
   count |-> 0, visited |-> {}, failed |-> FALSE]

Live(b, e) == IsActive(b.table, e.id, e.gen)

Waiting(b, e) == Live(b, e) /\ ~IsVisited(b.table, e.id)

(* Popping stale tops leaves the live entries and what lies under them.    *)
CleanTail(b, q) ==
  [b EXCEPT !.tail = {e \in @ : \E l \in @ : Live(b, l)
                                             /\ ~Less(q, l.id, e.id)}]

CleanPending(b, q) ==
  [b EXCEPT !.pending = {e \in @ : \E l \in @ : Waiting(b, l)
                                                /\ ~Less(q, e.id, l.id)}]

TailTop(b, q) ==
  CHOOSE e \in b.tail : Live(b, e) /\ \A l \in b.tail :
                          Live(b, l) => ~Less(q, e.id, l.id)

DualFirst(b, q) ==
  CHOOSE e \in b.pending : Waiting(b, e) /\ \A l \in b.pending :
                             Waiting(b, l) => ~Less(q, l.id, e.id)

Drop(b, e) ==
  IF Live(b, e)
  THEN [b EXCEPT !.table = Deactivate(@, e.id, e.gen), !.count = @ - 1]
  ELSE b

EliteInsert(q, s, e) == InsertAt(s, Place(q, [n \in 1 .. Len(s) |-> s[n].id], e.id), e)

DualInsert(b, q, x) ==
  LET t == Compact(b.table)
      n == Find(t, x)
      u == Activate(t, x)
      e == [id |-> x, gen |-> u.next]
      c == [b EXCEPT !.table = u, !.count = @ + 1,
                     !.pending = IF IsVisited(u, x) THEN @ ELSE @ \cup {e}]
  IN IF n # None /\ t.slots[n].active THEN [b EXCEPT !.table = t]
     ELSE IF Len(b.elite) < Elites(q)
     THEN [c EXCEPT !.elite = EliteInsert(q, @, e)]
     ELSE IF Less(q, x, Last(b.elite).id)
     THEN [c EXCEPT !.tail = @ \cup {Last(b.elite)},
                    !.elite = EliteInsert(q, Front(@), e)]
     ELSE [c EXCEPT !.tail = @ \cup {e}]

DualRemoveFarthest(b0, q) ==
  LET b == CleanTail(b0, q) IN
  IF b.tail # {}
  THEN Drop([b EXCEPT !.tail = @ \ {TailTop(b, q)}], TailTop(b, q))
  ELSE IF b.elite = <<>> THEN [b EXCEPT !.failed = TRUE]
  ELSE Drop([b EXCEPT !.elite = Front(@)], Last(b.elite))

DualEntries(b) ==
  {e \in ToSet(b.elite) \cup b.tail : Live(b, e)}

DualActive(b) == {e.id : e \in DualEntries(b)}

(* The cut reaches into the sorted part: both parts are filled again.      *)
DualRebuild(b, q, d) ==
  LET out == {e \in DualEntries(b) : Beyond(q, d, e.id)}
      kept == DualEntries(b) \ out
      order == Sorted(q, {e.id : e \in kept})
      entry(x) == CHOOSE e \in kept : e.id = x
      few == IF Len(order) < Elites(q) THEN Len(order) ELSE Elites(q)
      c == FoldSet(LAMBDA e, acc : Drop(acc, e), b, out)
  IN [c EXCEPT !.elite = [n \in 1 .. few |-> entry(order[n])],
               !.tail = {entry(order[n]) : n \in few + 1 .. Len(order)}]

DualCut(b, q) ==
  IF Len(b.elite) <= q.k THEN [b EXCEPT !.failed = TRUE]
  ELSE LET d == CutDistance(q, q.dist[b.elite[q.k + 1].id])
           out == {e \in b.tail : Live(b, e) /\ Beyond(q, d, e.id)}
       IN IF Beyond(q, d, Last(b.elite).id) THEN DualRebuild(b, q, d)
          ELSE CleanTail([FoldSet(LAMBDA e, acc : Drop(acc, e), b, out)
                            EXCEPT !.tail = @ \ out], q)

DualMerge(b, q, candidates) ==
  LET c == FoldLeft(LAMBDA acc, x :
                      LET i == DualInsert(acc, q, x)
                      IN IF i.count > q.beam THEN DualRemoveFarthest(i, q)
                         ELSE i,
                    b, candidates)
  IN IF q.metric /\ c.count > q.k THEN DualCut(c, q) ELSE c

DualVisit(b, q) ==
  LET e == DualFirst(b, q) IN
  [b EXCEPT !.table.slots[Find(b.table, e.id)].visited = TRUE,
            !.pending = @ \ {e},
            !.visited = @ \cup {e.id}]

DualCutoff(b, q) ==
  LET c == CleanTail(b, q) IN
  IF b.count < q.beam THEN Infinite
  ELSE IF c.tail # {} THEN q.dist[TailTop(c, q).id]
  ELSE q.dist[Last(c.elite).id]

DualStep(b, q, keep) ==
  LET v == DualVisit(CleanPending(b, q), q) IN
  DualMerge(v, q, Candidates(q, keep, DualCutoff(v, q)))

=============================================================================
