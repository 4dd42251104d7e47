------------------------------ MODULE PairScan -------------------------------
(***************************************************************************)
(* The exact scans of a pair of tags: two ascending postings are           *)
(* intersected into offsets of the shorter one, and the rows behind the    *)
(* offsets are scored, all of them or only while they can still enter the  *)
(* top k.  A vector is the sequence of what its 32-byte groups add to the  *)
(* squared distance from the query; two groups make a cache line.          *)
(*                                                                         *)
(* A call c holds the postings `primary' and `secondary', whether the      *)
(* secondary has a bitmap, the base vectors, the order in which the packed *)
(* copy stores the groups, and k.                                          *)
(* Prefetches, alignment and null pointers are left out.                   *)
(***************************************************************************)
EXTENDS Integers, SequencesExt

CONSTANTS
  MaximumPrimarySupport,  (* kMaximumPrimarySupport: what an offset can name *)
  HighTag,                (* kHighTagBitmapThreshold                         *)
  BlockCandidates         (* kBlockCandidates, 16                            *)

ASSUME PairAssumption ==
  /\ MaximumPrimarySupport \in Nat \ {0}
  /\ HighTag \in Nat /\ HighTag <= MaximumPrimarySupport
  /\ BlockCandidates \in Nat \ {0}

Closer(e, f) ==
  e.distance < f.distance \/ (e.distance = f.distance /\ e.id < f.id)

Partial(v, groups) ==
  LET sum[g \in 0 .. groups] == IF g = 0 THEN 0 ELSE sum[g - 1] + v[g]
  IN sum[groups]

SquaredL2(v) == Partial(v, Len(v))

(* Stops at a checkpoint when the partial sum can no longer win; a         *)
(* frontier that is not full has no cutoff.                                *)
Bounded(v, id, frontier, k, checkpoints) ==
  LET lost == {g \in checkpoints :
                 ~Closer([distance |-> Partial(v, g), id |-> id], frontier[k])}
  IN IF Len(frontier) = k /\ lost # {}
     THEN [rejected |-> TRUE, distance |-> Partial(v, Min(lost))]
     ELSE [rejected |-> FALSE, distance |-> SquaredL2(v)]

(* After each step-th group, but never after the last one.                 *)
Checkpoints(c, step) == {g \in 1 .. Len(c.order) - 1 : g % step = 0}

Permute(v, order) == [g \in 1 .. Len(v) |-> v[order[g]]]

(* The proposed entry moves up past every entry it is closer than.         *)
InsertTopK(frontier, k, e) ==
  LET n == Min({m \in 1 .. Len(frontier) + 1 :
                  \A j \in m .. Len(frontier) : Closer(e, frontier[j])})
  IN [m \in 1 .. Min({Len(frontier) + 1, k}) |->
        IF m < n THEN frontier[m] ELSE IF m = n THEN e ELSE frontier[m - 1]]

(* The rows that offsets into the primary posting name.                    *)
Named(c, offsets) == [n \in 1 .. Len(offsets) |-> c.primary[offsets[n] + 1]]

(* The packed copy holds the vectors of the primary posting, permuted.     *)
Row(c, packed, id) ==
  IF packed THEN Permute(c.base[id], c.order) ELSE c.base[id]

Entry(c, id) == [distance |-> SquaredL2(c.base[id]), id |-> id]

Answer(c, frontier) ==
  [r \in 1 .. c.k |-> IF r <= Len(frontier) THEN frontier[r].id ELSE -1]

SweepOne(c, packed, checkpoints, frontier, id) ==
  LET s == Bounded(Row(c, packed, id), id, frontier, c.k, checkpoints)
  IN IF s.rejected THEN frontier
     ELSE InsertTopK(frontier, c.k, [distance |-> s.distance, id |-> id])

(* Scores the rows one after the other, through the bound of its           *)
(* checkpoints.                                                            *)
Sweep(c, packed, checkpoints, start, ids) ==
  LET f[n \in 0 .. Len(ids)] ==
        IF n = 0 THEN start
        ELSE SweepOne(c, packed, checkpoints, f[n - 1], ids[n])
  IN f[Len(ids)]

ScanExact(c, offsets) ==
  Answer(c, Sweep(c, FALSE, {}, <<>>, Named(c, offsets)))

ScanBounded(c, offsets) ==
  Answer(c, Sweep(c, FALSE, Checkpoints(c, 2), <<>>, Named(c, offsets)))

ScanPacked(c, offsets) ==
  Answer(c, Sweep(c, TRUE, {}, <<>>, Named(c, offsets)))

ScanPackedBounded(c, offsets) ==
  Answer(c, Sweep(c, TRUE, Checkpoints(c, 2), <<>>, Named(c, offsets)))

ScanPackedBounded32(c, offsets) ==
  Answer(c, Sweep(c, TRUE, Checkpoints(c, 1), <<>>, Named(c, offsets)))

ScanGlobalIds(c, ids) == Answer(c, Sweep(c, FALSE, {}, <<>>, ids))

-----------------------------------------------------------------------------
(* Cascades: k seeds are scored in full, then rows fall out line by line.  *)

(* The elements of a sequence that are in S, in their order.               *)
Sieve(s, S) ==
  LET out[n \in 0 .. Len(s)] ==
        IF n = 0 THEN <<>>
        ELSE IF s[n] \in S THEN Append(out[n - 1], s[n]) ELSE out[n - 1]
  IN out[Len(s)]

Seeds(c, ids) == Min({c.k, Len(ids)})

Seeded(c, ids) ==
  Sweep(c, TRUE, {}, <<>>, SubSeq(ids, 1, Seeds(c, ids)))

PartialEntry(c, id, lines) ==
  [distance |-> Partial(Row(c, TRUE, id), 2 * lines), id |-> id]

Survivors(c, ids, frontier, lines) ==
  Sieve(ids, {x \in ToSet(ids) :
                Closer(PartialEntry(c, x, lines), frontier[c.k])})

(* The last line is read only if the row still beats the frontier, which   *)
(* earlier rows of the same block may have tightened.                      *)
LastLine(c, frontier, ids, lines) == Sweep(c, TRUE, {2 * lines}, frontier, ids)

Block16(c, frontier, block) ==
  LET first == Survivors(c, block, frontier, 1)
      second == Survivors(c, first, frontier, 2)
  IN LastLine(c, frontier, second, 2)

(* The place of the last row of block b.                                   *)
Through(c, ids, b) == Min({Seeds(c, ids) + b * BlockCandidates, Len(ids)})

Block(c, ids, b) ==
  SubSeq(ids, Through(c, ids, b - 1) + 1, Through(c, ids, b))

ScanBlock16(c, offsets) ==
  LET ids == Named(c, offsets)
      blocks == (Len(ids) - Seeds(c, ids) + BlockCandidates - 1)
                  \div BlockCandidates
      f[b \in 0 .. blocks] ==
        IF b = 0 THEN Seeded(c, ids) ELSE Block16(c, f[b - 1], Block(c, ids, b))
  IN Answer(c, f[blocks])

ScanPrefix128(c, offsets) ==
  LET ids == Named(c, offsets)
      rest == SubSeq(ids, Seeds(c, ids) + 1, Len(ids))
      frontier == Seeded(c, ids)
  IN Answer(c, IF rest = <<>> THEN frontier
               ELSE LastLine(c, frontier, Survivors(c, rest, frontier, 2), 2))

-----------------------------------------------------------------------------
(* Intersections.  Offsets are held in 16 bits.                            *)

Offset16(n) == n % MaximumPrimarySupport

(* The places of the primary posting whose rows the secondary one has.     *)
Shared(c) == {n \in 1 .. Len(c.primary) : c.primary[n] \in ToSet(c.secondary)}

BitmapOffsets(c) == Sieve([n \in 1 .. Len(c.primary) |-> n], Shared(c))

(* Two cursors, the lower head advancing, both on a match.                 *)
MergeStep(c, a) ==
  IF a.i > Len(c.primary) \/ a.j > Len(c.secondary) THEN a
  ELSE LET p == c.primary[a.i]
           s == c.secondary[a.j]
       IN CASE p < s -> [a EXCEPT !.i = @ + 1]
            [] s < p -> [a EXCEPT !.j = @ + 1]
            [] p = s -> [i |-> a.i + 1, j |-> a.j + 1,
                         out |-> Append(a.out, a.i)]

MergeOffsets(c) ==
  LET most == Len(c.primary) + Len(c.secondary)
      a[n \in 0 .. most] ==
        IF n = 0 THEN [i |-> 1, j |-> 1, out |-> <<>>] ELSE MergeStep(c, a[n - 1])
  IN a[most].out

GallopStep(c, a, n) ==
  LET at == {m \in a.cursor .. Len(c.secondary) :
               c.secondary[m] >= c.primary[n]}
  IN IF at = {} THEN [a EXCEPT !.cursor = Len(c.secondary) + 1]
     ELSE IF c.secondary[Min(at)] = c.primary[n]
     THEN [cursor |-> Min(at) + 1, out |-> Append(a.out, n)]
     ELSE [a EXCEPT !.cursor = Min(at)]

GallopOffsets(c) ==
  LET a[n \in 0 .. Len(c.primary)] ==
        IF n = 0 THEN [cursor |-> 1, out |-> <<>>] ELSE GallopStep(c, a[n - 1], n)
  IN a[Len(c.primary)].out

Matches(c, strategy) ==
  CASE strategy = "bitmap" -> BitmapOffsets(c)
    [] strategy = "merge" -> MergeOffsets(c)
    [] strategy = "gallop" -> GallopOffsets(c)

LocalOffsets(c, strategy) ==
  LET m == Matches(c, strategy)
  IN [n \in 1 .. Len(m) |-> Offset16(m[n] - 1)]

GlobalIds(c, strategy) ==
  LET m == Matches(c, strategy) IN [n \in 1 .. Len(m) |-> c.primary[m[n]]]

(* Faulty choice: one row too many for the offsets.                        *)
ScratchOffByOne(c) ==
  IF Len(c.primary) <= MaximumPrimarySupport + 1 THEN "offset16" ELSE "global32"

Scratch(c) ==
  IF Len(c.primary) <= MaximumPrimarySupport THEN "offset16" ELSE "global32"

ChosenStrategy(c) ==
  IF c.bitmap THEN "bitmap"
  ELSE IF Len(c.secondary) > Len(c.primary) * 8 THEN "gallop" ELSE "merge"

(* Tags above the threshold must have a bitmap, pairs must be oriented.    *)
ComplementStrategy(c) ==
  CASE Len(c.primary) > Len(c.secondary) -> "refused"
    [] Len(c.primary) <= Len(c.secondary) /\ c.bitmap -> "bitmap"
    [] Len(c.primary) <= Len(c.secondary) /\ ~c.bitmap ->
         IF Len(c.secondary) > HighTag THEN "refused" ELSE "merge"

-----------------------------------------------------------------------------
(* Checked entries.                                                        *)

Strict(s) == \A n \in 2 .. Len(s) : s[n - 1] < s[n]

Accepted(c, offsets) ==
  /\ Len(c.primary) <= MaximumPrimarySupport
  /\ Strict(c.primary) /\ ToSet(c.primary) \subseteq DOMAIN c.base
  /\ Strict(offsets)
  /\ ToSet(offsets) \subseteq 0 .. Len(c.primary) - 1

AcceptedPacked(c, offsets) == Accepted(c, offsets) /\ Len(offsets) <= Len(c.primary)

=============================================================================
