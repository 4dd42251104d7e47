-------------------------- MODULE PredicateLayouts ---------------------------
(***************************************************************************)
(* The two physical orders of a labelled base: the predicate cube, sorted  *)
(* by bin, A, B and global id, and the pair-major base, sorted by A, B and *)
(* global id.  A layout holds the offsets of its cells, the two maps       *)
(* between positions and global ids, and the vectors by position; a vector *)
(* is named by the row whose vector it is.                                 *)
(*                                                                         *)
(* A data set d holds rows, the labels a, b and bin of every row, and the  *)
(* sizes of their domains.                                                 *)
(***************************************************************************)
EXTENDS RetainedTop

Refusal == <<"refused">>

BaseIds(d) == 0 .. d.rows - 1

FlatCell(d, x) == (d.bin[x] * d.as + d.a[x]) * d.bs + d.b[x]

PairIndex(d, x) == d.a[x] * d.bs + d.b[x]

FlatCells(d) == [x \in BaseIds(d) |-> FlatCell(d, x)]

PairIndices(d) == [x \in BaseIds(d) |-> PairIndex(d, x)]

CubeCells(d) == d.bins * d.as * d.bs

PairCells(d) == d.as * d.bs

(* Rows go to their cells in ascending order, so each cell stays sorted.   *)
Scatter(d, cells, cellOf) ==
  LET offsets == [c \in 0 .. cells |->
                    Cardinality({x \in BaseIds(d) : cellOf[x] < c})]
      end == FoldLeft(LAMBDA l, x :
               LET p == l.cursor[cellOf[x]] IN
               [cursor |-> [l.cursor EXCEPT ![cellOf[x]] = @ + 1],
                toPos |-> Append(l.toPos, p),
                toGlobal |-> (p :> x) @@ l.toGlobal],
               [cursor |-> offsets, toPos |-> <<>>, toGlobal |-> <<>>],
               [n \in 1 .. d.rows |-> n - 1])
  IN [offsets |-> offsets, toGlobal |-> end.toGlobal,
      toPos |-> [x \in BaseIds(d) |-> end.toPos[x + 1]],
      vectors |-> end.toGlobal]

PredicateCube(d) == Scatter(d, CubeCells(d), FlatCells(d))

PairMajorBase(d) == Scatter(d, PairCells(d), PairIndices(d))

(* Faulty audit: the order of the rows within a cell is not looked at.     *)
CellUnordered(d, l, cell, cellOf) ==
  \A p \in l.offsets[cell] .. l.offsets[cell + 1] - 1 :
    LET x == l.toGlobal[p]
    IN x \in BaseIds(d) /\ l.toPos[x] = p /\ cellOf[x] = cell
       /\ l.vectors[p] = x

(* The rows of a cell are its own, in order, and the maps are inverse.     *)
CellAgrees(d, l, cell, cellOf) ==
  \A p \in l.offsets[cell] .. l.offsets[cell + 1] - 1 :
    LET x == l.toGlobal[p]
    IN /\ x \in BaseIds(d)
       /\ l.toPos[x] = p
       /\ cellOf[x] = cell
       /\ p > l.offsets[cell] => l.toGlobal[p - 1] < x
       /\ l.vectors[p] = x

Audited(d, l, cells, cellOf) ==
  /\ l.offsets[0] = 0 /\ l.offsets[cells] = d.rows
  /\ \A c \in 0 .. cells - 1 :
       /\ l.offsets[c] <= l.offsets[c + 1] /\ l.offsets[c + 1] <= d.rows
       /\ CellAgrees(d, l, c, cellOf)
  /\ \A x \in BaseIds(d) :
       l.toPos[x] \in BaseIds(d) /\ l.toGlobal[l.toPos[x]] = x

CubeAudit(d, l) == Audited(d, l, CubeCells(d), FlatCells(d))

PairAudit(d, l) == Audited(d, l, PairCells(d), PairIndices(d))

-----------------------------------------------------------------------------
(* Slices, as the positions they hold.                                     *)

Positions(l, from, to) ==
  [n \in 1 .. l.offsets[to] - l.offsets[from] |-> l.offsets[from] + n - 1]

RangeSlice(d, l, lo, hi) ==
  Positions(l, lo * d.as * d.bs, (hi + 1) * d.as * d.bs)

CubeASlice(d, l, bin, a) ==
  Positions(l, (bin * d.as + a) * d.bs, (bin * d.as + a + 1) * d.bs)

CellSlice(d, l, bin, a, b) ==
  LET cell == (bin * d.as + a) * d.bs + b IN Positions(l, cell, cell + 1)

PairSlice(d, l, a, b) == Positions(l, a * d.bs + b, a * d.bs + b + 1)

PairASlice(d, l, a) == Positions(l, a * d.bs, (a + 1) * d.bs)

-----------------------------------------------------------------------------
(* The pair-major base's own exact scans.  dist gives the distance of a    *)
(* vector.                                                                 *)

Nearer(g, h) == g[1] < h[1] \/ (g[1] = h[1] /\ g[2] < h[2])

ConsiderHit(heap, k, hit) ==
  LET all == SortSeq(Append(heap, hit), Nearer)
  IN IF Len(all) > k THEN Front(all) ELSE all

HitsAt(l, dist, positions, k) ==
  FoldLeft(LAMBDA h, p : ConsiderHit(h, k, <<dist[l.vectors[p]], l.toGlobal[p]>>),
           <<>>, positions)

(* Segments are sorted, a repeated one is scanned once, and others must    *)
(* not overlap.                                                            *)
ExactTopKSegments(l, dist, segments, k) ==
  LET distinct == ToSet(segments)
      overlap == \E s, t \in distinct :
                   s # t /\ s.begin < t.end /\ t.begin < s.end
      sorted == SortSeq(SetToSeq(distinct), LAMBDA s, t :
                  s.begin < t.begin \/ (s.begin = t.begin /\ s.end < t.end))
      positions == FoldLeft(LAMBDA a, s :
                     a \o [n \in 1 .. s.end - s.begin |-> s.begin + n - 1],
                     <<>>, sorted)
  IN IF \E s \in distinct : s.begin > s.end \/ s.end > Cardinality(DOMAIN l.toPos)
     THEN Refusal
     ELSE IF overlap THEN Refusal
     ELSE HitsAt(l, dist, positions, k)

(* Postings of global ids or of positions; a row is scored once.           *)
ExactTopKPostings(l, dist, postings, k) ==
  LET at(p, v) == IF p.space = "global" THEN l.toPos[v] ELSE v
      listed == FoldLeft(LAMBDA a, p :
                  a \o [n \in DOMAIN p.values |-> at(p, p.values[n])],
                  <<>>, postings)
      first == SelectSeq([n \in DOMAIN listed |-> n], LAMBDA n :
                 \A m \in 1 .. n - 1 : listed[m] # listed[n])
  IN IF \E n \in DOMAIN postings : ~(ToSet(postings[n].values) \subseteq DOMAIN l.toPos)
     THEN Refusal
     ELSE HitsAt(l, dist, [n \in DOMAIN first |-> listed[first[n]]], k)

(* A posting of global ids becomes one of positions in place; the receipt  *)
(* says whether it can be turned back.                                     *)
CompilePosting(l, ids) ==
  LET valid == ToSet(ids) \subseteq DOMAIN l.toPos
      positions == SortSeq([n \in DOMAIN ids |-> l.toPos[ids[n]]], <)
      back == SortSeq([n \in DOMAIN ids |-> l.toGlobal[positions[n]]], <)
  IN [values |-> IF valid THEN positions ELSE ids,
      passed |-> /\ valid
                 /\ Cardinality(ToSet(positions)) = Len(positions)
                 /\ back = SortSeq(ids, <)]

=============================================================================
