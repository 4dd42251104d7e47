---------------------------- MODULE ResidentData ----------------------------
(***************************************************************************)
(* The rows the same-resident LAION runs are about, and the engines that   *)
(* answer a query over them.  A row holds token labels and one number per  *)
(* attribute; a query asks for the rows of one or two tokens, with an      *)
(* interval of endpoint bins each, nearest to a row that is itself left    *)
(* out.  SIEVE sees only labels: a token, or a token with one bin.         *)
(*                                                                         *)
(* A run c holds rows, columns, csr (row to tokens), edges (attribute to   *)
(* inner edges) and value (attribute and row to a number, or NoValue), and *)
(* vec, one dimension standing for all of them, which names one label      *)
(* beyond the last row, too.  The SIEVE index and the beam search are      *)
(* external: the rows e.skip are never reached, e.stray pass the filter,   *)
(* e.twice are found twice.                                                *)
(***************************************************************************)
EXTENDS RetainedTop

CONSTANTS
  TokenAtoms,     (* TOKENS, 200                                           *)
  EndpointBins,   (* TOTAL_BINS, 564                                       *)
  MaxEdges        (* at most 257 edges, of which the outer two are infinite *)

ASSUME ResidentAssumption ==
  TokenAtoms \in Nat \ {0} /\ EndpointBins \in Nat /\ MaxEdges \in Nat

NoValue == -99

BaseRows(c) == 0 .. c.rows - 1

Increasing(s) == \A n \in 1 .. Len(s) - 1 : s[n] < s[n + 1]

BinsOf(c, a) == Len(c.edges[a]) + 1

(* The bins of all attributes before a.                                    *)
BinOffset(c, a) ==
  FoldLeft(LAMBDA n, b : IF b < a THEN n + BinsOf(c, b) ELSE n, 0,
           [b \in DOMAIN c.edges |-> b])

LoadData(c) ==
  /\ c.columns >= TokenAtoms
  /\ \A x \in BaseRows(c) :
       Increasing(c.csr[x]) /\ ToSet(c.csr[x]) \subseteq 0 .. c.columns - 1
  /\ \A a \in DOMAIN c.edges :
       /\ Len(c.edges[a]) <= MaxEdges
       /\ \A n \in 1 .. Len(c.edges[a]) - 1 : c.edges[a][n] <= c.edges[a][n + 1]
  /\ BinOffset(c, Len(c.edges) + 1) = EndpointBins

HasToken(c, x, t) == t \in ToSet(c.csr[x])

TokenRows(c, t) == {x \in BaseRows(c) : HasToken(c, x, t)}

(* upper_bound over the inner edges.                                       *)
BinOf(c, a, x) ==
  IF c.value[a][x] = NoValue THEN -1
  ELSE Cardinality({n \in DOMAIN c.edges[a] : c.edges[a][n] <= c.value[a][x]})

InInterval(c, x, i) == BinOf(c, i.of, x) >= i.lo /\ BinOf(c, i.of, x) < i.hi

MatchesSpec(c, q, x) ==
  /\ x < c.rows
  /\ CASE q.family = "equality" -> HasToken(c, x, q.primary)
       [] q.family = "conjunction" ->
            HasToken(c, x, q.primary) /\ HasToken(c, x, q.secondary)
       [] q.family = "range" ->
            HasToken(c, x, q.primary) /\ InInterval(c, x, q.first)
       [] q.family = "dnf2" ->
            \/ HasToken(c, x, q.primary) /\ InInterval(c, x, q.first)
            \/ HasToken(c, x, q.secondary) /\ InInterval(c, x, q.second)

IntervalsOf(q) ==
  CASE q.family = "range" -> {q.first}
    [] q.family = "dnf2" -> {q.first, q.second}
    [] OTHER -> {}

ParseSpec(c, q) ==
  /\ q.self < c.rows /\ q.primary < TokenAtoms
  /\ q.family \in {"conjunction", "dnf2"} =>
       q.secondary < TokenAtoms /\ q.secondary # q.primary
  /\ \A i \in IntervalsOf(q) : i.lo < i.hi

(* The rows read: all, or the first `perFamily' of each family.            *)
FirstOfFamily(pool, perFamily) ==
  SelectSeq([n \in DOMAIN pool |-> n],
            LAMBDA n : perFamily = 0 \/
              Cardinality({m \in 1 .. n : pool[m].family = pool[n].family})
                <= perFamily)

ReadWorkload(pool, perFamily) ==
  LET places == FirstOfFamily(pool, perFamily)
  IN [n \in DOMAIN places |-> pool[places[n]]]

QueryFamilies == {"equality", "conjunction", "range", "dnf2"}

WorkloadAccepted(c, pool, perFamily) ==
  /\ \A n \in DOMAIN pool : ParseSpec(c, pool[n])
  /\ IF perFamily = 0 THEN pool # <<>>
     ELSE \A f \in QueryFamilies :
            Cardinality({n \in DOMAIN pool : pool[n].family = f}) >= perFamily

-----------------------------------------------------------------------------
(* The exact support, from the postings.                                   *)

BranchRows(c, t, i) == {x \in TokenRows(c, t) : InInterval(c, x, i)}

SupportRows(c, q) ==
  CASE q.family = "equality" -> TokenRows(c, q.primary)
    [] q.family = "conjunction" ->
         TokenRows(c, q.primary) \cap TokenRows(c, q.secondary)
    [] q.family = "range" -> BranchRows(c, q.primary, q.first)
    [] q.family = "dnf2" -> BranchRows(c, q.primary, q.first)
                              \cup BranchRows(c, q.secondary, q.second)

LeaveOneOut(c, q) == SupportRows(c, q) \ {q.self}

SupportAccepted(c, q) ==
  /\ q.self \in SupportRows(c, q)
  /\ Cardinality(LeaveOneOut(c, q)) = q.support
  /\ q.support >= TopK

-----------------------------------------------------------------------------
(* SIEVE's labels.                                                         *)

CrossLabel(c, t, a, b) ==
  TokenAtoms + t * EndpointBins + BinOffset(c, a) + b

MetadataRow(c, x) ==
  LET tokens == SelectSeq(c.csr[x], LAMBDA t : t < TokenAtoms)
      Crossed(t) ==
        FoldLeft(LAMBDA s, a : IF BinOf(c, a, x) < 0 THEN s
                               ELSE Append(s, CrossLabel(c, t, a, BinOf(c, a, x))),
                 <<>>, [a \in DOMAIN c.edges |-> a])
  IN tokens \o FoldLeft(LAMBDA s, t : s \o Crossed(t), <<>>, tokens)

MetadataAccepted(c) ==
  /\ FoldLeft(LAMBDA n, x : n + Len(MetadataRow(c, x)), 0,
              Ascending(BaseRows(c))) = c.memberships
  /\ \A x \in BaseRows(c) :
       \A n \in 1 .. Len(MetadataRow(c, x)) - 1 :
         MetadataRow(c, x)[n] <= MetadataRow(c, x)[n + 1]

FilterAccepted(c, q) == \A i \in IntervalsOf(q) : i.hi <= BinsOf(c, i.of)

QueryLabels(c, q) ==
  LET Added(t, i) == {CrossLabel(c, t, i.of, b) : b \in i.lo .. i.hi - 1}
  IN CASE q.family = "equality" -> {q.primary}
       [] q.family = "conjunction" -> {q.primary, q.secondary}
       [] q.family = "range" -> Added(q.primary, q.first)
       [] q.family = "dnf2" ->
            Added(q.primary, q.first) \cup Added(q.secondary, q.second)

FilterRows(c, q) ==
  LET labels == QueryLabels(c, q) IN
  {x \in BaseRows(c) :
     IF q.family \in {"equality", "conjunction"}
     THEN labels \subseteq ToSet(MetadataRow(c, x))
     ELSE labels \cap ToSet(MetadataRow(c, x)) # {}}

-----------------------------------------------------------------------------
(* Answers.                                                                *)

From(c, q) ==
  [dist |-> [x \in DOMAIN c.vec |->
               (c.vec[x] - c.vec[q.self]) * (c.vec[x] - c.vec[q.self])]]

Ranked(c, q, S) ==
  LET d == From(c, q) IN
  [n \in 1 .. Cardinality(S) |->
     CHOOSE x \in S : Cardinality({y \in S : CandidateLess(d, y, x)}) = n - 1]

Found(c, q, S, e, limit) ==
  LET s == FoldLeft(LAMBDA r, x : r \o (IF x \in e.twice THEN <<x, x>> ELSE <<x>>),
                    <<>>, Ranked(c, q, S))
  IN SubSeq(s, 1, Min({limit, Len(s)}))

(* The query's row is removed and counted; k of the others are returned.   *)
WithoutSelf(q, found, hits) ==
  [ids |-> SubSeq(hits, 1, Min({TopK, Len(hits)})),
   removed |-> Cardinality({n \in DOMAIN found : found[n] = q.self})]

SieveQuery(c, q, e) ==
  LET found == Found(c, q, (FilterRows(c, q) \ e.skip) \cup e.stray, e, TopK + 1)
  IN WithoutSelf(q, found, SelectSeq(found, LAMBDA x : x # q.self))

(* A local graph holds the rows of its token alone.                        *)
GraphQuery(c, q, e) ==
  LET found == Found(c, q, TokenRows(c, q.primary) \ e.skip, e, c.pool)
      hits == SelectSeq(found, LAMBDA x : x # q.self)
  IN WithoutSelf(q, found, Ranked(c, q, ToSet(hits)))

ExactTop(c, q) ==
  Ranked(c, q, FoldLeft(LAMBDA best, x : Retain(From(c, q), best, TopK, x),
                        {}, Ascending(LeaveOneOut(c, q))))

ExactQuery(c, q) == [ids |-> ExactTop(c, q), removed |-> 1]

=============================================================================
