------------------------------ MODULE LeafKernel ------------------------------
(***************************************************************************)
(* The two native leaf kernels, one call of one of them.  Both scan one or *)
(* two postings of row ids and admit the ids that satisfy the predicate:   *)
(* leaf_posting_merge writes them to an output array, fused_leaf_topk puts *)
(* them into a ring from which batches are scored, and returns the nearest *)
(* K.  Both check the postings while they read them, and both leave out    *)
(* the query's own row, which must be admitted once.                       *)
(*                                                                         *)
(* What a numeric interval admits is a set of ids, and a distance that is  *)
(* not finite is a negative one.  The checks of versions, pointers and     *)
(* interval bounds, which the Python binding has made before, are left     *)
(* out.  An action is one iteration of a loop.                             *)
(***************************************************************************)
EXTENDS Integers, Sequences, FiniteSets

CONSTANTS
  Universe,             (* rows of the base                                *)
  K,                    (* kTopK, 10 in the experiment                     *)
  Ring, Batch,          (* kPendingCapacity 32, kRetainedInterleaveRows 8  *)
  Requests              (* the calls                                       *)

Id == 0 .. Universe - 1

(* The right posting is absent but for a conjunction and a disjunction;    *)
(* the fused kernel has the two families with intervals only.              *)
Request ==
  {r \in [kernel : {"merge", "fused"},
          mode : {"equality", "conjunction", "range", "dnf2"},
          left : Seq(Int), right : Seq(Int),
          passLeft : SUBSET Id, passRight : SUBSET Id,
          self : Id, capacity : Nat \ {0}, distance : [Id -> Int]] :
     /\ r.kernel = "fused" => r.mode \in {"range", "dnf2"}
     /\ r.mode \in {"equality", "range"} => r.right = <<>>}

ASSUME SizesAssumption ==
  /\ Universe \in Nat \ {0} /\ K \in Nat \ {0}
  /\ Batch \in Nat \ {0} /\ Ring \in Nat /\ Batch <= Ring
ASSUME RequestsAssumption == Requests \subseteq Request

VARIABLES
  req,                  (* the call                                        *)
  pc,                   (* which loop it is in                             *)
  i, j,                 (* rows of left and right that were read           *)
  unique, removed,      (* kAuditUniqueCandidates, kAuditRemovedSelf       *)
  output,               (* merge: the output array                         *)
  pending,              (* fused: the ring, in its order                   *)
  lane,                 (* fused: rows of the batch still to be retained   *)
  draining,             (* fused: finish has begun                         *)
  best,                 (* fused: the heap of the K + 1 nearest            *)
  rows,                 (* fused: kFusedAuditDistanceRows                  *)
  top, tie,             (* fused: what is returned                         *)
  status

scanVars == <<i, j, unique, removed>>
fusedVars == <<pending, lane, draining, best, rows, top, tie>>
vars == <<req, pc, scanVars, output, fusedVars, status>>

Init ==
  /\ req \in Requests
  /\ pc = "scan" /\ status = "running"
  /\ i = 0 /\ j = 0 /\ unique = 0 /\ removed = 0
  /\ output = <<>> /\ pending = <<>> /\ lane = 0 /\ draining = FALSE
  /\ best = {} /\ rows = 0 /\ top = {} /\ tie = FALSE

At(loop) == status = "running" /\ pc = loop

Return(verdict) == status' = verdict /\ UNCHANGED pc

-----------------------------------------------------------------------------
(* What happens to an id that is admitted.                                 *)

(* merge: the array has a capacity, and is kept ascending.                 *)
Emit(id) ==
  /\ \/ /\ Len(output) >= req.capacity
        /\ Return("overflow") /\ UNCHANGED output
     \/ /\ Len(output) < req.capacity
        /\ output # <<>> /\ output[Len(output)] >= id
        /\ Return("bad_output") /\ UNCHANGED output
     \/ /\ Len(output) < req.capacity
        /\ output # <<>> => output[Len(output)] < id
        /\ output' = Append(output, id)
        /\ UNCHANGED <<pc, status>>
  /\ UNCHANGED <<pending, lane>>

(* fused: a full ring has its first batch scored.                          *)
Pend(id) ==
  /\ pending' = Append(pending, id)
  /\ IF Len(pending) + 1 = Ring
       THEN pc' = "score" /\ lane' = Batch
       ELSE UNCHANGED <<pc, lane>>
  /\ UNCHANGED <<output, status>>

Admit(id) ==
  /\ unique' = unique + 1
  /\ IF id = req.self
       THEN removed' = removed + 1
            /\ UNCHANGED <<output, pending, lane, pc, status>>
       ELSE UNCHANGED removed
            /\ IF req.kernel = "merge" THEN Emit(id) ELSE Pend(id)

Pass == UNCHANGED <<unique, removed, output, pending, lane, pc, status>>

-----------------------------------------------------------------------------
(* The scan.                                                               *)

MoreLeft == i < Len(req.left)
MoreRight == j < Len(req.right)

(* checked_id: the next row of a posting of which some rows were read.     *)
Checked(posting, read) ==
  /\ posting[read + 1] \in Id
  /\ read > 0 => posting[read + 1] > posting[read]

(* A conjunction ends with either posting, the others with both.           *)
More == IF req.mode = "conjunction" THEN MoreLeft /\ MoreRight
                                    ELSE MoreLeft \/ MoreRight

HeadsChecked ==
  /\ MoreLeft => Checked(req.left, i)
  /\ MoreRight => Checked(req.right, j)

Scanning == At("scan") /\ More

BadPosting ==
  /\ Scanning /\ ~HeadsChecked
  /\ Return("bad_posting")
  /\ UNCHANGED <<req, scanVars, output, fusedVars>>

LeftIs(id) == MoreLeft /\ req.left[i + 1] = id
RightIs(id) == MoreRight /\ req.right[j + 1] = id

(* The least of the rows at hand.                                          *)
NextId(id) ==
  /\ LeftIs(id) \/ RightIs(id)
  /\ MoreLeft => id <= req.left[i + 1]
  /\ MoreRight => id <= req.right[j + 1]

(* Every posting that has the row moves past it.                           *)
Advance(id) ==
  /\ i' = IF LeftIs(id) THEN i + 1 ELSE i
  /\ j' = IF RightIs(id) THEN j + 1 ELSE j
  /\ UNCHANGED <<req, draining, best, rows, top, tie>>

(* value_in_interval of a posting that has the row; equality has none.     *)
Kept(id) ==
  \/ LeftIs(id) /\ (req.mode = "equality" \/ id \in req.passLeft)
  \/ RightIs(id) /\ id \in req.passRight

ScanUnion ==
  /\ Scanning /\ HeadsChecked /\ req.mode # "conjunction"
  /\ \E id \in Id :
       /\ NextId(id)
       /\ Advance(id)
       /\ IF Kept(id) THEN Admit(id) ELSE Pass

(* Faulty: when the rows differ both postings move on.                     *)
ScanBothTogether ==
  /\ Scanning /\ HeadsChecked /\ req.mode = "conjunction"
  /\ \E id \in Id :
       /\ NextId(id)
       /\ i' = i + 1 /\ j' = j + 1
       /\ UNCHANGED <<req, draining, best, rows, top, tie>>
       /\ IF LeftIs(id) /\ RightIs(id) THEN Admit(id) ELSE Pass

ScanBoth ==
  /\ Scanning /\ HeadsChecked /\ req.mode = "conjunction"
  /\ \E id \in Id :
       /\ NextId(id)
       /\ Advance(id)
       /\ IF LeftIs(id) /\ RightIs(id) THEN Admit(id) ELSE Pass

EndMerge ==
  /\ At("scan") /\ ~More /\ req.kernel = "merge"
  /\ Return(IF removed # 1 THEN "missing_self" ELSE "ok")
  /\ UNCHANGED <<req, scanVars, output, fusedVars>>

EndFused ==
  /\ At("scan") /\ ~More /\ req.kernel = "fused"
  /\ \/ removed # 1 /\ Return("missing_self") /\ UNCHANGED draining
     \/ /\ removed = 1 /\ unique < K + 1
        /\ Return("below_k") /\ UNCHANGED draining
     \/ /\ removed = 1 /\ unique >= K + 1
        /\ pc' = "drain" /\ draining' = TRUE /\ UNCHANGED status
  /\ UNCHANGED <<req, scanVars, output, pending, lane, best, rows, top, tie>>

-----------------------------------------------------------------------------
(* The streaming top-k of the fused kernel.                                *)

(* candidate_less: by distance, and by id among equals.                    *)
Less(a, b) ==
  \/ req.distance[a] < req.distance[b]
  \/ req.distance[a] = req.distance[b] /\ a < b

Worst(S) == CHOOSE w \in S : \A s \in S : s = w \/ Less(s, w)

(* Faulty: the heap has no room for the one candidate past the cutoff.     *)
RetainTopOnly(S, id) ==
  IF Cardinality(S) < K THEN S \cup {id}
  ELSE IF Less(id, Worst(S)) THEN (S \ {Worst(S)}) \cup {id}
  ELSE S

Retain(S, id) ==
  IF Cardinality(S) < K + 1 THEN S \cup {id}
  ELSE IF Less(id, Worst(S)) THEN (S \ {Worst(S)}) \cup {id}
  ELSE S

(* The row at the front is scored: a distance that is not finite is fatal. *)
ScoreFront ==
  LET id == Head(pending)
  IN IF req.distance[id] < 0
       THEN Return("nonfinite") /\ UNCHANGED <<pending, lane, best, rows>>
       ELSE /\ pending' = Tail(pending)
            /\ best' = Retain(best, id)
            /\ UNCHANGED status
            /\ IF pc = "drain"
                 THEN rows' = rows + 1 /\ UNCHANGED <<pc, lane>>
                 ELSE /\ lane' = lane - 1
                      /\ rows' = IF lane = 1 THEN rows + Batch ELSE rows
                      /\ pc' = IF lane > 1 THEN "score"
                               ELSE IF draining THEN "drain" ELSE "scan"

(* One row of an interleaved batch.                                        *)
ScoreLane ==
  /\ At("score") /\ ScoreFront
  /\ UNCHANGED <<req, scanVars, output, draining, top, tie>>

(* finish: whole batches first ...                                         *)
DrainBatch ==
  /\ At("drain") /\ Len(pending) >= Batch
  /\ pc' = "score" /\ lane' = Batch
  /\ UNCHANGED <<req, scanVars, output, pending, draining, best, rows, top,
                 tie, status>>

(* ... then row by row.                                                    *)
DrainOne ==
  /\ At("drain") /\ pending # <<>> /\ Len(pending) < Batch
  /\ ScoreFront
  /\ UNCHANGED <<req, scanVars, output, draining, top, tie>>

(* The K least, in the order of their distances.                           *)
Least(S) == {c \in S : Cardinality({d \in S : Less(d, c)}) < K}

CutoffTie(S) ==
  \E c \in Least(S) : \E d \in S \ Least(S) :
    req.distance[c] = req.distance[d]

Finish ==
  /\ At("drain") /\ pending = <<>>
  /\ IF Cardinality(best) < K
       THEN Return("below_k") /\ UNCHANGED <<top, tie>>
       ELSE /\ top' = Least(best) /\ tie' = CutoffTie(best)
            /\ Return(IF rows + 1 # unique THEN "bad_argument" ELSE "ok")
  /\ UNCHANGED <<req, scanVars, output, pending, lane, draining, best, rows>>

Kernel ==
  \/ BadPosting \/ ScanUnion \/ ScanBoth \/ EndMerge \/ EndFused
  \/ ScoreLane \/ DrainBatch \/ DrainOne \/ Finish

Returned == status # "running" /\ UNCHANGED vars

Next == Kernel \/ Returned
Spec == Init /\ [][Next]_vars

-----------------------------------------------------------------------------
(* The reference definition.                                               *)

Elements(s) == {s[n] : n \in 1 .. Len(s)}

(* validate_posting.                                                       *)
Valid(posting) == \A n \in 0 .. Len(posting) - 1 : Checked(posting, n)

Answer ==
  LET left == Elements(req.left)
      right == Elements(req.right)
  IN CASE req.mode = "equality" -> left
       [] req.mode = "conjunction" -> left \cap right
       [] req.mode = "range" -> left \cap req.passLeft
       [] req.mode = "dnf2" ->
            (left \cap req.passLeft) \cup (right \cap req.passRight)

Support == Answer \ {req.self}

(* A conjunction stops reading with the shorter posting, and relies on     *)
(* postings that were validated before; the others need not.               *)
Trusted == req.mode = "conjunction" => Valid(req.left) /\ Valid(req.right)

-----------------------------------------------------------------------------
(* Properties.                                                             *)

(* Every variable has its type; the ring never holds more than it can, and *)
(* a batch is never larger than what the ring holds.                       *)
TypeOK ==
  /\ req \in Request
  /\ pc \in {"scan", "score", "drain"}
  /\ i \in 0 .. Len(req.left) /\ j \in 0 .. Len(req.right)
  /\ unique \in Nat /\ removed \in Nat
  /\ output \in Seq(Id) /\ Len(output) <= req.capacity
  /\ pending \in Seq(Id) /\ Len(pending) <= Ring
  /\ lane \in 0 .. Batch
  /\ (pc = "score" => lane > 0 /\ lane <= Len(pending))
  /\ draining \in BOOLEAN
  /\ best \subseteq Id
  /\ rows \in Nat
  /\ top \subseteq Id /\ tie \in BOOLEAN
  /\ status \in {"running", "ok", "bad_posting", "overflow", "bad_output",
                 "missing_self", "below_k", "nonfinite", "bad_argument"}

(* The merge kernel returns the rows that satisfy the predicate, each once *)
(* and in ascending order, without the query's own row, which is in the    *)
(* answer: whatever the postings were, but for a conjunction.              *)
MergeIsExact ==
  status = "ok" /\ req.kernel = "merge" /\ Trusted =>
    /\ req.self \in Answer
    /\ Elements(output) = Support
    /\ \A m, n \in 1 .. Len(output) : m < n => output[m] < output[n]

(* The fused kernel returns the K nearest rows of the whole answer, by     *)
(* distance and id, and says whether the cut goes through equals.          *)
FusedIsExact ==
  status = "ok" /\ req.kernel = "fused" =>
    /\ req.self \in Answer
    /\ top = Least(Support)
    /\ tie <=> CutoffTie(Support)

(* A refusal has its reason: an overflow is a support larger than the      *)
(* capacity, a missing row is no answer, and a support said to be below K  *)
(* is.                                                                     *)
RefusalsAreRight ==
  /\ status = "overflow" /\ Trusted => Cardinality(Support) > req.capacity
  /\ status = "missing_self" /\ Trusted => req.self \notin Answer
  /\ status = "below_k" => Cardinality(Support) < K
  /\ status = "nonfinite" => \E id \in Support : req.distance[id] < 0

(* The kernels' checks of their own work never fail.                       *)
SelfChecksHold == status \notin {"bad_output", "bad_argument"}

=============================================================================
