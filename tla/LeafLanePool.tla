----------------------------- MODULE LeafLanePool -----------------------------
(***************************************************************************)
(* LeafLanePool: eight preallocated output arenas, one per lane, that the  *)
(* threads of a batch bind to.  The coordinator prepares a batch, each     *)
(* worker thread binds itself to a lane and runs requests in the lane's    *)
(* arena, and the coordinator finishes the batch.  The native kernel runs  *)
(* without the interpreter lock, so workers really overlap in it.          *)
(*                                                                         *)
(* The class is a library: what its callers do is the environment.  With   *)
(* Joined, the coordinator waits for its workers before finish_batch, as   *)
(* a thread pool that collects its results does; without it, a worker may  *)
(* still be at work.                                                       *)
(***************************************************************************)
EXTENDS Naturals, FiniteSets

CONSTANTS
  Thread, Lane,
  None,
  MaxGeneration,        (* bound: batches prepared                         *)
  Joined                (* the coordinator joins its workers first         *)

ASSUME NoneAssumption == None \notin Thread \cup Lane
ASSUME GenerationAssumption == MaxGeneration \in Nat
ASSUME JoinedAssumption == Joined \in BOOLEAN

VARIABLES
  generation, prepared, bindings,   (* the shared state under _lock         *)
  released,             (* release() has dropped the arenas                *)
  local,                (* each thread's threading.local                   *)
  tpc,                  (* where each worker thread is                     *)
  failed,               (* the thread's last execute raised                *)
  arena,                (* who wrote each arena last, or None: partial     *)
  members,              (* threads that have a batch and have not left it  *)
  finishing             (* finish_batch has validated the bindings         *)

shared == <<generation, prepared, bindings, released, finishing>>
vars == <<shared, local, tpc, failed, arena, members>>

Unset == [generation |-> 0, lane |-> None, active |-> FALSE, cursor |-> FALSE]

Init ==
  /\ generation = 0 /\ prepared = FALSE /\ released = FALSE
  /\ bindings = [t \in Thread |-> None]
  /\ local = [t \in Thread |-> Unset]
  /\ tpc = [t \in Thread |-> "idle"]
  /\ failed = [t \in Thread |-> FALSE]
  /\ arena = [l \in Lane |-> None]
  /\ members = {} /\ finishing = FALSE

Bound == {bindings[t] : t \in Thread} \ {None}

-----------------------------------------------------------------------------
(* The coordinator.                                                        *)

(* Faulty: the bindings of the last batch are kept.                        *)
PrepareKeepsBindings ==
  /\ ~prepared /\ ~finishing
  /\ generation < MaxGeneration
  /\ generation' = generation + 1
  /\ prepared' = TRUE
  /\ UNCHANGED <<bindings, released, finishing, local, tpc, failed, arena,
                 members>>

PrepareBatch ==
  /\ ~prepared /\ ~finishing
  /\ generation < MaxGeneration
  /\ generation' = generation + 1
  /\ bindings' = [t \in Thread |-> None]
  /\ prepared' = TRUE
  /\ UNCHANGED <<released, finishing, local, tpc, failed, arena, members>>

(* finish_batch takes the lock twice: validate_batch_bindings, ...         *)
ValidateBindings ==
  /\ prepared /\ ~finishing
  /\ Bound = Lane
  /\ Joined => members = {}
  /\ finishing' = TRUE
  /\ UNCHANGED <<generation, prepared, bindings, released, local, tpc, failed,
                 arena, members>>

(* ... then the flag.                                                      *)
FinishBatch ==
  /\ finishing
  /\ prepared' = FALSE
  /\ finishing' = FALSE
  /\ UNCHANGED <<generation, bindings, released, local, tpc, failed, arena,
                 members>>

Release ==
  /\ ~prepared /\ ~released
  /\ released' = TRUE
  /\ UNCHANGED <<generation, prepared, bindings, finishing, local, tpc, failed,
                 arena, members>>

Coordinator == PrepareBatch \/ ValidateBindings \/ FinishBatch \/ Release

-----------------------------------------------------------------------------
(* A worker thread.                                                        *)

(* Faulty: only the thread is looked up.                                   *)
BindAnyLane(t, l) ==
  /\ tpc[t] = "idle" /\ prepared
  /\ bindings[t] = None
  /\ bindings' = [bindings EXCEPT ![t] = l]
  /\ local' = [local EXCEPT ![t].lane = l]
  /\ tpc' = [tpc EXCEPT ![t] = "binding"]
  /\ members' = members \cup {t}
  /\ UNCHANGED <<generation, prepared, released, finishing, failed, arena>>

(* lane_ready binds under the lock ...                                     *)
BindLane(t, l) ==
  /\ tpc[t] = "idle" /\ prepared
  /\ bindings[t] = None /\ l \notin Bound
  /\ bindings' = [bindings EXCEPT ![t] = l]
  /\ local' = [local EXCEPT ![t].lane = l]
  /\ tpc' = [tpc EXCEPT ![t] = "binding"]
  /\ members' = members \cup {t}
  /\ UNCHANGED <<generation, prepared, released, finishing, failed, arena>>

(* Faulty: what the thread's last request left is not reset.               *)
SetGenerationOnly(t) ==
  /\ tpc[t] = "binding"
  /\ local' = [local EXCEPT ![t].generation = generation]
  /\ failed' = [failed EXCEPT ![t] = FALSE]
  /\ tpc' = [tpc EXCEPT ![t] = "idle"]
  /\ UNCHANGED <<shared, arena, members>>

(* ... and sets the thread's own record after it: the generation it reads  *)
(* here need not be the one it bound in.                                   *)
SetLocal(t) ==
  /\ tpc[t] = "binding"
  /\ local' = [local EXCEPT ![t] = [generation |-> generation, lane |-> @.lane,
                                    active |-> FALSE, cursor |-> FALSE]]
  /\ failed' = [failed EXCEPT ![t] = FALSE]
  /\ tpc' = [tpc EXCEPT ![t] = "idle"]
  /\ UNCHANGED <<shared, arena, members>>

Working(t) == tpc[t] = "idle" /\ t \in members

(* Any thread may ask for a request, one that has never bound a lane too,  *)
(* but for one that has left this batch.                                   *)
MayBegin(t) ==
  /\ tpc[t] = "idle"
  /\ local[t].generation = generation => t \in members

BeginRequest(t) ==
  /\ MayBegin(t)
  /\ prepared /\ local[t].generation = generation /\ ~local[t].active
  /\ local' = [local EXCEPT ![t] = [@ EXCEPT !.active = TRUE,
                                                !.cursor = FALSE]]
  /\ failed' = [failed EXCEPT ![t] = FALSE]
  /\ UNCHANGED <<shared, tpc, arena, members>>

(* execute asks only whether the request is active.                        *)
ExecuteStart(t) ==
  /\ Working(t)
  /\ local[t].active /\ ~released
  /\ arena' = [arena EXCEPT ![local[t].lane] = None]
  /\ tpc' = [tpc EXCEPT ![t] = "native"]
  /\ UNCHANGED <<shared, local, failed, members>>

ExecuteReturns(t) ==
  /\ tpc[t] = "native" /\ ~released
  /\ arena' = [arena EXCEPT ![local[t].lane] = t]
  /\ local' = [local EXCEPT ![t] = [@ EXCEPT !.cursor = TRUE]]
  /\ failed' = [failed EXCEPT ![t] = FALSE]
  /\ tpc' = [tpc EXCEPT ![t] = "idle"]
  /\ UNCHANGED <<shared, members>>

(* The kernel fails after it has written part of the arena.                *)
ExecuteRaises(t) ==
  /\ tpc[t] = "native"
  /\ failed' = [failed EXCEPT ![t] = TRUE]
  /\ tpc' = [tpc EXCEPT ![t] = "idle"]
  /\ UNCHANGED <<shared, local, arena, members>>

(* end_request returns the cursor, which must be that of a support.        *)
EndRequest(t) ==
  /\ Working(t)
  /\ local[t].active /\ local[t].cursor
  /\ local' = [local EXCEPT ![t] = [@ EXCEPT !.active = FALSE]]
  /\ UNCHANGED <<shared, tpc, failed, arena, members>>

AbortRequest(t) ==
  /\ Working(t)
  /\ local' = [local EXCEPT ![t] = [@ EXCEPT !.active = FALSE,
                                                !.cursor = FALSE]]
  /\ UNCHANGED <<shared, tpc, failed, arena, members>>

(* The worker's function returns, or raises in the middle of a request.    *)
Leave(t) ==
  /\ Working(t)
  /\ members' = members \ {t}
  /\ UNCHANGED <<shared, local, tpc, failed, arena>>

Worker ==
  \E t \in Thread :
    \/ \E l \in Lane : BindLane(t, l)
    \/ SetLocal(t) \/ BeginRequest(t) \/ ExecuteStart(t) \/ ExecuteReturns(t)
    \/ ExecuteRaises(t) \/ EndRequest(t) \/ AbortRequest(t) \/ Leave(t)

Next == Coordinator \/ Worker
Spec == Init /\ [][Next]_vars

-----------------------------------------------------------------------------
(* Properties.                                                             *)

(* begin_request serves only a thread that has bound a lane.               *)
OpenInLane == \A t \in Thread : local[t].active => local[t].lane \in Lane

(* Every variable has its type, and a request is open in a lane only.      *)
TypeOK ==
  /\ generation \in 0 .. MaxGeneration
  /\ prepared \in BOOLEAN /\ released \in BOOLEAN /\ finishing \in BOOLEAN
  /\ bindings \in [Thread -> Lane \cup {None}]
  /\ local \in [Thread -> [generation : 0 .. MaxGeneration,
                           lane : Lane \cup {None},
                           active : BOOLEAN, cursor : BOOLEAN]]
  /\ tpc \in [Thread -> {"idle", "binding", "native"}]
  /\ failed \in [Thread -> BOOLEAN]
  /\ arena \in [Lane -> Thread \cup {None}]
  /\ members \subseteq Thread
  /\ OpenInLane

(* A request is open in a lane only, and no two threads have one open in   *)
(* the same arena: the kernel of one never writes what the other reads.    *)
ArenaExclusive ==
  /\ OpenInLane
  /\ \A t, u \in members :
       local[t].active /\ local[u].active /\ local[t].lane = local[u].lane
       => t = u

(* A batch is finished only when each lane was served by a thread that     *)
(* bound it in this very batch.                                            *)
FinishedBatchWasServed ==
  finishing => \A l \in Lane : \E t \in Thread :
                 bindings[t] = l /\ local[t].generation = generation

(* While a request is open and no execute has failed in it, the rows below *)
(* the cursor are those of the thread's own last execute.                  *)
SupportIsOwn ==
  \A t \in members :
    /\ local[t].active /\ local[t].cursor /\ ~failed[t] /\ tpc[t] = "idle"
    => arena[local[t].lane] = t

(* end_request refuses a request whose last execute failed: what it        *)
(* accepts is an exact support ("native leaf ended without exact support").*)
EndedWithSupport ==
  \A t \in Thread :
    Working(t) /\ local[t].active /\ local[t].cursor => ~failed[t]
=============================================================================
