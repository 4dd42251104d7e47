-------------------------- MODULE LeafLanePoolProofs --------------------------
(***************************************************************************)
(* The types of the pool's state, for any number of threads, lanes and     *)
(* batches and every coordinator; and the isolation of the lanes, when the *)
(* coordinator joins its workers before finish_batch.                      *)
(***************************************************************************)
EXTENDS LeafLanePool, TLAPS

BindingsInjective ==
  \A t, u \in Thread : bindings[t] # None /\ bindings[t] = bindings[u] => t = u

(* A thread at work is bound, in this batch, to the lane it remembers.     *)
MembersAreBound ==
  /\ \A t \in Thread : tpc[t] # "idle" => t \in members
  /\ \A t \in members :
       /\ prepared
       /\ local[t].lane \in Lane /\ bindings[t] = local[t].lane
       /\ tpc[t] # "binding" => local[t].generation = generation
  /\ finishing => members = {} /\ prepared

(* A thread that was bound and is no member has set its record and left.   *)
BoundInGeneration ==
  \A t \in Thread :
    bindings[t] # None /\ tpc[t] # "binding" => local[t].generation = generation

BatchWasFull == finishing => Bound = Lane

(* What a request needs is there: a thread with a generation has a lane.   *)
Opened ==
  \A t \in Thread :
    /\ tpc[t] = "native" => local[t].active
    /\ tpc[t] = "binding" => local[t].lane \in Lane
    /\ local[t].generation <= generation
    /\ local[t].generation > 0 => local[t].lane \in Lane

TypeInv == TypeOK /\ Opened /\ (generation = 0 => ~prepared)

PoolInv ==
  /\ TypeInv /\ BindingsInjective /\ MembersAreBound /\ BoundInGeneration
  /\ BatchWasFull /\ SupportIsOwn

-----------------------------------------------------------------------------
Locals == [generation : 0 .. MaxGeneration, lane : Lane \cup {None},
           active : BOOLEAN, cursor : BOOLEAN]

LEMMA PoolInit == Init => PoolInv
<1> SUFFICES ASSUME Init
             PROVE  PoolInv
  OBVIOUS
<1>1. Unset \in Locals
  BY GenerationAssumption DEF Unset, Locals
<1>2. TypeInv
  <2>1. TypeOK
    BY <1>1, GenerationAssumption DEF Init, TypeOK, OpenInLane, Locals, Unset
  <2>2. Opened
    BY GenerationAssumption DEF Init, Opened, Unset
  <2> QED
    BY <2>1, <2>2 DEF TypeInv, Init
<1>3. /\ BindingsInjective /\ MembersAreBound /\ BoundInGeneration
      /\ BatchWasFull /\ SupportIsOwn
  BY GenerationAssumption
     DEF Init, BindingsInjective, MembersAreBound, BoundInGeneration,
         BatchWasFull, SupportIsOwn, Unset
<1> QED
  BY <1>2, <1>3 DEF PoolInv

(* A thread's operation changes its own record, and leaves it a record.    *)
LEMMA OwnRecord ==
  ASSUME TypeInv, NEW t \in Thread,
         \/ BeginRequest(t) \/ ExecuteReturns(t) \/ EndRequest(t)
         \/ AbortRequest(t)
  PROVE  /\ local' \in [Thread -> Locals]
         /\ local'[t].lane = local[t].lane
         /\ local'[t].generation = local[t].generation
         /\ \A u \in Thread : u # t => local'[u] = local[u]
<1> USE DEF TypeInv, TypeOK
<1>0. local \in [Thread -> Locals]
  BY DEF Locals
<1>1. PICK a \in BOOLEAN, c \in BOOLEAN :
        local' = [local EXCEPT ![t] = [@ EXCEPT !.active = a, !.cursor = c]]
  <2>1. CASE BeginRequest(t)
    BY <2>1 DEF BeginRequest
  <2>2. CASE ExecuteReturns(t)
    <3>1. [local[t] EXCEPT !.cursor = TRUE]
            = [local[t] EXCEPT !.active = local[t].active, !.cursor = TRUE]
      BY <1>0 DEF Locals
    <3>2. local[t].active \in BOOLEAN
      BY <1>0 DEF Locals
    <3>3. local' = [local EXCEPT ![t] = [local[t] EXCEPT !.cursor = TRUE]]
      BY <2>2 DEF ExecuteReturns
    <3> QED
      BY <3>1, <3>2, <3>3
  <2>3. CASE EndRequest(t)
    <3>1. [local[t] EXCEPT !.active = FALSE]
            = [local[t] EXCEPT !.active = FALSE, !.cursor = local[t].cursor]
      BY <1>0 DEF Locals
    <3>2. local[t].cursor \in BOOLEAN
      BY <1>0 DEF Locals
    <3>3. local' = [local EXCEPT ![t] = [local[t] EXCEPT !.active = FALSE]]
      BY <2>3 DEF EndRequest
    <3> QED
      BY <3>1, <3>2, <3>3
  <2>4. CASE AbortRequest(t)
    BY <2>4 DEF AbortRequest
  <2> QED
    BY <2>1, <2>2, <2>3, <2>4
<1>2. local'[t] = [local[t] EXCEPT !.active = a, !.cursor = c]
  BY <1>0, <1>1
<1>3. local'[t] \in Locals
  BY <1>0, <1>2 DEF Locals
<1> QED
  BY <1>0, <1>1, <1>2, <1>3 DEF Locals

(* Every operation keeps the types, whatever the coordinator does.         *)
LEMMA TypeStep == TypeInv /\ [Next]_vars => TypeInv'
<1> SUFFICES ASSUME TypeInv, [Next]_vars
             PROVE  TypeInv'
  OBVIOUS
<1> USE NoneAssumption, GenerationAssumption
    DEF TypeInv, TypeOK, OpenInLane, Opened, shared, Working
<1>1. CASE Coordinator
  <2>1. CASE PrepareBatch
    BY <2>1 DEF PrepareBatch
  <2>2. CASE ValidateBindings
    BY <2>2 DEF ValidateBindings
  <2>3. CASE FinishBatch
    BY <2>3 DEF FinishBatch
  <2>4. CASE Release
    BY <2>4 DEF Release
  <2> QED
    BY <1>1, <2>1, <2>2, <2>3, <2>4 DEF Coordinator
<1>2. CASE Worker
  <2> PICK t \in Thread :
        \/ \E l \in Lane : BindLane(t, l)
        \/ SetLocal(t) \/ BeginRequest(t) \/ ExecuteStart(t)
        \/ ExecuteReturns(t) \/ ExecuteRaises(t) \/ EndRequest(t)
        \/ AbortRequest(t) \/ Leave(t)
    BY <1>2 DEF Worker
  <2>1. ASSUME NEW l \in Lane, BindLane(t, l)
        PROVE  TypeInv'
    BY <2>1 DEF BindLane
  <2>2. CASE SetLocal(t)
    BY <2>2 DEF SetLocal
  <2>3. CASE BeginRequest(t)
    <3>1. /\ local' \in [Thread -> Locals]
          /\ local'[t].lane = local[t].lane
          /\ local'[t].generation = local[t].generation
          /\ \A u \in Thread : u # t => local'[u] = local[u]
      BY <2>3, OwnRecord
    <3>2. local[t].lane \in Lane
      BY <2>3 DEF BeginRequest
    <3>3. UNCHANGED <<shared, tpc, arena, members>> /\ failed' \in [Thread -> BOOLEAN]
      BY <2>3 DEF BeginRequest
    <3>4. tpc[t] = "idle"
      BY <2>3 DEF BeginRequest, MayBegin
    <3> QED
      BY <3>1, <3>2, <3>3, <3>4 DEF Locals
  <2>4. CASE ExecuteStart(t)
    BY <2>4 DEF ExecuteStart
  <2>5. CASE ExecuteReturns(t)
    <3>1. /\ local' \in [Thread -> Locals]
          /\ local'[t].lane = local[t].lane
          /\ local'[t].generation = local[t].generation
          /\ \A u \in Thread : u # t => local'[u] = local[u]
      BY <2>5, OwnRecord
    <3>2. local'[t].active = local[t].active /\ local[t].lane \in Lane
      BY <2>5 DEF ExecuteReturns
    <3>3. /\ UNCHANGED <<shared, members>> /\ failed' \in [Thread -> BOOLEAN]
          /\ tpc' = [tpc EXCEPT ![t] = "idle"]
          /\ arena' \in [Lane -> Thread \cup {None}]
      BY <2>5, <3>2 DEF ExecuteReturns
    <3> QED
      BY <3>1, <3>2, <3>3 DEF Locals
  <2>6. CASE ExecuteRaises(t)
    BY <2>6 DEF ExecuteRaises
  <2>7. CASE EndRequest(t) \/ AbortRequest(t)
    <3>1. /\ local' \in [Thread -> Locals]
          /\ local'[t].lane = local[t].lane
          /\ local'[t].generation = local[t].generation
          /\ \A u \in Thread : u # t => local'[u] = local[u]
      BY <2>7, OwnRecord
    <3>2. UNCHANGED <<shared, tpc, failed, arena, members>> /\ tpc[t] = "idle"
      BY <2>7 DEF EndRequest, AbortRequest
    <3>3. local'[t].active = FALSE
      <4>1. CASE EndRequest(t)
        BY <4>1 DEF EndRequest
      <4>2. CASE AbortRequest(t)
        BY <4>2 DEF AbortRequest
      <4> QED
        BY <2>7, <4>1, <4>2
    <3> QED
      BY <3>1, <3>2, <3>3 DEF Locals
  <2>9. CASE Leave(t)
    BY <2>9 DEF Leave
  <2> QED
    BY <2>1, <2>2, <2>3, <2>4, <2>5, <2>6, <2>7, <2>9
<1>3. CASE UNCHANGED vars
  BY <1>3 DEF vars
<1> QED
  BY <1>1, <1>2, <1>3 DEF Next

(* With the workers joined, every operation keeps the invariant.           *)
LEMMA PoolStep == Joined /\ PoolInv /\ [Next]_vars => PoolInv'
<1> SUFFICES ASSUME Joined, PoolInv, [Next]_vars
             PROVE  PoolInv'
  OBVIOUS
<1>t. TypeInv /\ TypeInv'
  BY TypeStep DEF PoolInv
<1> USE NoneAssumption, GenerationAssumption
    DEF PoolInv, TypeOK, OpenInLane, BindingsInjective, MembersAreBound, Opened,
        BoundInGeneration, BatchWasFull, SupportIsOwn, shared, Working
<1>1. CASE Coordinator
  <2>1. CASE PrepareBatch
    BY <1>t, <2>1 DEF PrepareBatch, TypeInv
  <2>2. CASE ValidateBindings
    BY <1>t, <2>2 DEF ValidateBindings, Bound, TypeInv
  <2>3. CASE FinishBatch
    BY <1>t, <2>3 DEF FinishBatch, Bound, TypeInv
  <2>4. CASE Release
    BY <1>t, <2>4 DEF Release, Bound, TypeInv
  <2> QED
    BY <1>1, <2>1, <2>2, <2>3, <2>4 DEF Coordinator
<1>2. CASE Worker
  <2> PICK t \in Thread :
        \/ \E l \in Lane : BindLane(t, l)
        \/ SetLocal(t) \/ BeginRequest(t) \/ ExecuteStart(t)
        \/ ExecuteReturns(t) \/ ExecuteRaises(t) \/ EndRequest(t)
        \/ AbortRequest(t) \/ Leave(t)
    BY <1>2 DEF Worker
  <2>1. ASSUME NEW l \in Lane, BindLane(t, l)
        PROVE  PoolInv'
    BY <1>t, <2>1 DEF BindLane, Bound, TypeInv
  <2>2. CASE SetLocal(t)
    BY <1>t, <2>2 DEF SetLocal, Bound, TypeInv
  <2>3. CASE BeginRequest(t)
    <3>1. /\ local' \in [Thread -> Locals]
          /\ local'[t].lane = local[t].lane
          /\ local'[t].generation = local[t].generation
          /\ \A u \in Thread : u # t => local'[u] = local[u]
      BY <2>3, OwnRecord
    <3> QED
      BY <1>t, <2>3, <3>1 DEF BeginRequest, MayBegin, Bound, TypeInv, Locals
  <2>4. CASE ExecuteStart(t)
    BY <1>t, <2>4 DEF ExecuteStart, Bound, TypeInv
  <2>5. CASE ExecuteReturns(t)
    <3>1. /\ local' \in [Thread -> Locals]
          /\ local'[t].lane = local[t].lane
          /\ local'[t].generation = local[t].generation
          /\ \A u \in Thread : u # t => local'[u] = local[u]
      BY <2>5, OwnRecord
    <3> QED
      BY <1>t, <2>5, <3>1 DEF ExecuteReturns, Bound, TypeInv, Locals
  <2>6. CASE ExecuteRaises(t)
    BY <1>t, <2>6 DEF ExecuteRaises, Bound, TypeInv
  <2>7. CASE EndRequest(t)
    <3>1. /\ local' \in [Thread -> Locals]
          /\ local'[t].lane = local[t].lane
          /\ local'[t].generation = local[t].generation
          /\ \A u \in Thread : u # t => local'[u] = local[u]
      BY <2>7, OwnRecord
    <3> QED
      BY <1>t, <2>7, <3>1 DEF EndRequest, Bound, TypeInv, Locals
  <2>8. CASE AbortRequest(t)
    <3>1. /\ local' \in [Thread -> Locals]
          /\ local'[t].lane = local[t].lane
          /\ local'[t].generation = local[t].generation
          /\ \A u \in Thread : u # t => local'[u] = local[u]
      BY <2>8, OwnRecord
    <3> QED
      BY <1>t, <2>8, <3>1 DEF AbortRequest, Bound, TypeInv, Locals
  <2>9. CASE Leave(t)
    BY <1>t, <2>9 DEF Leave, Bound, TypeInv
  <2> QED
    BY <2>1, <2>2, <2>3, <2>4, <2>5, <2>6, <2>7, <2>8, <2>9
<1>3. CASE UNCHANGED vars
  BY <1>t, <1>3 DEF vars, Bound
<1> QED
  BY <1>1, <1>2, <1>3 DEF Next

LEMMA PoolHolds == Joined => (Spec => []PoolInv)
<1> SUFFICES ASSUME Joined
             PROVE  Spec => []PoolInv
  OBVIOUS
<1>1. PoolInv /\ [Next]_vars => PoolInv'
  BY PoolStep
<1> QED
  BY PoolInit, <1>1, PTL DEF Spec

(* The state of the pool has its types, and a request is open in a lane    *)
(* only, also when the coordinator does not wait for its workers.          *)
THEOREM TypeCorrect == Spec => []TypeOK
<1>1. Init => TypeInv
  BY PoolInit DEF PoolInv
<1>2. TypeInv => TypeOK
  BY DEF TypeInv
<1> QED
  BY <1>1, <1>2, TypeStep, PTL DEF Spec

(* No two open requests share an arena.                                    *)
THEOREM LanesAreIsolated == Joined => (Spec => []ArenaExclusive)
<1> SUFFICES ASSUME Joined
             PROVE  Spec => []ArenaExclusive
  OBVIOUS
<1>1. PoolInv => ArenaExclusive
  BY NoneAssumption
     DEF PoolInv, ArenaExclusive, MembersAreBound, BindingsInjective, TypeInv, TypeOK
<1> QED
  BY PoolHolds, <1>1, PTL

(* The rows a request reports are those its own thread computed.           *)
THEOREM SupportsAreOwn == Joined => (Spec => []SupportIsOwn)
<1> SUFFICES ASSUME Joined
             PROVE  Spec => []SupportIsOwn
  OBVIOUS
<1>1. PoolInv => SupportIsOwn
  BY DEF PoolInv
<1> QED
  BY PoolHolds, <1>1, PTL

(* A finished batch had every lane bound in it.                            *)
THEOREM BatchesAreServed == Joined => (Spec => []FinishedBatchWasServed)
<1> SUFFICES ASSUME Joined
             PROVE  Spec => []FinishedBatchWasServed
  OBVIOUS
<1>1. PoolInv => FinishedBatchWasServed
  BY NoneAssumption
     DEF PoolInv, FinishedBatchWasServed, BatchWasFull, Bound, MembersAreBound,
         BoundInGeneration, TypeInv, TypeOK
<1> QED
  BY PoolHolds, <1>1, PTL
=============================================================================
