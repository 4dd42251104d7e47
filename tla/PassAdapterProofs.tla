-------------------------- MODULE PassAdapterProofs --------------------------
(***************************************************************************)
(* The safety of the pass-boundary adapter, for any number of passes, and  *)
(* its refinement of the abstract permission protocol.                     *)
(***************************************************************************)
EXTENDS PassAdapter, TLAPS

(* The adapter's main thread, by what it has done for the current pass.    *)
Converting == {"convert", "append_results", "append_passes"}
Released == {"rel_unlock", "rel_sync"}
Durable == {"after_ack", "rel_lock", "rel_check", "rel_link"} \cup Released
Linked == {"ack_unlock", "ack_sync"} \cup Durable
Converted == {"converted", "gate", "pre_ack", "ack_lock", "ack_check",
              "ack_link"} \cup Linked
Leaving == {"join_failed", "terminate", "term_wait", "ended"}

Working == {"work", "check", "rename", "sync", "wait", "read_ack"}

DurableIsVisible == ackDur \subseteq ackVis

AdapterEvidence ==
  /\ apc \in Linked => <<"ack", current>> \in ackVis
  /\ apc \in Durable => <<"ack", current>> \in ackDur

(* Between the check and the link no thread latches a stop.                *)
CommitSection == apc \in {"ack_link", "rel_link"} => stopReason = "none"

(* The child is at the first pass that it has not been allowed to leave.   *)
ChildOrder ==
  /\ kpc = "start" => events = kpass
  /\ kpc \in Working => events = kpass + 1
  /\ events \in {kpass, kpass + 1}
  /\ kpc = "read_ack" => kpass \in permitted
  /\ \A p \in Pass : p < kpass => p \in permitted
  /\ permitted \subseteq 0 .. events - 1

(* Raw files come from the started passes, at their end.                   *)
FilesInOrder ==
  /\ \A a \in Artifact, p \in Pass : <<a, p>> \in rawVis => p < events
  /\ kpc \in {"start", "work"} =>
       \A a \in Artifact : <<a, kpass>> \notin rawVis
  /\ apc \in Converting => \A a \in Artifact : <<a, completed>> \in rawVis
  /\ apc \in Converted => \A a \in Artifact : <<a, current>> \in rawVis

(* Conversion follows the events, and acknowledgement the conversion.      *)
AdapterOrder ==
  /\ completed <= emitted /\ emitted <= events
  /\ apc \in Converting => completed < emitted
  /\ apc \in Converted => completed > 0
  /\ permitted \subseteq 0 .. completed - 1
  /\ apc \in Converted \ Released => current \notin permitted
  /\ \A p \in Pass : <<"ack", p>> \in ackVis => p < completed

Appending ==
  /\ rows["passes"] = completed
  /\ rows["results"] \in {completed, completed + 1}
  /\ apc = "append_passes" => rows["results"] = completed + 1
  /\ apc \notin {"append_passes"} \cup Leaving => rows["results"] = completed

(* How the child, the monitor and the adapter end.                         *)
Exits ==
  /\ kexit = "ok" => ChildEnded /\ kpass = Passes - 1 /\ kpass \in permitted
  /\ apc = "join_ok" => kexit = "ok" /\ completed = Passes
  /\ apc \in {"terminate", "term_wait"} => mpc = "ended"
  /\ outcome = "ok" =>
       /\ ~Alive /\ kexit = "ok"
       /\ \A s \in Stream : rows[s] = Passes
  /\ outcome = "failed" => ~Alive

(* The three layers: each is inductive given those above it.               *)
EvidenceInv ==
  DurableIsVisible /\ AdapterEvidence /\ ReleaseIsBacked /\ CommitSection

OrderInv == ChildOrder /\ FilesInOrder /\ AdapterOrder

EndInv == Appending /\ Exits /\ NothingLeftRunning

SafetyInv == TypeOK /\ EvidenceInv /\ OrderInv /\ EndInv

-----------------------------------------------------------------------------
LEMMA SafetyInit == Init => SafetyInv
<1> SUFFICES ASSUME Init
             PROVE  SafetyInv
  OBVIOUS
<1>0. 0 \in Pass /\ 0 \in 0 .. Passes
  BY PassesAssumption DEF Pass
<1>1. TypeOK
  BY <1>0 DEF Init, TypeOK, ChildPC, ChildExit, AdapterPC, Outcome, Reason,
              MonitorPC, Artifact
<1> USE PassesAssumption
    DEF Init, Pass, Converting, Released, Durable, Linked, Converted, Leaving,
        Working
<1>2. EvidenceInv
  BY DEF EvidenceInv, DurableIsVisible, AdapterEvidence, ReleaseIsBacked,
         CommitSection
<1>3. OrderInv
  BY DEF OrderInv, ChildOrder, FilesInOrder, AdapterOrder
<1>4. EndInv
  BY DEF EndInv, Appending, Exits, NothingLeftRunning, Stream
<1> QED
  BY <1>1, <1>2, <1>3, <1>4 DEF SafetyInv

(* Every action keeps the types: the counters stay in range because of the  *)
(* order.                                                                  *)
LEMMA TypeStep ==
  SafetyInv /\ [Next]_vars => TypeOK'
<1> SUFFICES ASSUME SafetyInv, [Next]_vars
             PROVE  TypeOK'
  OBVIOUS
<1>r. Refresh(stopReason', monitorError') =>
        stopReason' \in Reason /\ monitorError' \in BOOLEAN
  BY DEF SafetyInv, TypeOK, Refresh, Reason
<1>k. /\ kpc = "start" => events + 1 \in 0 .. Passes
      /\ kpass # Passes - 1 => kpass + 1 \in Pass
  BY PassesAssumption DEF SafetyInv, TypeOK, OrderInv, ChildOrder, Pass
<1>c. apc \in Converting => completed + 1 \in 0 .. Passes
  BY PassesAssumption DEF SafetyInv, TypeOK, OrderInv, AdapterOrder
<1>d. apc \in Converted => current \in Pass
  BY PassesAssumption DEF SafetyInv, TypeOK, OrderInv, AdapterOrder, Pass, current
<1>t. TypeOK
  BY DEF SafetyInv
<1> USE DEF TypeOK, Artifact, Stream, ChildPC, ChildExit, AdapterPC,
   Outcome, MonitorPC, childVars, ackVars, rowVars, latchVars, timeVars,
   ChildOnly, ChildEnds, ChildEnded, AdapterOnly, NoRows, NoAck, NoLatch,
   Checked, Moved, RaiseIfStopped, Return, Alive, MonitorOnly, WorldOnly,
   LockFree, Critical
<1>1. CASE ChildStep
  <2>1. CASE AppendStart
    BY <1>k, <1>t, <2>1 DEF AppendStart
  <2>2. CASE CheckRaw
    BY <1>t, <2>2 DEF CheckRaw
  <2>3. CASE RenameRaw
    BY <1>t, <2>3 DEF RenameRaw
  <2>4. CASE SyncRaw
    BY <1>t, <2>4 DEF SyncRaw
  <2>5. CASE SeeRelease
    BY <1>t, <2>5 DEF SeeRelease
  <2>6. CASE AcceptRelease
    BY <1>k, <1>t, <2>6 DEF AcceptRelease
  <2>7. CASE ChildStopped
    BY <1>t, <2>7 DEF ChildStopped
  <2>8. CASE WaitDeadline
    BY <1>t, <2>8 DEF WaitDeadline
  <2> QED
    BY <1>1, <2>1, <2>2, <2>3, <2>4, <2>5, <2>6, <2>7, <2>8 DEF ChildStep
<1>2. CASE AdapterStep
  <2>1. CASE LoopTop
    BY <1>r, <1>t, <2>1 DEF LoopTop
  <2>2. CASE ReadStarts
    BY <1>t, <2>2 DEF ReadStarts
  <2>3. CASE LookForFiles
    BY <1>t, <2>3 DEF LookForFiles
  <2>4. CASE ConvertPass
    BY <1>r, <1>t, <2>4 DEF ConvertPass
  <2>5. CASE AppendResults
    <3>1. rows["results"] + 1 \in 0 .. Passes
      BY <1>c, <2>5 DEF AppendResults, Converting, SafetyInv, EndInv, Appending,
                       Leaving
    <3> QED
      BY <1>t, <2>5, <3>1 DEF AppendResults
  <2>6. CASE AppendPasses
    <3>1. completed + 1 \in 0 .. Passes /\ rows["passes"] = completed
      BY <1>c, <2>6 DEF AppendPasses, Converting, SafetyInv, EndInv, Appending
    <3> QED
      BY <1>t, <2>6, <3>1 DEF AppendPasses
  <2>7. CASE AfterConvert
    BY <1>r, <1>t, <2>7 DEF AfterConvert
  <2>8. CASE BeforeAck
    <3>1. CASE Checked("gate", "pre_ack")
      BY <1>r, <1>t, <3>1
    <3>2. CASE Checked("gate", "join_failed")
      BY <1>r, <1>t, <3>2
    <3> QED
      BY <2>8, <3>1, <3>2 DEF BeforeAck
  <2>9. CASE PrepareAck
    BY <1>r, <1>t, <2>9 DEF PrepareAck
  <2>10. CASE EnterAckLock
    BY <1>t, <2>10 DEF EnterAckLock
  <2>11. CASE CheckAck
    BY <1>r, <1>t, <2>11 DEF CheckAck
  <2>12. CASE LinkAck
    <3>1. <<"ack", current>> \in AckName
      BY <1>d, <2>12 DEF LinkAck, Converted, AckName
    <3> QED
      BY <1>t, <2>12, <3>1 DEF LinkAck
  <2>13. CASE LeaveAckLock
    BY <1>t, <2>13 DEF LeaveAckLock
  <2>14. CASE SyncAck
    BY <1>t, <2>14 DEF SyncAck
  <2>15. CASE PrepareRelease
    BY <1>r, <1>t, <2>15 DEF PrepareRelease
  <2>16. CASE EnterReleaseLock
    BY <1>t, <2>16 DEF EnterReleaseLock
  <2>17. CASE CheckRelease
    BY <1>r, <1>t, <2>17 DEF CheckRelease
  <2>18. CASE LinkRelease
    <3>1. <<"release", current>> \in AckName /\ current \in Pass
      BY <1>d, <2>18 DEF LinkRelease, Converted, Linked, Durable, AckName
    <3> QED
      BY <1>t, <2>18, <3>1 DEF LinkRelease
  <2>19. CASE LeaveReleaseLock
    BY <1>t, <2>19 DEF LeaveReleaseLock
  <2>20. CASE SyncRelease
    BY <1>t, <2>20 DEF SyncRelease
  <2>21. CASE PollChild
    BY <1>t, <2>21 DEF PollChild
  <2>22. CASE JoinMonitor
    BY <1>t, <2>22 DEF JoinMonitor
  <2>23. CASE Terminate
    <3>1. CASE ChildEnded
      BY <1>t, <2>23, <3>1 DEF Terminate
    <3>2. CASE ~ChildEnded
      BY <1>t, <2>23, <3>2 DEF Terminate
    <3> QED
      BY <3>1, <3>2
  <2>24. CASE ReapChild
    BY <1>t, <2>24 DEF ReapChild
  <2>25. CASE KillChild
    BY <1>t, <2>25 DEF KillChild
  <2> QED
    BY <1>2, <2>1, <2>2, <2>3, <2>4, <2>5, <2>6, <2>7, <2>8, <2>9, <2>10,
       <2>11, <2>12, <2>13, <2>14, <2>15, <2>16, <2>17, <2>18, <2>19, <2>20,
       <2>21, <2>22, <2>23, <2>24, <2>25 DEF AdapterStep
<1>3. CASE MonitorStep
  <2>1. CASE Sample
    BY <1>r, <1>t, <2>1 DEF Sample
  <2>2. CASE LatchFailure
    <3>1. stopReason' \in Reason
      BY <1>t, <2>2 DEF LatchFailure, Reason
    <3> QED
      BY <1>t, <2>2, <3>1 DEF LatchFailure
  <2>3. CASE MonitorStops
    BY <1>t, <2>3 DEF MonitorStops
  <2> QED
    BY <1>3, <2>1, <2>2, <2>3 DEF MonitorStep
<1>4. CASE Environment
  <2>1. CASE TimePass
    BY <1>t, <2>1 DEF TimePass
  <2>2. CASE ChildThrows
    BY <1>t, <2>2 DEF ChildThrows
  <2>3. CASE ChildKilled
    BY <1>t, <2>3 DEF ChildKilled
  <2>4. CASE AdapterThrows
    BY <1>t, <2>4 DEF AdapterThrows
  <2>5. CASE MonitorThrows
    BY <1>t, <2>5 DEF MonitorThrows
  <2>6. CASE AdapterKilled
    BY <1>t, <2>6 DEF AdapterKilled
  <2>7. CASE CallerSignal
    BY <1>t, <2>7 DEF CallerSignal
  <2>8. CASE MachineCrash
    BY <1>t, <2>8 DEF MachineCrash
  <2> QED
    BY <1>4, <2>1, <2>2, <2>3, <2>4, <2>5, <2>6, <2>7, <2>8 DEF Environment
<1>5. CASE DeadlinePasses
  BY <1>t, <1>5 DEF DeadlinePasses
<1>6. CASE Finished \/ UNCHANGED vars
  <2>1. UNCHANGED vars
    BY <1>6 DEF Finished
  <2> QED
    BY <1>t, <2>1 DEF vars
<1> QED
  BY <1>1, <1>2, <1>3, <1>4, <1>5, <1>6 DEF Next

(* Evidence and the commit section do not depend on the child.              *)
LEMMA EvidenceStep ==
  TypeOK /\ EvidenceInv /\ [Next]_vars => EvidenceInv'
<1> SUFFICES ASSUME TypeOK, EvidenceInv, [Next]_vars
             PROVE  EvidenceInv'
  OBVIOUS
<1> USE DEF TypeOK, EvidenceInv, DurableIsVisible, AdapterEvidence,
   ReleaseIsBacked, CommitSection, Artifact, Converting, Released, Durable,
   Linked, Converted, Leaving, Working, childVars, ackVars, rowVars,
   latchVars, timeVars, ChildOnly, ChildEnds, ChildEnded, AdapterOnly,
   NoRows, NoAck, NoLatch, Checked, Moved, RaiseIfStopped, Return, Alive,
   MonitorOnly, WorldOnly, LockFree, current, Critical
<1>1. CASE ChildStep
  <2>1. CASE AppendStart
    BY <2>1 DEF AppendStart
  <2>2. CASE CheckRaw
    BY <2>2 DEF CheckRaw
  <2>3. CASE RenameRaw
    BY <2>3 DEF RenameRaw
  <2>4. CASE SyncRaw
    BY <2>4 DEF SyncRaw
  <2>5. CASE SeeRelease
    BY <2>5 DEF SeeRelease
  <2>6. CASE AcceptRelease
    BY <2>6 DEF AcceptRelease
  <2>7. CASE ChildStopped
    BY <2>7 DEF ChildStopped
  <2>8. CASE WaitDeadline
    BY <2>8 DEF WaitDeadline
  <2> QED
    BY <1>1, <2>1, <2>2, <2>3, <2>4, <2>5, <2>6, <2>7, <2>8 DEF ChildStep
<1>2. CASE AdapterStep
  <2>1. CASE LoopTop
    BY <2>1 DEF LoopTop, Refresh
  <2>2. CASE ReadStarts
    BY <2>2 DEF ReadStarts
  <2>3. CASE LookForFiles
    BY <2>3 DEF LookForFiles
  <2>4. CASE ConvertPass
    BY <2>4 DEF ConvertPass, Refresh
  <2>5. CASE AppendResults
    BY <2>5 DEF AppendResults
  <2>6. CASE AppendPasses
    BY <2>6 DEF AppendPasses
  <2>7. CASE AfterConvert
    BY <2>7 DEF AfterConvert, Refresh
  <2>8. CASE BeforeAck
    BY <2>8 DEF BeforeAck, Refresh
  <2>9. CASE PrepareAck
    BY <2>9 DEF PrepareAck, Refresh
  <2>10. CASE EnterAckLock
    BY <2>10 DEF EnterAckLock
  <2>11. CASE CheckAck
    BY <2>11 DEF CheckAck, Refresh
  <2>12. CASE LinkAck
    BY <2>12 DEF LinkAck
  <2>13. CASE LeaveAckLock
    BY <2>13 DEF LeaveAckLock
  <2>14. CASE SyncAck
    BY <2>14 DEF SyncAck
  <2>15. CASE PrepareRelease
    BY <2>15 DEF PrepareRelease, Refresh
  <2>16. CASE EnterReleaseLock
    BY <2>16 DEF EnterReleaseLock
  <2>17. CASE CheckRelease
    BY <2>17 DEF CheckRelease, Refresh
  <2>18. CASE LinkRelease
    BY <2>18 DEF LinkRelease
  <2>19. CASE LeaveReleaseLock
    BY <2>19 DEF LeaveReleaseLock
  <2>20. CASE SyncRelease
    BY <2>20 DEF SyncRelease
  <2>21. CASE PollChild
    BY <2>21 DEF PollChild
  <2>22. CASE JoinMonitor
    BY <2>22 DEF JoinMonitor
  <2>23. CASE Terminate
    BY <2>23 DEF Terminate
  <2>24. CASE ReapChild
    BY <2>24 DEF ReapChild
  <2>25. CASE KillChild
    BY <2>25 DEF KillChild
  <2> QED
    BY <1>2, <2>1, <2>2, <2>3, <2>4, <2>5, <2>6, <2>7, <2>8, <2>9, <2>10,
       <2>11, <2>12, <2>13, <2>14, <2>15, <2>16, <2>17, <2>18, <2>19, <2>20,
       <2>21, <2>22, <2>23, <2>24, <2>25 DEF AdapterStep
<1>3. CASE MonitorStep
  <2>1. CASE Sample
    BY <2>1 DEF Sample, Refresh
  <2>2. CASE LatchFailure
    BY <2>2 DEF LatchFailure
  <2>3. CASE MonitorStops
    BY <2>3 DEF MonitorStops
  <2> QED
    BY <1>3, <2>1, <2>2, <2>3 DEF MonitorStep
<1>4. CASE Environment
  <2>1. CASE TimePass
    BY <2>1 DEF TimePass
  <2>2. CASE ChildThrows
    BY <2>2 DEF ChildThrows
  <2>3. CASE ChildKilled
    BY <2>3 DEF ChildKilled
  <2>4. CASE AdapterThrows
    BY <2>4 DEF AdapterThrows
  <2>5. CASE MonitorThrows
    BY <2>5 DEF MonitorThrows
  <2>6. CASE AdapterKilled
    BY <2>6 DEF AdapterKilled
  <2>7. CASE CallerSignal
    BY <2>7 DEF CallerSignal
  <2>8. CASE MachineCrash
    BY <2>8 DEF MachineCrash
  <2> QED
    BY <1>4, <2>1, <2>2, <2>3, <2>4, <2>5, <2>6, <2>7, <2>8 DEF Environment
<1>5. CASE DeadlinePasses
  BY <1>5 DEF DeadlinePasses
<1>6. CASE Finished \/ UNCHANGED vars
  BY <1>6 DEF Finished, vars
<1> QED
  BY <1>1, <1>2, <1>3, <1>4, <1>5, <1>6 DEF Next

(* The order of passes, files and permissions rests on the evidence.        *)
LEMMA OrderStep ==
  TypeOK /\ EvidenceInv /\ OrderInv /\ [Next]_vars => OrderInv'
<1> SUFFICES ASSUME TypeOK, EvidenceInv, OrderInv, [Next]_vars
             PROVE  OrderInv'
  OBVIOUS
<1> USE PassesAssumption
<1> USE DEF TypeOK, OrderInv, ChildOrder, FilesInOrder, AdapterOrder, Pass,
   Artifact, Converting, Released, Durable, Linked, Converted, Leaving,
   Working, childVars, ackVars, rowVars, latchVars, timeVars, ChildOnly,
   ChildEnds, ChildEnded, AdapterOnly, NoRows, NoAck, NoLatch, Checked,
   Moved, RaiseIfStopped, Return, Alive, MonitorOnly, WorldOnly, LockFree,
   current, Critical
<1>1. CASE ChildStep
  <2>1. CASE AppendStart
    BY <2>1 DEF AppendStart
  <2>2. CASE CheckRaw
    BY <2>2 DEF CheckRaw
  <2>3. CASE RenameRaw
    BY <2>3 DEF RenameRaw
  <2>4. CASE SyncRaw
    BY <2>4 DEF SyncRaw
  <2>5. CASE SeeRelease
    BY <2>5 DEF SeeRelease, EvidenceInv, ReleaseIsBacked
  <2>6. CASE AcceptRelease
    BY <2>6 DEF AcceptRelease
  <2>7. CASE ChildStopped
    BY <2>7 DEF ChildStopped
  <2>8. CASE WaitDeadline
    BY <2>8 DEF WaitDeadline
  <2> QED
    BY <1>1, <2>1, <2>2, <2>3, <2>4, <2>5, <2>6, <2>7, <2>8 DEF ChildStep
<1>2. CASE AdapterStep
  <2>1. CASE LoopTop
    BY <2>1 DEF LoopTop
  <2>2. CASE ReadStarts
    BY <2>2 DEF ReadStarts
  <2>3. CASE LookForFiles
    BY <2>3 DEF LookForFiles, RawVisible
  <2>4. CASE ConvertPass
    BY <2>4 DEF ConvertPass
  <2>5. CASE AppendResults
    BY <2>5 DEF AppendResults
  <2>6. CASE AppendPasses
    BY <2>6 DEF AppendPasses
  <2>7. CASE AfterConvert
    BY <2>7 DEF AfterConvert
  <2>8. CASE BeforeAck
    BY <2>8 DEF BeforeAck
  <2>9. CASE PrepareAck
    BY <2>9 DEF PrepareAck
  <2>10. CASE EnterAckLock
    BY <2>10 DEF EnterAckLock
  <2>11. CASE CheckAck
    BY <2>11 DEF CheckAck
  <2>12. CASE LinkAck
    BY <2>12 DEF LinkAck
  <2>13. CASE LeaveAckLock
    BY <2>13 DEF LeaveAckLock
  <2>14. CASE SyncAck
    BY <2>14 DEF SyncAck
  <2>15. CASE PrepareRelease
    BY <2>15 DEF PrepareRelease
  <2>16. CASE EnterReleaseLock
    BY <2>16 DEF EnterReleaseLock
  <2>17. CASE CheckRelease
    BY <2>17 DEF CheckRelease
  <2>18. CASE LinkRelease
    BY <2>18 DEF LinkRelease
  <2>19. CASE LeaveReleaseLock
    BY <2>19 DEF LeaveReleaseLock
  <2>20. CASE SyncRelease
    BY <2>20 DEF SyncRelease
  <2>21. CASE PollChild
    BY <2>21 DEF PollChild
  <2>22. CASE JoinMonitor
    BY <2>22 DEF JoinMonitor
  <2>23. CASE Terminate
    BY <2>23 DEF Terminate
  <2>24. CASE ReapChild
    BY <2>24 DEF ReapChild
  <2>25. CASE KillChild
    BY <2>25 DEF KillChild
  <2> QED
    BY <1>2, <2>1, <2>2, <2>3, <2>4, <2>5, <2>6, <2>7, <2>8, <2>9, <2>10,
       <2>11, <2>12, <2>13, <2>14, <2>15, <2>16, <2>17, <2>18, <2>19, <2>20,
       <2>21, <2>22, <2>23, <2>24, <2>25 DEF AdapterStep
<1>3. CASE MonitorStep
  <2>1. CASE Sample
    BY <2>1 DEF Sample
  <2>2. CASE LatchFailure
    BY <2>2 DEF LatchFailure
  <2>3. CASE MonitorStops
    BY <2>3 DEF MonitorStops
  <2> QED
    BY <1>3, <2>1, <2>2, <2>3 DEF MonitorStep
<1>4. CASE Environment
  <2>1. CASE TimePass
    BY <2>1 DEF TimePass
  <2>2. CASE ChildThrows
    BY <2>2 DEF ChildThrows
  <2>3. CASE ChildKilled
    BY <2>3 DEF ChildKilled
  <2>4. CASE AdapterThrows
    BY <2>4 DEF AdapterThrows
  <2>5. CASE MonitorThrows
    BY <2>5 DEF MonitorThrows
  <2>6. CASE AdapterKilled
    BY <2>6 DEF AdapterKilled
  <2>7. CASE CallerSignal
    BY <2>7 DEF CallerSignal
  <2>8. CASE MachineCrash
    BY <2>8 DEF MachineCrash, EvidenceInv, DurableIsVisible
  <2> QED
    BY <1>4, <2>1, <2>2, <2>3, <2>4, <2>5, <2>6, <2>7, <2>8 DEF Environment
<1>5. CASE DeadlinePasses
  BY <1>5 DEF DeadlinePasses
<1>6. CASE Finished \/ UNCHANGED vars
  BY <1>6 DEF Finished, vars
<1> QED
  BY <1>1, <1>2, <1>3, <1>4, <1>5, <1>6 DEF Next

(* Rows follow the completed passes, and the ends follow the order.         *)
LEMMA EndStep ==
  TypeOK /\ OrderInv /\ EndInv /\ [Next]_vars => EndInv'
<1> SUFFICES ASSUME TypeOK, OrderInv, EndInv, [Next]_vars
             PROVE  EndInv'
  OBVIOUS
<1> USE PassesAssumption
<1> USE DEF TypeOK, EndInv, Appending, Exits, NothingLeftRunning, Stream,
   Pass, OrderInv, ChildOrder, AdapterOrder, Converting, Released, Durable,
   Linked, Converted, Leaving, Working, childVars, ackVars, rowVars,
   latchVars, timeVars, ChildOnly, ChildEnds, ChildEnded, AdapterOnly,
   NoRows, NoAck, NoLatch, Checked, Moved, RaiseIfStopped, Return, Alive,
   MonitorOnly, WorldOnly, LockFree, current, Critical
<1>1. CASE ChildStep
  <2>1. CASE AppendStart
    BY <2>1 DEF AppendStart
  <2>2. CASE CheckRaw
    BY <2>2 DEF CheckRaw
  <2>3. CASE RenameRaw
    BY <2>3 DEF RenameRaw
  <2>4. CASE SyncRaw
    BY <2>4 DEF SyncRaw
  <2>5. CASE SeeRelease
    BY <2>5 DEF SeeRelease
  <2>6. CASE AcceptRelease
    BY <2>6 DEF AcceptRelease
  <2>7. CASE ChildStopped
    BY <2>7 DEF ChildStopped
  <2>8. CASE WaitDeadline
    BY <2>8 DEF WaitDeadline
  <2> QED
    BY <1>1, <2>1, <2>2, <2>3, <2>4, <2>5, <2>6, <2>7, <2>8 DEF ChildStep
<1>2. CASE AdapterStep
  <2>1. CASE LoopTop
    BY <2>1 DEF LoopTop
  <2>2. CASE ReadStarts
    BY <2>2 DEF ReadStarts
  <2>3. CASE LookForFiles
    BY <2>3 DEF LookForFiles
  <2>4. CASE ConvertPass
    BY <2>4 DEF ConvertPass
  <2>5. CASE AppendResults
    BY <2>5 DEF AppendResults
  <2>6. CASE AppendPasses
    BY <2>6 DEF AppendPasses
  <2>7. CASE AfterConvert
    BY <2>7 DEF AfterConvert
  <2>8. CASE BeforeAck
    BY <2>8 DEF BeforeAck
  <2>9. CASE PrepareAck
    BY <2>9 DEF PrepareAck
  <2>10. CASE EnterAckLock
    BY <2>10 DEF EnterAckLock
  <2>11. CASE CheckAck
    BY <2>11 DEF CheckAck
  <2>12. CASE LinkAck
    BY <2>12 DEF LinkAck
  <2>13. CASE LeaveAckLock
    BY <2>13 DEF LeaveAckLock
  <2>14. CASE SyncAck
    BY <2>14 DEF SyncAck
  <2>15. CASE PrepareRelease
    BY <2>15 DEF PrepareRelease
  <2>16. CASE EnterReleaseLock
    BY <2>16 DEF EnterReleaseLock
  <2>17. CASE CheckRelease
    BY <2>17 DEF CheckRelease
  <2>18. CASE LinkRelease
    BY <2>18 DEF LinkRelease
  <2>19. CASE LeaveReleaseLock
    BY <2>19 DEF LeaveReleaseLock
  <2>20. CASE SyncRelease
    BY <2>20 DEF SyncRelease
  <2>21. CASE PollChild
    BY <2>21 DEF PollChild
  <2>22. CASE JoinMonitor
    BY <2>22 DEF JoinMonitor
  <2>23. CASE Terminate
    BY <2>23 DEF Terminate
  <2>24. CASE ReapChild
    BY <2>24 DEF ReapChild
  <2>25. CASE KillChild
    BY <2>25 DEF KillChild
  <2> QED
    BY <1>2, <2>1, <2>2, <2>3, <2>4, <2>5, <2>6, <2>7, <2>8, <2>9, <2>10,
       <2>11, <2>12, <2>13, <2>14, <2>15, <2>16, <2>17, <2>18, <2>19, <2>20,
       <2>21, <2>22, <2>23, <2>24, <2>25 DEF AdapterStep
<1>3. CASE MonitorStep
  <2>1. CASE Sample
    BY <2>1 DEF Sample
  <2>2. CASE LatchFailure
    BY <2>2 DEF LatchFailure
  <2>3. CASE MonitorStops
    BY <2>3 DEF MonitorStops
  <2> QED
    BY <1>3, <2>1, <2>2, <2>3 DEF MonitorStep
<1>4. CASE Environment
  <2>1. CASE TimePass
    BY <2>1 DEF TimePass
  <2>2. CASE ChildThrows
    BY <2>2 DEF ChildThrows
  <2>3. CASE ChildKilled
    BY <2>3 DEF ChildKilled
  <2>4. CASE AdapterThrows
    BY <2>4 DEF AdapterThrows
  <2>5. CASE MonitorThrows
    BY <2>5 DEF MonitorThrows
  <2>6. CASE AdapterKilled
    BY <2>6 DEF AdapterKilled
  <2>7. CASE CallerSignal
    BY <2>7 DEF CallerSignal
  <2>8. CASE MachineCrash
    BY <2>8 DEF MachineCrash
  <2> QED
    BY <1>4, <2>1, <2>2, <2>3, <2>4, <2>5, <2>6, <2>7, <2>8 DEF Environment
<1>5. CASE DeadlinePasses
  BY <1>5 DEF DeadlinePasses
<1>6. CASE Finished \/ UNCHANGED vars
  BY <1>6 DEF Finished, vars
<1> QED
  BY <1>1, <1>2, <1>3, <1>4, <1>5, <1>6 DEF Next

LEMMA SafetyStep == SafetyInv /\ [Next]_vars => SafetyInv'
BY TypeStep, EvidenceStep, OrderStep, EndStep DEF SafetyInv

LEMMA SafetyHolds == Spec => []SafetyInv
BY SafetyInit, SafetyStep, PTL DEF Spec

-----------------------------------------------------------------------------
(* The variables keep their types: no pass beyond the last one is started, *)
(* converted or acknowledged.                                              *)
THEOREM TypeCorrect == Spec => []TypeOK
<1>1. SafetyInv => TypeOK
  BY DEF SafetyInv
<1> QED
  BY SafetyHolds, <1>1, PTL

(* Every release had a durable acknowledgement before it was linked.       *)
THEOREM ReleasesAreBacked == Spec => []ReleaseIsBacked
<1>1. SafetyInv => ReleaseIsBacked
  BY DEF SafetyInv, EvidenceInv
<1> QED
  BY SafetyHolds, <1>1, PTL

(* The adapter's protocol error is unreachable.                            *)
THEOREM NoPassStartsEarly == Spec => []NoEarlyStart
<1>1. SafetyInv => NoEarlyStart
  <2> SUFFICES ASSUME SafetyInv, NEW p \in emitted .. events - 1
               PROVE  p = completed
    BY DEF NoEarlyStart
  <2> USE PassesAssumption DEF SafetyInv, TypeOK, OrderInv, Pass
  <2>1. events <= kpass + 1 /\ kpass <= completed
    <3>1. events <= kpass + 1
      BY DEF ChildOrder
    <3>2. kpass # 0 => kpass - 1 \in permitted
      BY DEF ChildOrder
    <3> QED
      BY <3>1, <3>2 DEF AdapterOrder
  <2> QED
    BY <2>1 DEF AdapterOrder
<1> QED
  BY SafetyHolds, <1>1, PTL

(* Acknowledgements and rows agree in every behaviour.                     *)
THEOREM RowsAreBound == Spec => []AckBindsRows
<1>1. SafetyInv => AckBindsRows
  <2> SUFFICES ASSUME SafetyInv
               PROVE  AckBindsRows
    OBVIOUS
  <2> USE DEF SafetyInv, TypeOK, EndInv, Appending, OrderInv, AdapterOrder,
              Stream, Pass, Leaving, Critical
  <2>1. ASSUME NEW p \in Pass, <<"ack", p>> \in ackVis, NEW s \in Stream
        PROVE  rows[s] >= p + 1
    BY <2>1, PassesAssumption
  <2>2. rows["results"] - rows["passes"] \in {0, 1}
    OBVIOUS
  <2>3. ASSUME apc \in {"pre_ack", "ack_lock"} \cup Critical, NEW s \in Stream
        PROVE  rows[s] = completed
    BY <2>3
  <2> QED
    BY <2>1, <2>2, <2>3 DEF AckBindsRows
<1> QED
  BY SafetyHolds, <1>1, PTL

(* Only the end of a release overlaps a timing, and only that of the pass  *)
(* right after it: the raw files of the adapter's pass are visible, those  *)
(* of the timed one are not, so the timed one is a later pass, and a       *)
(* permitted predecessor makes it the next.                                *)
THEOREM TimingIsUndisturbed == Spec => []AdapterNeverOverlapsTiming
<1>1. SafetyInv => AdapterNeverOverlapsTiming
  <2> SUFFICES ASSUME SafetyInv, kpc = "work"
               PROVE  /\ apc \notin Converting \cup (Converted \ Released)
                      /\ apc \in Released => kpass = current + 1
    BY DEF AdapterNeverOverlapsTiming, Converting, Converted, Linked, Durable,
           Released
  <2> USE PassesAssumption DEF SafetyInv, TypeOK, OrderInv, Pass, Artifact
  <2>1. events = kpass + 1 /\ \A a \in Artifact : <<a, kpass>> \notin rawVis
    BY DEF ChildOrder, FilesInOrder, Working
  <2>2. apc \notin Converting
    <3> SUFFICES ASSUME apc \in Converting
                 PROVE  FALSE
      OBVIOUS
    <3>1. completed \in Pass /\ completed < kpass
      BY <2>1 DEF FilesInOrder, AdapterOrder
    <3> QED
      BY <3>1 DEF ChildOrder, AdapterOrder
  <2>3. apc \in Converted => current \in Pass /\ current < kpass
    BY <2>1 DEF FilesInOrder, AdapterOrder, current
  <2>4. apc \notin Converted \ Released
    BY <2>3 DEF ChildOrder, AdapterOrder
  <2>5. ASSUME apc \in Released
        PROVE  kpass = current + 1
    <3>1. current \in Pass /\ current < kpass
      BY <2>3, <2>5 DEF Converted, Linked, Durable
    <3>2. kpass - 1 \in permitted
      BY <3>1 DEF ChildOrder
    <3>3. kpass - 1 \in 0 .. completed - 1
      BY <3>2 DEF AdapterOrder
    <3> QED
      BY <3>1, <3>3 DEF current
  <2> QED
    BY <2>2, <2>4, <2>5
<1> QED
  BY SafetyHolds, <1>1, PTL

(* A normal return means a complete point.                                 *)
THEOREM ReturnIsComplete == Spec => []OkMeansComplete
<1>1. SafetyInv => OkMeansComplete
  <2> SUFFICES ASSUME SafetyInv, outcome = "ok"
               PROVE  /\ permitted = Pass /\ kexit = "ok"
                      /\ \A s \in Stream : rows[s] = Passes
    BY DEF OkMeansComplete
  <2>1. kexit = "ok" /\ \A s \in Stream : rows[s] = Passes
    BY DEF SafetyInv, EndInv, Exits
  <2>2. kpass = Passes - 1 /\ kpass \in permitted
    BY <2>1 DEF SafetyInv, EndInv, Exits
  <2>3. \A p \in Pass : p \in permitted
    <3>1. \A p \in Pass : p < kpass \/ p = kpass
      BY <2>2, PassesAssumption DEF Pass
    <3> QED
      BY <2>2, <3>1 DEF SafetyInv, OrderInv, ChildOrder
  <2> QED
    BY <2>1, <2>3 DEF SafetyInv, TypeOK
<1> QED
  BY SafetyHolds, <1>1, PTL

(* Neither a child nor a monitor thread outlives the adapter's return.     *)
THEOREM NothingSurvivesReturn == Spec => []NothingLeftRunning
<1>1. SafetyInv => NothingLeftRunning
  BY DEF SafetyInv, EndInv
<1> QED
  BY SafetyHolds, <1>1, PTL

(* The first reason stays.                                                 *)
THEOREM FirstReasonStays == Spec => FirstReasonKept
<1>1. [Next]_vars => [stopReason # "none" => stopReason' = stopReason]_vars
  <2> SUFFICES ASSUME Next, stopReason # "none"
               PROVE  stopReason' = stopReason
    OBVIOUS
  <2> QED
    BY
       DEF Next, ChildStep, AdapterStep, MonitorStep, Environment, Finished,
           DeadlinePasses, vars, childVars, ackVars, rowVars, latchVars,
           timeVars, ChildOnly, ChildEnds, AdapterOnly, NoRows, NoAck,
           NoLatch, Checked, Moved, MonitorOnly, WorldOnly, RaiseIfStopped,
           Refresh, AppendStart, CheckRaw, RenameRaw, SyncRaw, SeeRelease,
           AcceptRelease, ChildStopped, WaitDeadline, LoopTop, ReadStarts,
           LookForFiles, ConvertPass, AppendResults, AppendPasses,
           AfterConvert, BeforeAck, PrepareAck, EnterAckLock, CheckAck,
           LinkAck, LeaveAckLock, SyncAck, PrepareRelease, EnterReleaseLock,
           CheckRelease, LinkRelease, LeaveReleaseLock, SyncRelease,
           PollChild, JoinMonitor, Terminate, ReapChild, KillChild, Sample,
           LatchFailure, MonitorStops, TimePass, ChildThrows, ChildKilled,
           AdapterThrows, MonitorThrows, AdapterKilled, CallerSignal,
           MachineCrash
<1> QED
  BY <1>1, PTL DEF Spec, FirstReasonKept

(* A latched stop bars both links: the monitor cannot latch between the    *)
(* check and the link.                                                     *)
THEOREM LatchBarsLinks == Spec => LatchedStopBarsLink
<1>1. SafetyInv /\ [Next]_vars =>
        [ackVis \subseteq ackVis' /\ ackVis # ackVis' => stopReason = "none"]_vars
  <2> SUFFICES ASSUME SafetyInv, Next, ackVis \subseteq ackVis', ackVis # ackVis'
               PROVE  stopReason = "none"
    OBVIOUS
  <2>1. CASE MachineCrash
    BY <2>1 DEF MachineCrash, SafetyInv, EvidenceInv, DurableIsVisible
  <2>2. CASE LinkAck \/ LinkRelease
    BY <2>2 DEF LinkAck, LinkRelease, Moved, SafetyInv, EvidenceInv,
                CommitSection
  <2> QED
    BY <2>1, <2>2
       DEF Next, ChildStep, AdapterStep, MonitorStep, Environment, Finished,
           DeadlinePasses, vars, childVars, ackVars, rowVars, latchVars,
           timeVars, ChildOnly, ChildEnds, AdapterOnly, NoRows, NoAck,
           NoLatch, Checked, Moved, MonitorOnly, WorldOnly, AppendStart,
           CheckRaw, RenameRaw, SyncRaw, SeeRelease, AcceptRelease,
           ChildStopped, WaitDeadline, LoopTop, ReadStarts, LookForFiles,
           ConvertPass, AppendResults, AppendPasses, AfterConvert, BeforeAck,
           PrepareAck, EnterAckLock, CheckAck, LeaveAckLock, SyncAck,
           PrepareRelease, EnterReleaseLock, CheckRelease, LeaveReleaseLock,
           SyncRelease, PollChild, JoinMonitor, Terminate, ReapChild,
           KillChild, Sample, LatchFailure, MonitorStops, TimePass,
           ChildThrows, ChildKilled, AdapterThrows, MonitorThrows,
           AdapterKilled, CallerSignal
<1> QED
  BY SafetyHolds, <1>1, PTL DEF Spec, LatchedStopBarsLink

-----------------------------------------------------------------------------
(* The refinement.                                                         *)

LEMMA RefinementInit == Init => Permission!Init
BY DEF Init, Permission!Init

LEMMA RefinementStep ==
  SafetyInv /\ SafetyInv' /\ [Next]_vars => [Permission!Next]_(Permission!vars)
<1> SUFFICES ASSUME SafetyInv, SafetyInv', [Next]_vars
             PROVE  [Permission!Next]_(Permission!vars)
  OBVIOUS
<1> DEFINE Evidenced == {p \in Pass : <<"ack", p>> \in ackDur}
           Started == 0 .. events - 1
<1>u. Permission!Unit = Pass
  BY DEF Permission!Unit, Pass
<1>1. CASE AppendStart
  <2>1. /\ kpass \in Pass /\ events = kpass /\ events' = events + 1
        /\ kpass = 0 \/ kpass - 1 \in permitted
        /\ UNCHANGED <<ackDur, permitted, stopReason>>
    BY <1>1, PassesAssumption
       DEF AppendStart, ChildOnly, ackVars, latchVars, SafetyInv, OrderInv,
           ChildOrder, TypeOK, Pass
  <2>2. kpass \notin Started /\ Started' = Started \cup {kpass}
    BY <2>1 DEF Pass
  <2>3. Permission!Start(kpass)
    BY <2>1, <2>2 DEF Permission!Start
  <2> QED
    BY <2>1, <2>3, <1>u DEF Permission!Next
<1>2. CASE LinkRelease
  <2>1. /\ current \in Pass /\ <<"ack", current>> \in ackDur
        /\ stopReason = "none"
        /\ permitted' = permitted \cup {current}
        /\ UNCHANGED <<ackDur, events, stopReason>>
    BY <1>2, PassesAssumption
       DEF LinkRelease, Moved, AdapterOnly, NoLatch, childVars, latchVars,
           SafetyInv, EvidenceInv, AdapterEvidence, CommitSection, OrderInv,
           AdapterOrder, Converted, Linked, Durable, current, TypeOK, Pass
  <2>2. Permission!Permit(current)
    BY <2>1 DEF Permission!Permit
  <2> QED
    BY <2>1, <2>2, <1>u DEF Permission!Next
<1>3. CASE SyncAck \/ SyncRelease \/ MachineCrash
  <2>1. /\ ackDur \subseteq ackDur' /\ ackDur' \subseteq ackVis
        /\ UNCHANGED <<events, permitted, stopReason>>
    BY <1>3 DEF SyncAck, SyncRelease, MachineCrash, Moved, AdapterOnly, NoLatch,
                childVars, latchVars, SafetyInv, EvidenceInv, DurableIsVisible
  <2>2. Evidenced \subseteq Evidenced'
    BY <2>1
  <2>3. \A p \in Pass : <<"ack", p>> \in ackVis => p \in Started
    BY PassesAssumption DEF SafetyInv, OrderInv, AdapterOrder, TypeOK, Pass
  <2>4. Evidenced' \ Evidenced \in SUBSET (Started \ Evidenced)
    BY <2>1, <2>3
  <2>5. Evidenced' = Evidenced \cup (Evidenced' \ Evidenced)
    BY <2>2
  <2>6. Permission!Evidence
    BY <2>1, <2>4, <2>5 DEF Permission!Evidence
  <2> QED
    BY <2>6 DEF Permission!Next
<1>4. CASE stopReason = "none" /\ stopReason' # "none"
           /\ UNCHANGED <<events, ackDur, permitted>>
  BY <1>4 DEF Permission!Next, Permission!Stop
<1>5. CASE UNCHANGED <<events, ackDur, permitted, stopReason>>
  BY <1>5 DEF Permission!vars
<1>6. [stopReason # "none" => stopReason' = stopReason]_vars
  BY
     DEF Next, ChildStep, AdapterStep, MonitorStep, Environment, Finished,
         DeadlinePasses, vars, childVars, ackVars, rowVars, latchVars,
         timeVars, ChildOnly, ChildEnds, AdapterOnly, NoRows, NoAck, NoLatch,
         Checked, Moved, MonitorOnly, WorldOnly, RaiseIfStopped, Refresh,
         AppendStart, CheckRaw, RenameRaw, SyncRaw, SeeRelease,
         AcceptRelease, ChildStopped, WaitDeadline, LoopTop, ReadStarts,
         LookForFiles, ConvertPass, AppendResults, AppendPasses,
         AfterConvert, BeforeAck, PrepareAck, EnterAckLock, CheckAck,
         LinkAck, LeaveAckLock, SyncAck, PrepareRelease, EnterReleaseLock,
         CheckRelease, LinkRelease, LeaveReleaseLock, SyncRelease, PollChild,
         JoinMonitor, Terminate, ReapChild, KillChild, Sample, LatchFailure,
         MonitorStops, TimePass, ChildThrows, ChildKilled, AdapterThrows,
         MonitorThrows, AdapterKilled, CallerSignal, MachineCrash
<1>7. \/ AppendStart \/ LinkRelease \/ SyncAck \/ SyncRelease \/ MachineCrash
      \/ UNCHANGED <<events, ackDur, permitted>>
  BY
     DEF Next, ChildStep, AdapterStep, MonitorStep, Environment, Finished,
         DeadlinePasses, vars, childVars, ackVars, rowVars, latchVars,
         timeVars, ChildOnly, ChildEnds, AdapterOnly, NoRows, NoAck, NoLatch,
         Checked, Moved, MonitorOnly, WorldOnly, CheckRaw, RenameRaw,
         SyncRaw, SeeRelease, AcceptRelease, ChildStopped, WaitDeadline,
         LoopTop, ReadStarts, LookForFiles, ConvertPass, AppendResults,
         AppendPasses, AfterConvert, BeforeAck, PrepareAck, EnterAckLock,
         CheckAck, LinkAck, LeaveAckLock, PrepareRelease, EnterReleaseLock,
         CheckRelease, LeaveReleaseLock, PollChild, JoinMonitor, Terminate,
         ReapChild, KillChild, Sample, LatchFailure, MonitorStops, TimePass,
         ChildThrows, ChildKilled, AdapterThrows, MonitorThrows,
         AdapterKilled, CallerSignal
<1> QED
  BY <1>1, <1>2, <1>3, <1>4, <1>5, <1>6, <1>7
     DEF vars, childVars, ackVars, latchVars

(* The adapter and the child implement the permission protocol too.        *)
THEOREM PermissionImplemented == Spec => ImplementsPermission
<1>1. Init /\ [][Next]_vars /\ []SafetyInv => Permission!Spec
  BY RefinementInit, RefinementStep, PTL DEF Permission!Spec
<1> QED
  BY SafetyHolds, <1>1, PTL DEF Spec, ImplementsPermission
=============================================================================
