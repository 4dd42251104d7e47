------------------------- MODULE BlockReleaseProofs -------------------------
(***************************************************************************)
(* The safety of the block protocol, for any number of pairs and signals:  *)
(* one inductive invariant, from which every invariant of BlockRelease     *)
(* follows, and the refinement of the abstract permission protocol; and    *)
(* what follows from that protocol alone.                                  *)
(***************************************************************************)
EXTENDS BlockRelease, TLAPS

(* The controller's main thread, by what it knows of its current block.    *)
Released == {"rel_unlock", "rel_unmask", "rel_settle"}
Releasing == {"rel_lock", "rel_check", "rel_link"} \cup Released
Authorizing == {"ready_link", "ready_sync"} \cup Releasing
Acknowledged == {"ack_unlock", "ack_sync"} \cup Authorizing
Audited == {"ack_prepare", "ack_check", "ack_link"} \cup Acknowledged
SawFiles == {"audit"} \cup Audited
Unpermitted == ({"await", "poll", "withheld", "stop_wait"} \cup SawFiles)
                 \ Released

Working == {"run", "check", "rename", "sync", "wait", "read_ack"}

DurableIsVisible == rawDur \subseteq rawVis /\ ackDur \subseteq ackVis

(* What the controller has linked and made durable for its block so far.   *)
ControllerEvidence ==
  /\ cpc \in Acknowledged => <<"ack", cblock>> \in ackVis
  /\ cpc \in Authorizing => <<"ack", cblock>> \in ackDur
  /\ cpc = "ready_sync" => <<"ready", cblock>> \in ackVis
  /\ cpc \in Releasing => <<"ready", cblock>> \in ackDur

(* The flag and the lock have the holder that the positions say, whatever  *)
(* else an exception left of them; inside the lock no handler runs.        *)
CommitSection ==
  /\ cpc \in Critical => active /\ hpc = "none"
  /\ cpc \in Inside \cup Leaving => held
  /\ hpc # "none" => active
  /\ hpc = "leave" => held
  /\ cpc = "rel_link" => ~stopSignal

(* The flag is set, or the lock held, and no running code will undo it.    *)
LeftBehind ==
  \/ active /\ hpc = "none" /\ cpc \notin Critical
  \/ held /\ hpc # "leave" /\ ~(hpc = "none" /\ cpc \in Inside \cup Leaving)

(* A handler that waits, one that runs, and what a handler left behind     *)
(* took a signal each.                                                     *)
SignalCount ==
  Alive =>
    /\ pending \/ hpc # "none" \/ LeftBehind => sent > 0
    /\ pending /\ (hpc # "none" \/ LeftBehind) => sent > 1
    /\ hpc # "none" /\ LeftBehind => sent > 1

(* The runner is at the first block that it has not been allowed to pass.  *)
RunnerOrder ==
  /\ started \subseteq 0 .. rblock
  /\ rpc = "start" => rblock \notin started
  /\ rpc \in Working => rblock \in started
  /\ rblock # 0 => rblock - 1 \in permitted
  /\ rpc \in {"start", "run"} => rblock \notin permitted
  /\ rpc = "read_ack" => rblock \in permitted
  /\ \A b \in started : \A v \in 0 .. b - 1 : v \in permitted

(* Files are published by a started block, at its end.                     *)
FilesInOrder ==
  /\ \A a \in Artifact, b \in Block : <<a, b>> \in rawVis => b \in started
  /\ rpc \in {"start", "run"} =>
       \A a \in Artifact : <<a, rblock>> \notin rawVis
  /\ cpc \in SawFiles => \A a \in Artifact : <<a, cblock>> \in rawVis
  /\ \A b \in Block : <<"ack", b>> \in ackVis => b \in started

(* The controller's block is the last one that may have permission.        *)
PermissionOrder ==
  /\ permitted \subseteq 0 .. cblock
  /\ permitted \subseteq started
  /\ cpc \in Unpermitted => cblock \notin permitted
  /\ cpc \in Released \cup {"final_wait"} => cblock \in permitted

(* The runner publishes a file after the one before is durable.            *)
FilesDurable ==
  /\ \A b \in 0 .. rblock - 1 : \A a \in Artifact : <<a, b>> \in rawDur
  /\ rpc \in {"wait", "read_ack"} \/ rexit = "pass" =>
       \A a \in Artifact : <<a, rblock>> \in rawDur
  /\ rpc \in {"check", "rename", "sync"} /\ rart = "summary" =>
       <<"results", rblock>> \in rawDur
  /\ rpc = "sync" => <<rart, rblock>> \in rawVis
  /\ rexit = "pass" => rpc = "ended" /\ rblock = Blocks - 1

(* Only gates that passed lead to a release.                               *)
GatesHold ==
  /\ cpc \in {"await", "poll", "final_wait"} \cup Authorizing => cgate
  /\ cpc \in Audited /\ cgate => rgate[cblock]
  /\ \A b \in permitted : rgate[b]

(* How the two processes end.                                              *)
Exits ==
  /\ rexit = "pass" => rpc = "ended" /\ Blocks - 1 \in permitted
  /\ outcome # "none" => cpc = "ended"
  /\ outcome = "pass" => rexit = "pass"

(* The layers: each is inductive given those above it.                     *)
LockInv == CommitSection /\ SignalCount

EvidenceInv ==
  /\ DurableIsVisible
  /\ ControllerEvidence
  /\ PermissionIsRecoverable

OrderInv == RunnerOrder /\ FilesInOrder /\ PermissionOrder

VerdictInv ==
  /\ GatesHold
  /\ StopVerdictIsFinal
  /\ Exits
  /\ EarlyStopIsPreempted
  /\ NoOrphanRunner

SafetyInv ==
  TypeOK /\ LockInv /\ EvidenceInv /\ FilesDurable /\ OrderInv /\ VerdictInv

-----------------------------------------------------------------------------
LEMMA SafetyInit == Init => SafetyInv
<1> SUFFICES ASSUME Init
             PROVE  SafetyInv
  OBVIOUS
<1>1. TypeOK
  <2>1. 0 \in Block /\ 0 \in 0 .. Blocks /\ 0 \in 0 .. MaxSignals
    BY PairsAssumption, SignalsAssumption DEF Block, Blocks
  <2> QED
    BY <2>1 DEF Init, TypeOK, RunnerPC, RunnerExit, ControllerPC, HandlerPC, Outcome,
                Artifact
<1> USE PairsAssumption, SignalsAssumption DEF Init, Blocks, Block, Artifact
<1>2. LockInv /\ EvidenceInv /\ FilesDurable
  BY DEF LockInv, CommitSection, SignalCount, LeftBehind, Critical,
         AckCritical, RelCritical, Inside, Leaving, EvidenceInv,
         DurableIsVisible, ControllerEvidence, PermissionIsRecoverable,
         Acknowledged, Authorizing, Releasing, Released, FilesDurable
<1>3. OrderInv
  BY DEF OrderInv, RunnerOrder, FilesInOrder, PermissionOrder, Working,
         SawFiles, Audited, Acknowledged, Authorizing, Releasing, Released, Unpermitted
<1>4. VerdictInv
  BY DEF VerdictInv, GatesHold, StopVerdictIsFinal, Exits,
         EarlyStopIsPreempted, NoOrphanRunner, Audited, Acknowledged,
         Authorizing, Releasing, Released
<1> QED
  BY <1>1, <1>2, <1>3, <1>4 DEF SafetyInv

(* What an exception leaves of the lock is a state of it.                  *)
LEMMA LockLeftTypes ==
  TypeOK /\ LockLeft => active' \in BOOLEAN /\ held' \in BOOLEAN
BY DEF TypeOK, LockLeft, LockLeftEntering, TakeLock, FreeLock, lockVars

(* Every action keeps the types.                                           *)
LEMMA TypeStep == TypeOK /\ [Next]_vars => TypeOK'
<1> SUFFICES ASSUME TypeOK, [Next]_vars
             PROVE  TypeOK'
  OBVIOUS
<1>b. ASSUME NEW b \in Block
      PROVE  /\ b + 1 \in 0 .. Blocks
             /\ b # Blocks - 1 => b + 1 \in Block
  BY PairsAssumption DEF Block, Blocks
<1>n. \A n \in AckName : ackVis \cup {n} \in SUBSET AckName
  BY DEF TypeOK
<1> USE DEF TypeOK, Artifact, AckName, RunnerPC, RunnerExit, ControllerPC,
            HandlerPC, Outcome, Critical, AckCritical, RelCritical, rawVars,
            ackVars, runnerVars, controllerVars, lockVars, signalVars,
            RunnerEnds, RunnerOnly, Goto, Fail, Return, MainRuns,
            ControllerOnly, HandlerFrame
<1>l. TakeLock \/ FreeLock \/ UNCHANGED lockVars
        => active' \in BOOLEAN /\ held' \in BOOLEAN
  BY DEF TakeLock, FreeLock
<1>1. CASE RunnerStep
  <2>1. CASE StartBlock
    BY <2>1 DEF StartBlock
  <2>2. CASE RunBlock
    BY <2>2 DEF RunBlock
  <2>3. CASE CheckArtifact
    BY <2>3 DEF CheckArtifact
  <2>4. CASE RenameArtifact
    BY <2>4 DEF RenameArtifact, RawName
  <2>5. CASE SyncArtifact
    BY <2>5 DEF SyncArtifact
  <2>6. CASE SeeRelease
    BY <2>6 DEF SeeRelease
  <2>7. CASE AcceptRelease
    BY <2>7, <1>b DEF AcceptRelease
  <2>8. CASE RunnerStopped
    BY <2>8 DEF RunnerStopped
  <2>9. CASE WaitDeadline
    BY <2>9 DEF WaitDeadline
  <2> QED
    BY <1>1, <2>1, <2>2, <2>3, <2>4, <2>5, <2>6, <2>7, <2>8, <2>9
       DEF RunnerStep
<1>2. CASE ControllerStep
  <2>1. CASE SeeBlockFiles
    BY <2>1 DEF SeeBlockFiles
  <2>2. CASE PollChild
    BY <2>2 DEF PollChild
  <2>3. CASE AuditBlock
    BY <2>3 DEF AuditBlock
  <2>4. CASE EnterAckLock
    BY <2>4 DEF EnterAckLock
  <2>5. CASE CheckAckStop
    BY <2>5, <1>l DEF CheckAckStop
  <2>6. CASE LinkAck
    BY <2>6 DEF LinkAck
  <2>7. CASE LeaveAckLock
    BY <2>7, <1>l DEF LeaveAckLock
  <2>8. CASE SyncAck
    BY <2>8 DEF SyncAck
  <2>9. CASE LinkReady
    BY <2>9 DEF LinkReady
  <2>10. CASE SyncReady
    BY <2>10 DEF SyncReady
  <2>11. CASE EnterReleaseLock
    BY <2>11 DEF EnterReleaseLock
  <2>12. CASE CheckReleaseStop
    BY <2>12, <1>l DEF CheckReleaseStop
  <2>13. CASE LinkRelease
    BY <2>13 DEF LinkRelease
  <2>14. CASE LeaveReleaseLock
    BY <2>14, <1>l DEF LeaveReleaseLock
  <2>15. CASE TerminateRunner
    <3>1. CASE RunnerEnded
      BY <2>15, <3>1 DEF TerminateRunner
    <3>2. CASE ~RunnerEnded
      BY <2>15, <3>2 DEF TerminateRunner
    <3> QED
      BY <3>1, <3>2
  <2>16. CASE ReapRunner
    BY <2>16 DEF ReapRunner
  <2>17. CASE KillRunner
    BY <2>17 DEF KillRunner
  <2>18. CASE AwaitRunnerExit
    BY <2>18 DEF AwaitRunnerExit
  <2>19. CASE ExitTimeout
    BY <2>19 DEF ExitTimeout
  <2>20. CASE ReturnRelease
    BY <2>20, <1>b DEF ReturnRelease, BlockReleased
  <2> QED
    BY <1>2, <2>1, <2>2, <2>3, <2>4, <2>5, <2>6, <2>7, <2>8, <2>9, <2>10,
       <2>11, <2>12, <2>13, <2>14, <2>15, <2>16, <2>17, <2>18, <2>19, <2>20
       DEF ControllerStep
<1>3. CASE Environment
  <2>1. CASE SendSignal
    BY <2>1, SignalsAssumption DEF SendSignal
  <2>2. CASE HandlerEnters
    <3>1. pending' \in BOOLEAN
      BY <2>2 DEF HandlerEnters
    <3> QED
      BY <2>2, <3>1 DEF HandlerEnters
  <2>3. CASE HandlerRecords
    <3>1. stopSignal' \in BOOLEAN
      BY <2>3 DEF HandlerRecords
    <3> QED
      BY <2>3, <3>1, <1>l DEF HandlerRecords
  <2>4. CASE HandlerLeaves
    BY <2>4, <1>l DEF HandlerLeaves
  <2>10. CASE HandlerRaises
    <3>1. active' \in BOOLEAN /\ held' \in BOOLEAN
      BY <2>10, LockLeftTypes DEF HandlerRaises
    <3>2. pending' \in BOOLEAN
      BY <2>10 DEF HandlerRaises
    <3> QED
      BY <2>10, <3>1, <3>2 DEF HandlerRaises
  <2>5. CASE RunnerThrows
    BY <2>5 DEF RunnerThrows
  <2>6. CASE ControllerThrows
    BY <2>6, <1>l DEF ControllerThrows
  <2>7. CASE ControllerKilled
    BY <2>7 DEF ControllerKilled
  <2>8. CASE RunnerKilled
    BY <2>8 DEF RunnerKilled
  <2>9. CASE MachineCrash
    BY <2>9 DEF MachineCrash
  <2> QED
    BY <1>3, <2>1, <2>2, <2>3, <2>4, <2>5, <2>6, <2>7, <2>8, <2>9, <2>10
       DEF Environment, HandlerStep
<1>4. CASE Finished \/ UNCHANGED vars
  BY <1>4 DEF Finished, vars
<1> QED
  BY <1>1, <1>2, <1>3, <1>4 DEF Next

(* The variables keep their types in every behaviour: in particular the    *)
(* controller never reaches a block beyond the last one.                   *)
THEOREM TypeCorrect == Spec => []TypeOK
<1>1. Init => TypeOK
  BY SafetyInit DEF SafetyInv
<1> QED
  BY <1>1, TypeStep, PTL DEF Spec

(* The lock is the business of the main thread and of the handlers in it.  *)
LEMMA LockStep == TypeOK /\ LockInv /\ [Next]_vars => LockInv'
<1> SUFFICES ASSUME TypeOK, LockInv, [Next]_vars
             PROVE  LockInv'
  OBVIOUS
<1> USE DEF TypeOK, LockInv, CommitSection, SignalCount, LeftBehind, Alive,
            Critical, AckCritical, RelCritical, Entering, Inside, Leaving,
            controllerVars, lockVars, signalVars, MainRuns, ControllerOnly,
            TakeLock, FreeLock, Goto, Fail, Return
<1>1. CASE UNCHANGED <<cpc, active, held, stopSignal, hpc, pending, sent>>
  BY <1>1
<1>2. CASE ControllerStep
  <2>1. CASE EnterAckLock
    BY <2>1 DEF EnterAckLock
  <2>2. CASE CheckAckStop
    BY <2>2 DEF CheckAckStop
  <2>3. CASE LinkAck
    BY <2>3 DEF LinkAck
  <2>4. CASE LeaveAckLock
    BY <2>4 DEF LeaveAckLock
  <2>5. CASE EnterReleaseLock
    BY <2>5 DEF EnterReleaseLock
  <2>6. CASE CheckReleaseStop
    BY <2>6 DEF CheckReleaseStop
  <2>7. CASE LinkRelease
    BY <2>7 DEF LinkRelease
  <2>8. CASE LeaveReleaseLock
    BY <2>8 DEF LeaveReleaseLock
  <2>9. CASE /\ Alive /\ cpc \notin Critical /\ cpc' \notin Critical
             /\ UNCHANGED <<active, held, stopSignal, hpc, pending, sent>>
    BY <2>9
  <2>10. CASE KillRunner
    <3>1. UNCHANGED <<cpc, active, held, stopSignal, hpc, pending, sent>>
      BY <2>10 DEF KillRunner
    <3> QED
      BY <3>1, <1>1
  <2> QED
    BY <1>2, <2>1, <2>2, <2>3, <2>4, <2>5, <2>6, <2>7, <2>8, <2>9, <2>10
       DEF ControllerStep, SeeBlockFiles, PollChild, AuditBlock, SyncAck,
           LinkReady, SyncReady, ReturnRelease, BlockReleased,
           TerminateRunner, ReapRunner, AwaitRunnerExit, ExitTimeout
<1>3. CASE SendSignal
  BY <1>3 DEF SendSignal
<1>4. CASE HandlerEnters
  BY <1>4 DEF HandlerEnters, HandlerFrame
<1>5. CASE HandlerRecords
  BY <1>5 DEF HandlerRecords, HandlerFrame
<1>6. CASE HandlerLeaves
  BY <1>6 DEF HandlerLeaves, HandlerFrame
<1>7. CASE HandlerRaises
  <2>1. sent > 0 /\ sent' = sent /\ ~pending' /\ hpc' = "none"
    BY <1>7 DEF HandlerRaises, HandlerFrame
  <2>2. cpc' \notin Critical
    BY <1>7 DEF HandlerRaises
  <2> QED
    BY <2>1, <2>2
<1>8. CASE ControllerThrows
  BY <1>8 DEF ControllerThrows
<1>9. CASE ControllerKilled \/ MachineCrash
  BY <1>9 DEF ControllerKilled, MachineCrash
<1> QED
  BY <1>1, <1>2, <1>3, <1>4, <1>5, <1>6, <1>7, <1>8, <1>9
     DEF Next, RunnerStep, StartBlock, RunBlock, CheckArtifact,
         RenameArtifact, SyncArtifact, SeeRelease, AcceptRelease,
         RunnerStopped, WaitDeadline, RunnerOnly, Environment, HandlerStep,
         RunnerThrows, RunnerKilled, Finished, vars

(* Raw files are the business of the runner, and of crashes.               *)
LEMMA DurableStep ==
  TypeOK /\ DurableIsVisible /\ FilesDurable /\ [Next]_vars => FilesDurable'
<1> SUFFICES ASSUME TypeOK, DurableIsVisible, FilesDurable, [Next]_vars
             PROVE  FilesDurable'
  OBVIOUS
<1> USE DEF TypeOK, DurableIsVisible, FilesDurable, Artifact, Block,
            RunnerEnds, RunnerEnded
<1>1. CASE UNCHANGED <<rawVis, rawDur, rpc, rblock, rart, rexit>>
  BY <1>1
<1>2. CASE StartBlock
  BY <1>2 DEF StartBlock, rawVars
<1>3. CASE RunBlock
  BY <1>3 DEF RunBlock, rawVars
<1>4. CASE CheckArtifact
  BY <1>4 DEF CheckArtifact, rawVars
<1>5. CASE RenameArtifact
  BY <1>5 DEF RenameArtifact
<1>6. CASE SyncArtifact
  BY <1>6 DEF SyncArtifact
<1>7. CASE SeeRelease
  BY <1>7 DEF SeeRelease, rawVars
<1>8. CASE AcceptRelease
  <2>1. rblock \in Nat /\ rblock + 1 - 1 = rblock
    BY PairsAssumption DEF Blocks
  <2>2. \A b \in 0 .. rblock : b \in 0 .. rblock - 1 \/ b = rblock
    BY <2>1
  <2>3. CASE rpc' = "ended" /\ UNCHANGED <<rawVis, rawDur, rblock>>
    BY <1>8, <2>3 DEF AcceptRelease
  <2>4. CASE /\ rpc' = "start" /\ rblock' = rblock + 1
             /\ UNCHANGED <<rawVis, rawDur, rexit>>
    <3>1. rpc = "read_ack"
      BY <1>8 DEF AcceptRelease
    <3> QED
      BY <2>1, <2>2, <2>4, <3>1
  <2> QED
    BY <1>8, <2>3, <2>4 DEF AcceptRelease, rawVars
<1>9. CASE RunnerStopped \/ WaitDeadline \/ RunnerThrows \/ RunnerKilled \/ KillRunner
  BY <1>9 DEF RunnerStopped, WaitDeadline, RunnerThrows, RunnerKilled,
              KillRunner, rawVars
<1>10. CASE MachineCrash
  BY <1>10 DEF MachineCrash
<1> QED
  BY <1>1, <1>2, <1>3, <1>4, <1>5, <1>6, <1>7, <1>8, <1>9, <1>10
     DEF Next, RunnerStep, ControllerStep, Environment, HandlerStep, Finished,
         vars, rawVars, runnerVars, SeeBlockFiles, PollChild, AuditBlock,
         EnterAckLock, CheckAckStop, LinkAck, LeaveAckLock, SyncAck,
         LinkReady, SyncReady, EnterReleaseLock, CheckReleaseStop,
         LinkRelease, LeaveReleaseLock, ReturnRelease, TerminateRunner,
         ReapRunner, AwaitRunnerExit, ExitTimeout, MainRuns, ControllerOnly,
         SendSignal, HandlerEnters, HandlerRecords, HandlerLeaves,
         HandlerRaises, HandlerFrame, ControllerThrows, ControllerKilled

(* The evidence does not depend on the runner, nor on the lock.            *)
LEMMA EvidenceStep ==
  TypeOK /\ EvidenceInv /\ [Next]_vars => EvidenceInv'
<1> SUFFICES ASSUME TypeOK, EvidenceInv, [Next]_vars
             PROVE  EvidenceInv'
  OBVIOUS
<1> USE DEF TypeOK, EvidenceInv, DurableIsVisible, ControllerEvidence,
   PermissionIsRecoverable, Released, Releasing, Authorizing, Acknowledged,
   rawVars, ackVars, runnerVars, controllerVars, RunnerOnly, MainRuns,
   ControllerOnly, RunnerEnds, Goto, Fail, RunnerEnded, Return, BlockReleased, HandlerFrame,
   Alive
<1>1. CASE RunnerStep
  <2>1. CASE StartBlock
    BY <2>1 DEF StartBlock
  <2>2. CASE RunBlock
    BY <2>2 DEF RunBlock
  <2>3. CASE CheckArtifact
    BY <2>3 DEF CheckArtifact
  <2>4. CASE RenameArtifact
    BY <2>4 DEF RenameArtifact
  <2>5. CASE SyncArtifact
    BY <2>5 DEF SyncArtifact
  <2>6. CASE SeeRelease
    BY <2>6 DEF SeeRelease
  <2>7. CASE AcceptRelease
    BY <2>7 DEF AcceptRelease
  <2>8. CASE RunnerStopped
    BY <2>8 DEF RunnerStopped
  <2>9. CASE WaitDeadline
    BY <2>9 DEF WaitDeadline
  <2> QED
    BY <1>1, <2>1, <2>2, <2>3, <2>4, <2>5, <2>6, <2>7, <2>8, <2>9
       DEF RunnerStep
<1>2. CASE ControllerStep
  <2>1. CASE SeeBlockFiles
    BY <2>1 DEF SeeBlockFiles
  <2>2. CASE PollChild
    BY <2>2 DEF PollChild
  <2>3. CASE AuditBlock
    BY <2>3 DEF AuditBlock
  <2>4. CASE EnterAckLock
    BY <2>4 DEF EnterAckLock
  <2>5. CASE CheckAckStop
    BY <2>5 DEF CheckAckStop
  <2>6. CASE LinkAck
    BY <2>6 DEF LinkAck
  <2>7. CASE LeaveAckLock
    BY <2>7 DEF LeaveAckLock
  <2>8. CASE SyncAck
    BY <2>8 DEF SyncAck
  <2>9. CASE LinkReady
    BY <2>9 DEF LinkReady
  <2>10. CASE SyncReady
    BY <2>10 DEF SyncReady
  <2>11. CASE EnterReleaseLock
    BY <2>11 DEF EnterReleaseLock
  <2>12. CASE CheckReleaseStop
    BY <2>12 DEF CheckReleaseStop
  <2>13. CASE LinkRelease
    BY <2>13 DEF LinkRelease
  <2>14. CASE LeaveReleaseLock
    BY <2>14 DEF LeaveReleaseLock
  <2>15. CASE TerminateRunner
    BY <2>15 DEF TerminateRunner
  <2>16. CASE ReapRunner
    BY <2>16 DEF ReapRunner
  <2>17. CASE KillRunner
    BY <2>17 DEF KillRunner
  <2>18. CASE AwaitRunnerExit
    BY <2>18 DEF AwaitRunnerExit
  <2>19. CASE ExitTimeout
    BY <2>19 DEF ExitTimeout
  <2>20. CASE ReturnRelease
    BY <2>20 DEF ReturnRelease
  <2> QED
    BY <1>2, <2>1, <2>2, <2>3, <2>4, <2>5, <2>6, <2>7, <2>8, <2>9, <2>10,
       <2>11, <2>12, <2>13, <2>14, <2>15, <2>16, <2>17, <2>18, <2>19, <2>20
       DEF ControllerStep
<1>3. CASE Environment
  <2>1. CASE SendSignal
    BY <2>1 DEF SendSignal
  <2>2. CASE HandlerStep
    BY <2>2 DEF HandlerStep, HandlerEnters, HandlerRecords, HandlerLeaves
  <2>3. CASE HandlerRaises
    BY <2>3 DEF HandlerRaises
  <2>5. CASE RunnerThrows
    BY <2>5 DEF RunnerThrows
  <2>6. CASE ControllerThrows
    BY <2>6 DEF ControllerThrows
  <2>7. CASE ControllerKilled
    BY <2>7 DEF ControllerKilled
  <2>8. CASE RunnerKilled
    BY <2>8 DEF RunnerKilled
  <2>9. CASE MachineCrash
    BY <2>9 DEF MachineCrash
  <2> QED
    BY <1>3, <2>1, <2>2, <2>3, <2>5, <2>6, <2>7, <2>8, <2>9
       DEF Environment
<1>4. CASE Finished \/ UNCHANGED vars
  BY <1>4 DEF Finished, vars
<1> QED
  BY <1>1, <1>2, <1>3, <1>4 DEF Next

(* The order of starts, files and permissions rests on the evidence.        *)
LEMMA OrderStep ==
  TypeOK /\ TypeOK' /\ EvidenceInv /\ OrderInv /\ [Next]_vars => OrderInv'
<1> SUFFICES ASSUME TypeOK, TypeOK', EvidenceInv, OrderInv, [Next]_vars
             PROVE  OrderInv'
  OBVIOUS
<1> USE DEF TypeOK, OrderInv, RunnerOrder, FilesInOrder, PermissionOrder,
   Block, Artifact, Working, SawFiles, Audited, Unpermitted, Released,
   Releasing, Authorizing, Acknowledged, rawVars, ackVars, runnerVars,
   controllerVars, RunnerOnly, MainRuns, ControllerOnly, RunnerEnds, Goto, Fail, RunnerEnded, Return,
   BlockReleased, HandlerFrame, Alive
<1>1. CASE RunnerStep
  <2>1. CASE StartBlock
    BY <2>1 DEF StartBlock
  <2>2. CASE RunBlock
    BY <2>2 DEF RunBlock
  <2>3. CASE CheckArtifact
    BY <2>3 DEF CheckArtifact
  <2>4. CASE RenameArtifact
    BY <2>4 DEF RenameArtifact
  <2>5. CASE SyncArtifact
    BY <2>5 DEF SyncArtifact
  <2>6. CASE SeeRelease
    BY <2>6 DEF SeeRelease, EvidenceInv, PermissionIsRecoverable
  <2>7. CASE AcceptRelease
    BY <2>7 DEF AcceptRelease
  <2>8. CASE RunnerStopped
    BY <2>8 DEF RunnerStopped
  <2>9. CASE WaitDeadline
    BY <2>9 DEF WaitDeadline
  <2> QED
    BY <1>1, <2>1, <2>2, <2>3, <2>4, <2>5, <2>6, <2>7, <2>8, <2>9
       DEF RunnerStep
<1>2. CASE ControllerStep
  <2>1. CASE SeeBlockFiles
    BY <2>1 DEF SeeBlockFiles, BlockFilesVisible
  <2>2. CASE PollChild
    BY <2>2 DEF PollChild
  <2>3. CASE AuditBlock
    BY <2>3 DEF AuditBlock
  <2>4. CASE EnterAckLock
    BY <2>4 DEF EnterAckLock
  <2>5. CASE CheckAckStop
    BY <2>5 DEF CheckAckStop
  <2>6. CASE LinkAck
    BY <2>6 DEF LinkAck
  <2>7. CASE LeaveAckLock
    BY <2>7 DEF LeaveAckLock
  <2>8. CASE SyncAck
    BY <2>8 DEF SyncAck
  <2>9. CASE LinkReady
    BY <2>9 DEF LinkReady
  <2>10. CASE SyncReady
    BY <2>10 DEF SyncReady
  <2>11. CASE EnterReleaseLock
    BY <2>11 DEF EnterReleaseLock
  <2>12. CASE CheckReleaseStop
    BY <2>12 DEF CheckReleaseStop
  <2>13. CASE LinkRelease
    BY <2>13 DEF LinkRelease
  <2>14. CASE LeaveReleaseLock
    BY <2>14 DEF LeaveReleaseLock
  <2>15. CASE TerminateRunner
    BY <2>15 DEF TerminateRunner
  <2>16. CASE ReapRunner
    BY <2>16 DEF ReapRunner
  <2>17. CASE KillRunner
    BY <2>17 DEF KillRunner
  <2>18. CASE AwaitRunnerExit
    BY <2>18 DEF AwaitRunnerExit
  <2>19. CASE ExitTimeout
    BY <2>19 DEF ExitTimeout
  <2>20. CASE ReturnRelease
    BY <2>20 DEF ReturnRelease
  <2> QED
    BY <1>2, <2>1, <2>2, <2>3, <2>4, <2>5, <2>6, <2>7, <2>8, <2>9, <2>10,
       <2>11, <2>12, <2>13, <2>14, <2>15, <2>16, <2>17, <2>18, <2>19, <2>20
       DEF ControllerStep
<1>3. CASE Environment
  <2>1. CASE SendSignal
    BY <2>1 DEF SendSignal
  <2>2. CASE HandlerStep
    BY <2>2 DEF HandlerStep, HandlerEnters, HandlerRecords, HandlerLeaves
  <2>3. CASE HandlerRaises
    BY <2>3 DEF HandlerRaises
  <2>5. CASE RunnerThrows
    BY <2>5 DEF RunnerThrows
  <2>6. CASE ControllerThrows
    BY <2>6 DEF ControllerThrows
  <2>7. CASE ControllerKilled
    BY <2>7 DEF ControllerKilled
  <2>8. CASE RunnerKilled
    BY <2>8 DEF RunnerKilled
  <2>9. CASE MachineCrash
    <3>1. rawVis' \subseteq rawVis /\ ackVis' \subseteq ackVis
      BY <2>9 DEF MachineCrash, EvidenceInv, DurableIsVisible
    <3>2. /\ rpc' = "ended" /\ cpc' = "ended"
          /\ UNCHANGED <<rblock, started, cblock, permitted>>
      BY <2>9 DEF MachineCrash
    <3> QED
      BY <3>1, <3>2
  <2> QED
    BY <1>3, <2>1, <2>2, <2>3, <2>5, <2>6, <2>7, <2>8, <2>9
       DEF Environment
<1>4. CASE Finished \/ UNCHANGED vars
  BY <1>4 DEF Finished, vars
<1> QED
  BY <1>1, <1>2, <1>3, <1>4 DEF Next

(* The gates, and how the processes end, rest on the order.                 *)
LEMMA VerdictStep ==
  /\ TypeOK /\ TypeOK' /\ LockInv /\ OrderInv /\ OrderInv' /\ VerdictInv
  /\ [Next]_vars
  => VerdictInv'
<1> SUFFICES ASSUME TypeOK, TypeOK', LockInv, OrderInv, OrderInv', VerdictInv,
                    [Next]_vars
             PROVE  VerdictInv'
  OBVIOUS
<1> USE DEF TypeOK, VerdictInv, GatesHold, StopVerdictIsFinal, Exits,
   EarlyStopIsPreempted, NoOrphanRunner, OrderInv, RunnerOrder,
   FilesInOrder, PermissionOrder, Block, Artifact, Working, SawFiles,
   Audited, Unpermitted, Released, Releasing, Authorizing, Acknowledged,
   rawVars, ackVars, runnerVars, controllerVars, signalVars, RunnerOnly,
   MainRuns, ControllerOnly, RunnerEnds, Goto, Fail,
   RunnerEnded, Return, BlockReleased, HandlerFrame, Alive
<1>1. CASE RunnerStep
  <2>1. CASE StartBlock
    BY <2>1 DEF StartBlock
  <2>2. CASE RunBlock
    BY <2>2 DEF RunBlock
  <2>3. CASE CheckArtifact
    BY <2>3 DEF CheckArtifact
  <2>4. CASE RenameArtifact
    BY <2>4 DEF RenameArtifact
  <2>5. CASE SyncArtifact
    BY <2>5 DEF SyncArtifact
  <2>6. CASE SeeRelease
    BY <2>6 DEF SeeRelease
  <2>7. CASE AcceptRelease
    BY <2>7 DEF AcceptRelease
  <2>8. CASE RunnerStopped
    BY <2>8 DEF RunnerStopped
  <2>9. CASE WaitDeadline
    BY <2>9 DEF WaitDeadline
  <2> QED
    BY <1>1, <2>1, <2>2, <2>3, <2>4, <2>5, <2>6, <2>7, <2>8, <2>9
       DEF RunnerStep
<1>2. CASE ControllerStep
  <2>1. CASE SeeBlockFiles
    BY <2>1 DEF SeeBlockFiles
  <2>2. CASE PollChild
    BY <2>2 DEF PollChild
  <2>3. CASE AuditBlock
    BY <2>3 DEF AuditBlock
  <2>4. CASE EnterAckLock
    BY <2>4 DEF EnterAckLock
  <2>5. CASE CheckAckStop
    BY <2>5 DEF CheckAckStop
  <2>6. CASE LinkAck
    BY <2>6 DEF LinkAck
  <2>7. CASE LeaveAckLock
    BY <2>7 DEF LeaveAckLock
  <2>8. CASE SyncAck
    BY <2>8 DEF SyncAck
  <2>9. CASE LinkReady
    BY <2>9 DEF LinkReady
  <2>10. CASE SyncReady
    BY <2>10 DEF SyncReady
  <2>11. CASE EnterReleaseLock
    BY <2>11 DEF EnterReleaseLock
  <2>12. CASE CheckReleaseStop
    BY <2>12 DEF CheckReleaseStop
  <2>13. CASE LinkRelease
    BY <2>13 DEF LinkRelease
  <2>14. CASE LeaveReleaseLock
    BY <2>14 DEF LeaveReleaseLock
  <2>15. CASE TerminateRunner
    BY <2>15 DEF TerminateRunner
  <2>16. CASE ReapRunner
    BY <2>16 DEF ReapRunner
  <2>17. CASE KillRunner
    BY <2>17 DEF KillRunner
  <2>18. CASE AwaitRunnerExit
    BY <2>18 DEF AwaitRunnerExit
  <2>19. CASE ExitTimeout
    BY <2>19 DEF ExitTimeout
  <2>20. CASE ReturnRelease
    BY <2>20 DEF ReturnRelease
  <2> QED
    BY <1>2, <2>1, <2>2, <2>3, <2>4, <2>5, <2>6, <2>7, <2>8, <2>9, <2>10,
       <2>11, <2>12, <2>13, <2>14, <2>15, <2>16, <2>17, <2>18, <2>19, <2>20
       DEF ControllerStep
<1>3. CASE Environment
  <2>1. CASE SendSignal
    BY <2>1 DEF SendSignal
  <2>2. CASE HandlerStep
    BY <2>2 DEF HandlerStep, HandlerEnters, HandlerRecords, HandlerLeaves
  <2>3. CASE HandlerRaises
    BY <2>3 DEF HandlerRaises, LockInv, SignalCount, LeftBehind, Critical,
                AckCritical, RelCritical
  <2>5. CASE RunnerThrows
    BY <2>5 DEF RunnerThrows
  <2>6. CASE ControllerThrows
    BY <2>6 DEF ControllerThrows
  <2>7. CASE ControllerKilled
    BY <2>7 DEF ControllerKilled
  <2>8. CASE RunnerKilled
    BY <2>8 DEF RunnerKilled
  <2>9. CASE MachineCrash
    BY <2>9 DEF MachineCrash
  <2> QED
    BY <1>3, <2>1, <2>2, <2>3, <2>5, <2>6, <2>7, <2>8, <2>9
       DEF Environment
<1>4. CASE Finished \/ UNCHANGED vars
  BY <1>4 DEF Finished, vars
<1> QED
  BY <1>1, <1>2, <1>3, <1>4 DEF Next

LEMMA SafetyStep == SafetyInv /\ [Next]_vars => SafetyInv'
BY TypeStep, LockStep, EvidenceStep, DurableStep, OrderStep, VerdictStep
   DEF SafetyInv, EvidenceInv

LEMMA SafetyHolds == Spec => []SafetyInv
BY SafetyInit, SafetyStep, PTL DEF Spec

-----------------------------------------------------------------------------
(* A permission can be traced and rebuilt after any crash: the durable     *)
(* acknowledgement and ready record come before the release link.          *)
THEOREM PermissionRecovers == Spec => []PermissionIsRecoverable
<1>1. SafetyInv => PermissionIsRecoverable
  BY DEF SafetyInv, EvidenceInv
<1> QED
  BY SafetyHolds, <1>1, PTL

(* A scientific stop stays a stop: the block after a failed gate is never  *)
(* started.                                                                *)
THEOREM StopVerdictHolds == Spec => []StopVerdictIsFinal
<1>1. SafetyInv => StopVerdictIsFinal
  BY DEF SafetyInv, VerdictInv
<1> QED
  BY SafetyHolds, <1>1, PTL

(* The early_stop branch of the runner is dead under this controller.      *)
THEOREM EarlyStopNeverReached == Spec => []EarlyStopIsPreempted
<1>1. SafetyInv => EarlyStopIsPreempted
  BY DEF SafetyInv, VerdictInv
<1> QED
  BY SafetyHolds, <1>1, PTL

(* execute() returns only when the runner is gone, unless a stop handler   *)
(* cut its cleanup short, which takes two signals.                         *)
THEOREM NoRunnerIsOrphaned == Spec => []NoOrphanRunner
<1>1. SafetyInv => NoOrphanRunner
  BY DEF SafetyInv, VerdictInv
<1> QED
  BY SafetyHolds, <1>1, PTL

(* A run that execute() reports as passed went through every block, each   *)
(* with its permission and its gate, and its evidence is durable.          *)
THEOREM PassingIsComplete == Spec => []PassMeansComplete
<1>1. SafetyInv => PassMeansComplete
  <2> SUFFICES ASSUME SafetyInv, outcome = "pass"
               PROVE  /\ permitted = Block /\ started = Block
                      /\ rexit = "pass"
                      /\ \A b \in Block : rgate[b]
                      /\ RawName \subseteq rawDur
                      /\ {"ack", "ready"} \X Block \subseteq ackDur
    BY DEF PassMeansComplete
  <2> USE DEF SafetyInv
  <2>1. rexit = "pass" /\ Blocks - 1 \in permitted
    BY DEF VerdictInv, Exits
  <2>2. \A b \in Block : b \in permitted
    <3>1. Blocks - 1 \in started /\ \A v \in 0 .. (Blocks - 1) - 1 : v \in permitted
      BY <2>1 DEF OrderInv, RunnerOrder, PermissionOrder
    <3> QED
      BY <2>1, <3>1, PairsAssumption DEF Block, Blocks
  <2>3. permitted \subseteq started /\ started \subseteq Block
    BY DEF OrderInv, PermissionOrder, TypeOK
  <2>4. \A b \in Block : rgate[b]
    BY <2>2 DEF VerdictInv, GatesHold
  <2>5. \A a \in Artifact, b \in Block : <<a, b>> \in rawDur
    <3>1. rblock = Blocks - 1 /\ \A a \in Artifact : <<a, rblock>> \in rawDur
      BY <2>1 DEF FilesDurable
    <3>2. \A b \in Block : b = Blocks - 1 \/ b \in 0 .. (Blocks - 1) - 1
      BY PairsAssumption DEF Block, Blocks
    <3> QED
      BY <3>1, <3>2 DEF FilesDurable
  <2>6. \A b \in Block : <<"ack", b>> \in ackDur /\ <<"ready", b>> \in ackDur
    BY <2>2 DEF EvidenceInv, PermissionIsRecoverable
  <2>7. RawName \subseteq rawDur /\ {"ack", "ready"} \X Block \subseteq ackDur
    <3>1. \A n \in RawName : n \in rawDur
      <4> SUFFICES ASSUME NEW a \in Artifact, NEW b \in Block
                   PROVE  <<a, b>> \in rawDur
        BY DEF RawName
      <4> QED
        BY <2>5
    <3>2. \A n \in {"ack", "ready"} \X Block : n \in ackDur
      <4> SUFFICES ASSUME NEW a \in {"ack", "ready"}, NEW b \in Block
                   PROVE  <<a, b>> \in ackDur
        OBVIOUS
      <4> QED
        BY <2>6
    <3> QED
      BY <3>1, <3>2
  <2> QED
    BY <2>1, <2>2, <2>3, <2>4, <2>7 DEF TypeOK
<1> QED
  BY SafetyHolds, <1>1, PTL

(* Timing and auditing exclude one another: while the controller audits a  *)
(* block the runner waits for its release.                                 *)
THEOREM AuditAndTimingExclude == Spec => []AuditNeverOverlapsTiming
<1>1. SafetyInv => AuditNeverOverlapsTiming
  <2> SUFFICES ASSUME SafetyInv, rpc = "run",
                      cpc \in {"audit", "ack_prepare", "ack_sync",
                               "ready_link", "ready_sync", "rel_lock",
                               "rel_check", "rel_link"} \cup AckCritical
               PROVE  FALSE
    BY DEF AuditNeverOverlapsTiming
  <2> USE DEF SafetyInv, OrderInv
  <2>1. cblock \notin permitted /\ \A a \in Artifact : <<a, cblock>> \in rawVis
    BY DEF PermissionOrder, FilesInOrder, Unpermitted, SawFiles, Audited,
           Acknowledged, Authorizing, Releasing, Released, AckCritical
  <2>2. cblock \in started /\ cblock # rblock
    BY <2>1 DEF FilesInOrder, TypeOK, Artifact
  <2>3. cblock \in 0 .. rblock - 1 /\ rblock \in started
    BY <2>2 DEF RunnerOrder, Working, TypeOK, Block, Blocks
  <2> QED
    BY <2>1, <2>3 DEF RunnerOrder
<1> QED
  BY SafetyHolds, <1>1, PTL

(* No release is linked once a stop is recorded: the check and the link    *)
(* are one section in which no handler can record a stop.                  *)
THEOREM StopBarsRelease == Spec => RecordedStopBarsRelease
<1>1. SafetyInv /\ [Next]_vars => [permitted' # permitted => ~stopSignal]_vars
  <2> SUFFICES ASSUME SafetyInv, Next, permitted' # permitted
               PROVE  ~stopSignal
    OBVIOUS
  <2>1. LinkRelease
    BY DEF Next, RunnerStep, ControllerStep, Environment, HandlerStep, Finished,
           vars, rawVars, ackVars, runnerVars, controllerVars, signalVars,
           StartBlock, RunBlock, CheckArtifact, RenameArtifact, SyncArtifact,
           SeeRelease, AcceptRelease, RunnerStopped, WaitDeadline, RunnerOnly,
           SeeBlockFiles, PollChild, AuditBlock, EnterAckLock, CheckAckStop,
           LinkAck, LeaveAckLock, SyncAck, LinkReady, SyncReady,
           EnterReleaseLock, CheckReleaseStop, LeaveReleaseLock, ReturnRelease,
           TerminateRunner, ReapRunner, KillRunner, AwaitRunnerExit,
           ExitTimeout, SendSignal, HandlerEnters, HandlerRecords,
           HandlerLeaves, HandlerRaises, HandlerFrame, RunnerThrows, ControllerThrows,
           ControllerKilled, RunnerKilled, MachineCrash
  <2> QED
    BY <2>1 DEF LinkRelease, SafetyInv, LockInv, CommitSection
<1> QED
  BY SafetyHolds, <1>1, PTL DEF Spec, RecordedStopBarsRelease

-----------------------------------------------------------------------------
(* The refinement.                                                         *)

LEMMA RefinementInit == Init => Permission!Init
BY DEF Init, Permission!Init

(* A step either leaves the abstract state alone or is one abstract step.  *)
LEMMA RefinementStep ==
  SafetyInv /\ SafetyInv' /\ [Next]_vars => [Permission!Next]_(Permission!vars)
<1> SUFFICES ASSUME SafetyInv, SafetyInv', [Next]_vars
             PROVE  [Permission!Next]_(Permission!vars)
  OBVIOUS
<1> DEFINE Evidenced == {b \in Block : <<"ack", b>> \in ackDur}
<1>u. Permission!Unit = Block
  BY DEF Permission!Unit, Block
<1>1. CASE StartBlock
  <2>1. /\ rblock \in Block /\ rblock \notin started
        /\ rblock = 0 \/ rblock - 1 \in permitted
        /\ started' = started \cup {rblock}
        /\ UNCHANGED <<ackDur, permitted, stopSignal>>
    BY <1>1 DEF StartBlock, RunnerOnly, ackVars, signalVars, SafetyInv, OrderInv,
                RunnerOrder, TypeOK
  <2>2. Permission!Start(rblock)
    BY <2>1 DEF Permission!Start
  <2> QED
    BY <2>1, <2>2, <1>u DEF Permission!Next
<1>2. CASE LinkRelease
  <2>1. /\ cblock \in Block /\ <<"ack", cblock>> \in ackDur /\ ~stopSignal
        /\ permitted' = permitted \cup {cblock}
        /\ UNCHANGED <<ackDur, started, stopSignal>>
    BY <1>2 DEF LinkRelease, MainRuns, ControllerOnly, runnerVars, signalVars,
                SafetyInv, LockInv, CommitSection, EvidenceInv,
                ControllerEvidence, TypeOK,
                Authorizing, Releasing, Released
  <2>2. Permission!Permit(cblock)
    BY <2>1 DEF Permission!Permit
  <2> QED
    BY <2>1, <2>2, <1>u DEF Permission!Next
<1>3. CASE HandlerRecords
  <2>1. stopSignal' = TRUE /\ UNCHANGED <<ackDur, started, permitted>>
    BY <1>3 DEF HandlerRecords, HandlerFrame, ackVars, runnerVars
  <2> QED
    BY <2>1 DEF Permission!Next, Permission!Stop
<1>4. CASE SyncAck \/ SyncReady \/ MachineCrash
  <2>1. /\ ackDur \subseteq ackDur' /\ ackDur' \subseteq ackVis
        /\ UNCHANGED <<started, permitted, stopSignal>>
    BY <1>4 DEF SyncAck, SyncReady, MachineCrash, MainRuns, ControllerOnly,
                runnerVars, signalVars, SafetyInv, EvidenceInv, DurableIsVisible
  <2>2. Evidenced \subseteq Evidenced'
    BY <2>1
  <2>3. Evidenced' \ Evidenced \in SUBSET (started \ Evidenced)
    BY <2>1 DEF SafetyInv, OrderInv, FilesInOrder
  <2>4. Evidenced' = Evidenced \cup (Evidenced' \ Evidenced)
    BY <2>2
  <2>5. Permission!Evidence
    BY <2>1, <2>3, <2>4 DEF Permission!Evidence
  <2> QED
    BY <2>5 DEF Permission!Next
<1>5. CASE UNCHANGED <<started, ackDur, permitted, stopSignal>>
  BY <1>5 DEF Permission!vars
<1> QED
  BY <1>1, <1>2, <1>3, <1>4, <1>5
     DEF Next, RunnerStep, ControllerStep, Environment, HandlerStep, Finished,
         vars, rawVars, ackVars, runnerVars, controllerVars, signalVars,
         RunBlock, CheckArtifact, RenameArtifact, SyncArtifact, SeeRelease,
         AcceptRelease, RunnerStopped, WaitDeadline, RunnerOnly, RunnerEnds,
         SeeBlockFiles, PollChild, AuditBlock, EnterAckLock, CheckAckStop,
         LinkAck, LeaveAckLock, LinkReady, EnterReleaseLock, CheckReleaseStop,
         LeaveReleaseLock, ReturnRelease, TerminateRunner, ReapRunner,
         KillRunner, AwaitRunnerExit, ExitTimeout, MainRuns, ControllerOnly,
         SendSignal, HandlerEnters, HandlerLeaves, HandlerRaises,
         HandlerFrame, RunnerThrows, ControllerThrows, ControllerKilled, RunnerKilled

(* The two processes and their files implement the permission protocol:    *)
(* blocks start one at a time, each with the durable evidence and the      *)
(* permission of the one before, and nothing is permitted after a stop.    *)
THEOREM PermissionImplemented == Spec => ImplementsPermission
<1>1. Init /\ [][Next]_vars /\ []SafetyInv => Permission!Spec
  BY RefinementInit, RefinementStep, PTL DEF Permission!Spec
<1> QED
  BY SafetyHolds, <1>1, PTL DEF Spec, ImplementsPermission
-----------------------------------------------------------------------------
(* The permission protocol by itself, over units and variables of its own: *)
(* what is proved of it holds of every protocol that implements it.        *)

CONSTANT AnyUnits

VARIABLES begun, shown, allowed, ended

Permitting == INSTANCE BlockPermission WITH
  Units <- AnyUnits,
  started <- begun,
  evidenced <- shown,
  permitted <- allowed,
  stopped <- ended

(* Permissions rest on evidence, evidence on starts; with StartsInOrder    *)
(* this is inductive.                                                      *)
PermissionInv ==
  /\ Permitting!TypeOK
  /\ allowed \subseteq shown
  /\ shown \subseteq begun
  /\ Permitting!StartsInOrder

(* No unit has been started at first.                                      *)
LEMMA PermissionInit ==
  ASSUME AnyUnits \in Nat \ {0}
  PROVE  Permitting!Init => PermissionInv
BY DEF Permitting!Init, PermissionInv, Permitting!TypeOK, Permitting!StartsInOrder

(* Every step of the protocol preserves the invariant.                     *)
LEMMA PermissionStep ==
  ASSUME AnyUnits \in Nat \ {0}
  PROVE  PermissionInv /\ [Permitting!Next]_Permitting!vars => PermissionInv'
<1> SUFFICES ASSUME PermissionInv, [Permitting!Next]_Permitting!vars
             PROVE  PermissionInv'
  OBVIOUS
<1> USE DEF PermissionInv, Permitting!TypeOK
<1>1. ASSUME NEW u \in Permitting!Unit, Permitting!Start(u)
      PROVE  PermissionInv'
  <2>1. Permitting!TypeOK' /\ (allowed \subseteq shown)' /\ (shown \subseteq begun)'
    BY <1>1 DEF Permitting!Start
  <2>2. ASSUME NEW v \in 0 .. u - 1
        PROVE  v \in allowed /\ v \in shown
    <3>1. u - 1 \in allowed
      BY <1>1, <2>2 DEF Permitting!Start, Permitting!Unit
    <3>2. CASE v = u - 1
      BY <3>1, <3>2
    <3>3. CASE v \in 0 .. (u - 1) - 1
      BY <3>1, <3>3 DEF Permitting!StartsInOrder
    <3> QED
      BY <2>2, <3>2, <3>3 DEF Permitting!Unit
  <2>3. Permitting!StartsInOrder'
    BY <1>1, <2>2 DEF Permitting!Start, Permitting!StartsInOrder
  <2> QED
    BY <2>1, <2>3
<1>2. ASSUME NEW u \in Permitting!Unit, Permitting!Permit(u)
      PROVE  PermissionInv'
  BY <1>2 DEF Permitting!Permit, Permitting!StartsInOrder
<1>3. CASE Permitting!Evidence
  BY <1>3 DEF Permitting!Evidence, Permitting!StartsInOrder
<1>4. CASE Permitting!Stop
  BY <1>4 DEF Permitting!Stop, Permitting!StartsInOrder
<1>5. CASE UNCHANGED Permitting!vars
  BY <1>5 DEF Permitting!vars, Permitting!StartsInOrder
<1> QED
  BY <1>1, <1>2, <1>3, <1>4, <1>5 DEF Permitting!Next

(* The units start in their order, each one only when every unit before it *)
(* has durable evidence and permission: what the link of a release file is *)
(* for.                                                                    *)
THEOREM UnitsStartInOrder ==
  ASSUME AnyUnits \in Nat \ {0}
  PROVE  Permitting!Spec => []Permitting!StartsInOrder
<1>1. PermissionInv => Permitting!StartsInOrder
  BY DEF PermissionInv
<1> QED
  BY PermissionInit, PermissionStep, <1>1, PTL DEF Permitting!Spec

(* At most one unit is open: two units that wait for permission would have *)
(* to be in order, and the earlier one would have its permission.          *)
THEOREM UnitsAreExclusive ==
  ASSUME AnyUnits \in Nat \ {0}
  PROVE  Permitting!Spec => []Permitting!OneUnitOpen
<1>1. PermissionInv => Permitting!OneUnitOpen
  <2> SUFFICES ASSUME PermissionInv, NEW u \in begun \ allowed,
                      NEW v \in begun \ allowed, u # v
               PROVE  FALSE
    BY DEF Permitting!OneUnitOpen
  <2> USE DEF PermissionInv, Permitting!TypeOK, Permitting!StartsInOrder, Permitting!Unit
  <2>1. u \in 0 .. v - 1 \/ v \in 0 .. u - 1
    OBVIOUS
  <2> QED
    BY <2>1
<1> QED
  BY PermissionInit, PermissionStep, <1>1, PTL DEF Permitting!Spec

=============================================================================
