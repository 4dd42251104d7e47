---------------------------- MODULE BlockRelease ----------------------------
(***************************************************************************)
(* The block protocol of the same-resident paired LAION experiment.  A     *)
(* C++ runner times the blocks one after the other and publishes, for each *)
(* of them, a results file and a summary file; a Python controller, which  *)
(* spawned the runner, audits the two files, publishes an acknowledgement, *)
(* and, when every gate passes, hard-links a release file, the only thing  *)
(* that lets the runner start the next block.                              *)
(*                                                                         *)
(* The two processes share nothing but two directories and the runner's    *)
(* process status.  A directory has the names that are visible and, among  *)
(* them, those that a directory fsync has made durable: a machine crash    *)
(* keeps the durable names and any part of the others.                     *)
(*                                                                         *)
(* The controller is a main thread, which also runs the Python signal      *)
(* handlers, and a heartbeat thread.  The commit lock masks SIGINT and     *)
(* SIGTERM in the main thread only: the heartbeat thread still receives    *)
(* them, and the interpreter then runs the handler in the main thread at   *)
(* its next bytecode, also when that thread is inside the lock, in its     *)
(* __enter__ or __exit__, or in the handler of an earlier signal.          *)
(***************************************************************************)
EXTENDS Naturals

CONSTANTS
  Pairs,                (* number of paired blocks (8 in the experiment)   *)
  MaxSignals            (* bound: stop signals sent to the controller      *)

ASSUME PairsAssumption == Pairs \in Nat \ {0}
ASSUME SignalsAssumption == MaxSignals \in Nat

Blocks == 2 * Pairs
Block == 0 .. Blocks - 1

Artifact == {"results", "summary"}
RawName == Artifact \X Block
AckName == {"ack", "ready", "release"} \X Block

VARIABLES
  rawVis, rawDur,       (* names visible, and durable, in the raw directory *)
  ackVis, ackDur,       (* the same for the acknowledgement directory       *)
  rpc,                  (* where the runner is                              *)
  rblock,               (* the runner's current block                       *)
  rart,                 (* the artifact the runner is publishing            *)
  rgate,                (* the block gate the runner put in each summary    *)
  rsig,                 (* the runner's termination_signal flag             *)
  rexit,                (* how the runner ended                             *)
  cpc,                  (* where the controller's main thread is            *)
  cblock,               (* the block the controller is at                   *)
  cgate,                (* the controller's gate for that block             *)
  stopSignal,           (* ControllerState.stop_signal is set               *)
  active,               (* the commit lock's thread-local flag              *)
  held,                 (* the ordinary lock inside it is acquired          *)
  hpc,                  (* where the running stop handler is                *)
  completed,            (* ControllerState.completed_blocks                 *)
  pending,              (* a signal has tripped and its handler has not run *)
  sent,                 (* signals sent so far                              *)
  outcome,              (* what execute() returned                          *)
  started,              (* history: blocks the runner has started           *)
  permitted             (* history: blocks whose release was linked         *)

rawVars == <<rawVis, rawDur>>
ackVars == <<ackVis, ackDur>>
runnerVars == <<rpc, rblock, rart, rgate, rexit, started>>
controllerVars == <<cpc, cblock, cgate, completed, outcome>>
lockVars == <<active, held>>
signalVars == <<stopSignal, hpc, pending, sent>>
vars == <<rawVars, ackVars, runnerVars, rsig, controllerVars, lockVars,
          signalVars, permitted>>

RunnerPC == {"start", "run", "check", "rename", "sync", "wait", "read_ack",
             "ended"}
RunnerExit == {"none", "pass", "early_stop", "fatal", "killed"}

(* In the commit lock: entering it up to the look at the stop, in its      *)
(* body, and leaving it.                                                   *)
Entering == {"ack_check", "rel_check"}
Inside == {"ack_link", "rel_link"}
Leaving == {"ack_unlock", "rel_unlock"}
AckCritical == {"ack_check", "ack_link", "ack_unlock"}
RelCritical == {"rel_check", "rel_link", "rel_unlock"}
Critical == AckCritical \cup RelCritical

ControllerPC ==
  Critical \cup
  {"await", "poll", "audit", "ack_prepare", "ack_sync", "ready_link",
   "ready_sync", "rel_lock", "rel_unmask", "rel_settle", "withheld",
   "stop_wait", "final_wait", "finally", "finally_wait", "ended"}

(* A handler's own use of the lock: entering it up to the record, leaving. *)
HandlerPC == {"none", "enter", "leave"}

(* "cut": an exception left the finally clause before its end.             *)
Outcome == {"none", "pass", "stop", "failed", "cut", "crashed"}

Init ==
  /\ rawVis = {} /\ rawDur = {} /\ ackVis = {} /\ ackDur = {}
  /\ rpc = "start" /\ rblock = 0 /\ rart = "results"
  /\ rgate = [b \in Block |-> TRUE]
  /\ rsig = FALSE /\ rexit = "none"
  /\ cpc = "await" /\ cblock = 0 /\ cgate = TRUE
  /\ stopSignal = FALSE /\ completed = 0
  /\ active = FALSE /\ held = FALSE /\ hpc = "none"
  /\ pending = FALSE /\ sent = 0
  /\ outcome = "none"
  /\ started = {} /\ permitted = {}

-----------------------------------------------------------------------------
(* The runner.                                                             *)

RunnerEnds(how) ==
  /\ rpc' = "ended"
  /\ rexit' = how
  /\ UNCHANGED <<rblock, rart, rgate, started>>

RunnerOnly ==
  UNCHANGED <<ackVars, rsig, controllerVars, lockVars, signalVars, permitted>>

(* The head of the block loop: a stop already received ends the run.       *)
StartBlock ==
  /\ rpc = "start" /\ ~rsig
  /\ rpc' = "run"
  /\ started' = started \cup {rblock}
  /\ UNCHANGED <<rblock, rart, rgate, rexit, rawVars>>
  /\ RunnerOnly

(* run_block times and audits a block; a stop after the last look of its   *)
(* deadlines at the signal does not end it.                                *)
RunBlock ==
  /\ rpc = "run"
  /\ \E g \in BOOLEAN : rgate' = [rgate EXCEPT ![rblock] = g]
  /\ rpc' = "check"
  /\ rart' = "results"
  /\ UNCHANGED <<rblock, rexit, started, rawVars>>
  /\ RunnerOnly

(* publish_atomic_no_replace: the private file is written and fsynced      *)
(* between two looks at the signal; both must pass before the rename.      *)
CheckArtifact ==
  /\ rpc = "check" /\ ~rsig
  /\ rpc' = "rename"
  /\ UNCHANGED <<rblock, rart, rgate, rexit, started, rawVars>>
  /\ RunnerOnly

RenameArtifact ==
  /\ rpc = "rename"
  /\ <<rart, rblock>> \notin rawVis
  /\ rawVis' = rawVis \cup {<<rart, rblock>>}
  /\ rpc' = "sync"
  /\ UNCHANGED <<rawDur, rblock, rart, rgate, rexit, started>>
  /\ RunnerOnly

(* The parent directory's fsync makes every name in it durable.            *)
SyncArtifact ==
  /\ rpc = "sync"
  /\ rawDur' = rawVis
  /\ IF rart = "results"
       THEN rart' = "summary" /\ rpc' = "check"
       ELSE rart' = rart /\ rpc' = "wait"
  /\ UNCHANGED <<rawVis, rblock, rgate, rexit, started>>
  /\ RunnerOnly

(* Faulty: the acknowledgement itself ends the wait.                       *)
SeeAckAsRelease ==
  /\ rpc = "wait" /\ ~rsig
  /\ <<"ack", rblock>> \in ackVis
  /\ rpc' = "read_ack"
  /\ UNCHANGED <<rblock, rart, rgate, rexit, started, rawVars>>
  /\ RunnerOnly

(* wait_for_release_then_ack: only the release file ends the wait.         *)
SeeRelease ==
  /\ rpc = "wait" /\ ~rsig
  /\ <<"release", rblock>> \in ackVis
  /\ rpc' = "read_ack"
  /\ UNCHANGED <<rblock, rart, rgate, rexit, started, rawVars>>
  /\ RunnerOnly

(* A release without its acknowledgement is fatal; with it, the block loop *)
(* goes on, stops early on the runner's own gate, or is over.              *)
AcceptRelease ==
  /\ rpc = "read_ack"
  /\ IF <<"ack", rblock>> \notin ackVis THEN RunnerEnds("fatal")
     ELSE IF ~rgate[rblock] THEN RunnerEnds("early_stop")
     ELSE IF rblock = Blocks - 1 THEN RunnerEnds("pass")
     ELSE /\ rpc' = "start"
          /\ rblock' = rblock + 1
          /\ UNCHANGED <<rart, rgate, rexit, started>>
  /\ UNCHANGED rawVars
  /\ RunnerOnly

(* require_not_stopped throws at each of its call sites.                   *)
RunnerStopped ==
  /\ rpc \in {"start", "run", "check", "wait"} /\ rsig
  /\ RunnerEnds("fatal")
  /\ UNCHANGED rawVars
  /\ RunnerOnly

(* Faulty: the deadline is looked at only once the release is visible.     *)
WaitDeadlineAfterRelease ==
  /\ rpc = "wait"
  /\ <<"release", rblock>> \in ackVis
  /\ RunnerEnds("fatal")
  /\ UNCHANGED rawVars
  /\ RunnerOnly

(* The frozen deadline of the wait, looked at before the release file is.  *)
WaitDeadline ==
  /\ rpc = "wait"
  /\ RunnerEnds("fatal")
  /\ UNCHANGED rawVars
  /\ RunnerOnly

(* A worker, census or I/O failure throws.                                 *)
RunnerThrows ==
  /\ rpc \in {"run", "check", "rename", "sync", "read_ack"}
  /\ RunnerEnds("fatal")
  /\ UNCHANGED rawVars
  /\ RunnerOnly

-----------------------------------------------------------------------------
(* The controller's main thread.                                           *)

(* A running handler holds up the thread that it interrupted.              *)
MainRuns == hpc = "none" /\ UNCHANGED <<rawVars, runnerVars, signalVars>>

ControllerOnly == MainRuns /\ UNCHANGED lockVars

TakeLock == active' = TRUE /\ held' = TRUE
FreeLock == active' = FALSE /\ held' = FALSE

Goto(pc) ==
  /\ cpc' = pc
  /\ UNCHANGED <<cblock, cgate, completed, outcome>>

(* Any exception leaves execute() through its finally clause.              *)
Fail == Goto("finally")

BlockFilesVisible == Artifact \X {cblock} \subseteq rawVis

RunnerEnded == rpc = "ended"

(* wait_for_block_files looks at the files, then at the stop and at the    *)
(* child: files published in between are not looked at again.              *)
SeeBlockFiles ==
  /\ cpc = "await"
  /\ Goto(IF BlockFilesVisible THEN "audit" ELSE "poll")
  /\ UNCHANGED <<ackVars, rsig, permitted>>
  /\ ControllerOnly

PollChild ==
  /\ cpc = "poll"
  /\ IF stopSignal \/ RunnerEnded THEN Fail ELSE Goto("await")
  /\ UNCHANGED <<ackVars, rsig, permitted>>
  /\ ControllerOnly

(* streaming_pair_gate can stop only after the first and the fourth pair,  *)
(* final_mixed_q800_gate only after the last one.                          *)
PairGateMayStop(b) ==
  /\ b % 2 = 1
  /\ (b + 1) \div 2 \in {1, 4, Pairs}

(* The audit recomputes the runner's gate and adds the pair gates.         *)
AuditBlock ==
  /\ cpc = "audit"
  /\ \E pairGate \in IF PairGateMayStop(cblock) THEN BOOLEAN ELSE {TRUE} :
       cgate' = (rgate[cblock] /\ pairGate)
  /\ cpc' = "ack_prepare"
  /\ UNCHANGED <<cblock, completed, outcome, ackVars, rsig, permitted>>
  /\ ControllerOnly

(* publish_block_ack: private inode first, then the link under the lock.   *)
(* __enter__ masks the signals and marks the lock as active.               *)
EnterAckLock ==
  /\ cpc = "ack_prepare"
  /\ IF active THEN Fail ELSE Goto("ack_check")
  /\ active' = TRUE
  /\ UNCHANGED <<held, ackVars, rsig, permitted>>
  /\ MainRuns

(* It then waits for the ordinary lock, and the body looks at the stop.    *)
CheckAckStop ==
  /\ cpc = "ack_check" /\ ~held
  /\ IF stopSignal THEN Fail /\ FreeLock ELSE Goto("ack_link") /\ TakeLock
  /\ UNCHANGED <<ackVars, rsig, permitted>>
  /\ MainRuns

LinkAck ==
  /\ cpc = "ack_link"
  /\ ackVis' = ackVis \cup {<<"ack", cblock>>}
  /\ Goto("ack_unlock")
  /\ UNCHANGED <<ackDur, rsig, permitted>>
  /\ ControllerOnly

LeaveAckLock ==
  /\ cpc = "ack_unlock"
  /\ Goto("ack_sync")
  /\ FreeLock
  /\ UNCHANGED <<ackVars, rsig, permitted>>
  /\ MainRuns

(* Faulty: the release follows whatever the gate said.                     *)
SyncAckIgnoringGate ==
  /\ cpc = "ack_sync"
  /\ ackDur' = ackVis
  /\ Goto("ready_link")
  /\ UNCHANGED <<ackVis, rsig, permitted>>
  /\ ControllerOnly

(* The directory fsync stays outside the lock; a failed gate withholds the *)
(* release.                                                                *)
SyncAck ==
  /\ cpc = "ack_sync"
  /\ ackDur' = ackVis
  /\ Goto(IF cgate THEN "ready_link" ELSE "withheld")
  /\ UNCHANGED <<ackVis, rsig, permitted>>
  /\ ControllerOnly

(* publish_block_release: the durable, non-authorizing ready record.       *)
LinkReady ==
  /\ cpc = "ready_link"
  /\ ackVis' = ackVis \cup {<<"ready", cblock>>}
  /\ Goto("ready_sync")
  /\ UNCHANGED <<ackDur, rsig, permitted>>
  /\ ControllerOnly

(* Faulty: the ready record's directory fsync is skipped.                  *)
SyncReadyWithoutFsync ==
  /\ cpc = "ready_sync"
  /\ Goto("rel_lock")
  /\ UNCHANGED <<ackVars, rsig, permitted>>
  /\ ControllerOnly

SyncReady ==
  /\ cpc = "ready_sync"
  /\ ackDur' = ackVis
  /\ Goto("rel_lock")
  /\ UNCHANGED <<ackVis, rsig, permitted>>
  /\ ControllerOnly

EnterReleaseLock ==
  /\ cpc = "rel_lock"
  /\ IF active THEN Fail ELSE Goto("rel_check")
  /\ active' = TRUE
  /\ UNCHANGED <<held, ackVars, rsig, permitted>>
  /\ MainRuns

CheckReleaseStop ==
  /\ cpc = "rel_check" /\ ~held
  /\ IF stopSignal THEN Fail /\ FreeLock ELSE Goto("rel_link") /\ TakeLock
  /\ UNCHANGED <<ackVars, rsig, permitted>>
  /\ MainRuns

(* The permission edge.                                                    *)
LinkRelease ==
  /\ cpc = "rel_link"
  /\ ackVis' = ackVis \cup {<<"release", cblock>>}
  /\ permitted' = permitted \cup {cblock}
  /\ Goto("rel_unlock")
  /\ UNCHANGED <<ackDur, rsig>>
  /\ ControllerOnly

(* The release returned: the block counts, and the loop goes on.           *)
BlockReleased ==
  /\ completed' = cblock + 1
  /\ IF cblock = Blocks - 1
       THEN cpc' = "final_wait" /\ cblock' = cblock
       ELSE cpc' = "await" /\ cblock' = cblock + 1
  /\ UNCHANGED <<cgate, outcome>>

(* __exit__ has released the lock and restores the mask last.              *)
LeaveReleaseLock ==
  /\ cpc = "rel_unlock"
  /\ Goto("rel_unmask")
  /\ FreeLock
  /\ UNCHANGED <<ackVars, rsig, permitted>>
  /\ MainRuns

(* The release returns, also if an exception came after the link: release  *)
(* and ready record are then found to be the same file.                    *)
ReturnRelease ==
  /\ cpc \in {"rel_unmask", "rel_settle"}
  /\ BlockReleased
  /\ UNCHANGED <<ackVars, rsig, permitted>>
  /\ ControllerOnly

(* A validation, snapshot, link, fsync or status-log failure.  The release *)
(* link is the last thing in its path that can fail.                       *)
ControllerThrows ==
  /\ cpc \in {"await", "audit", "ack_prepare", "ack_link", "ack_sync",
              "ready_link", "ready_sync", "rel_link", "withheld", "final_wait"}
  /\ Fail
  /\ IF cpc \in Inside THEN FreeLock ELSE UNCHANGED lockVars
  /\ UNCHANGED <<ackVars, rsig, permitted>>
  /\ MainRuns

(* The end of execute(): SIGTERM to a live runner, SIGKILL five seconds    *)
(* later; "withheld" is the stop verdict, "finally" the way out of an      *)
(* exception.                                                              *)
Return(how) ==
  /\ cpc' = "ended"
  /\ outcome' = how
  /\ UNCHANGED <<cblock, cgate, completed>>

TerminateRunner ==
  /\ cpc \in {"withheld", "finally"}
  /\ IF RunnerEnded
       THEN Return(IF cpc = "withheld" THEN "stop" ELSE "failed") /\ rsig' = rsig
       ELSE /\ Goto(IF cpc = "withheld" THEN "stop_wait" ELSE "finally_wait")
            /\ rsig' = TRUE
  /\ UNCHANGED <<ackVars, permitted>>
  /\ ControllerOnly

(* Faulty: execute() returns without waiting for the runner.               *)
ReturnWithoutReaping ==
  /\ cpc \in {"stop_wait", "finally_wait"}
  /\ Return(IF cpc = "stop_wait" THEN "stop" ELSE "failed")
  /\ UNCHANGED <<ackVars, rsig, permitted>>
  /\ ControllerOnly

ReapRunner ==
  /\ cpc \in {"stop_wait", "finally_wait"} /\ RunnerEnded
  /\ Return(IF cpc = "stop_wait" THEN "stop" ELSE "failed")
  /\ UNCHANGED <<ackVars, rsig, permitted>>
  /\ ControllerOnly

KillRunner ==
  /\ cpc \in {"stop_wait", "finally_wait"} /\ ~RunnerEnded
  /\ hpc = "none"
  /\ RunnerEnds("killed")
  /\ UNCHANGED <<rawVars, ackVars, rsig, controllerVars, lockVars, signalVars,
                 permitted>>

(* Faulty: any exit of the runner passes.                                  *)
AwaitAnyExit ==
  /\ cpc = "final_wait" /\ RunnerEnded
  /\ Return("pass")
  /\ UNCHANGED <<ackVars, rsig, permitted>>
  /\ ControllerOnly

(* After the last release the runner must exit with status 0.              *)
AwaitRunnerExit ==
  /\ cpc = "final_wait" /\ RunnerEnded
  /\ IF rexit = "pass" THEN Return("pass") ELSE Fail
  /\ UNCHANGED <<ackVars, rsig, permitted>>
  /\ ControllerOnly

ExitTimeout ==
  /\ cpc = "final_wait" /\ ~RunnerEnded
  /\ Fail
  /\ UNCHANGED <<ackVars, rsig, permitted>>
  /\ ControllerOnly

-----------------------------------------------------------------------------
(* Signals, crashes.                                                       *)

Alive == cpc # "ended"

SendSignal ==
  /\ Alive /\ sent < MaxSignals
  /\ pending' = TRUE
  /\ sent' = sent + 1
  /\ UNCHANGED <<stopSignal, hpc, lockVars, rawVars, ackVars, runnerVars, rsig,
                 controllerVars, permitted>>

HandlerFrame ==
  Alive /\ UNCHANGED <<sent, rawVars, ackVars, runnerVars, rsig, permitted>>

(* Faulty: the handler records the stop without taking the commit lock.    *)
HandlerEntersUnlocked ==
  /\ pending /\ hpc = "none"
  /\ pending' = FALSE
  /\ stopSignal' = TRUE
  /\ UNCHANGED <<hpc, lockVars, controllerVars>>
  /\ HandlerFrame

(* request_stop takes the commit lock as the publications do.              *)
HandlerEnters ==
  /\ pending /\ hpc = "none" /\ ~active
  /\ pending' = FALSE
  /\ hpc' = "enter"
  /\ active' = TRUE
  /\ UNCHANGED <<held, stopSignal, controllerVars>>
  /\ HandlerFrame

(* The ordinary lock must be free; then the handler records the stop.      *)
HandlerRecords ==
  /\ hpc = "enter" /\ ~held
  /\ TakeLock
  /\ stopSignal' = TRUE
  /\ hpc' = "leave"
  /\ UNCHANGED <<pending, controllerVars>>
  /\ HandlerFrame

HandlerLeaves ==
  /\ hpc = "leave"
  /\ FreeLock
  /\ hpc' = "none"
  /\ UNCHANGED <<pending, stopSignal, controllerVars>>
  /\ HandlerFrame

(* What an exception leaves of the lock, by where it meets its user.  In   *)
(* __enter__ it may come before the try statement, in it, where the flag   *)
(* is reset but the lock stays acquired if it was, or after it; the body   *)
(* ends with __exit__; and __exit__ may not have released the lock yet, or *)
(* not have reset the flag.                                                *)
LockLeftEntering ==
  \/ active' = TRUE /\ held' = held
  \/ active' = FALSE /\ held' = held
  \/ ~held /\ held' = TRUE /\ active' \in BOOLEAN

LockLeft ==
  CASE hpc = "enter" \/ (hpc = "none" /\ cpc \in Entering) -> LockLeftEntering
    [] hpc = "none" /\ cpc \in Inside -> FreeLock
    [] hpc = "leave" \/ (hpc = "none" /\ cpc \in Leaving) ->
         FreeLock \/ TakeLock \/ (active' = TRUE /\ held' = FALSE)
    [] OTHER -> UNCHANGED lockVars

(* While the flag is set, a handler cannot enter the lock again: the       *)
(* exception passes through the handler it interrupts, if any, and ends    *)
(* what the main thread was doing.  A release that is already linked is    *)
(* still returned; in the finally clause the exception cuts short what is  *)
(* left of it.                                                             *)
HandlerRaises ==
  /\ pending /\ active
  /\ pending' = FALSE
  /\ hpc' = "none"
  /\ LockLeft
  /\ CASE cpc \in {"rel_unlock", "rel_unmask"} -> Goto("rel_settle")
       [] cpc \in {"finally", "finally_wait"} -> Return("cut")
       [] OTHER -> Fail
  /\ UNCHANGED stopSignal
  /\ HandlerFrame

HandlerStep == HandlerEnters \/ HandlerRecords \/ HandlerLeaves

(* The controller or the runner is killed from outside.                    *)
ControllerKilled ==
  /\ Alive
  /\ Return("crashed")
  /\ UNCHANGED <<rawVars, ackVars, runnerVars, rsig, lockVars, signalVars, permitted>>

RunnerKilled ==
  /\ ~RunnerEnded
  /\ RunnerEnds("killed")
  /\ UNCHANGED <<rawVars, ackVars, rsig, controllerVars, lockVars, signalVars,
                 permitted>>

(* Nothing restarts by itself after a machine crash: both programs refuse  *)
(* directories that are not empty.                                         *)
MachineCrash ==
  /\ rawVis' \in {rawDur \cup S : S \in SUBSET (rawVis \ rawDur)}
  /\ ackVis' \in {ackDur \cup S : S \in SUBSET (ackVis \ ackDur)}
  /\ rawDur' = rawVis'
  /\ ackDur' = ackVis'
  /\ rpc' = "ended"
  /\ rexit' = IF RunnerEnded THEN rexit ELSE "killed"
  /\ cpc' = "ended"
  /\ outcome' = IF Alive THEN "crashed" ELSE outcome
  /\ UNCHANGED <<rblock, rart, rgate, started, rsig, cblock, cgate, completed,
                 lockVars, signalVars, permitted>>

-----------------------------------------------------------------------------

RunnerStep ==
  \/ StartBlock \/ RunBlock \/ CheckArtifact \/ RenameArtifact \/ SyncArtifact
  \/ SeeRelease \/ AcceptRelease \/ RunnerStopped \/ WaitDeadline

ControllerStep ==
  \/ SeeBlockFiles \/ PollChild \/ AuditBlock
  \/ EnterAckLock \/ CheckAckStop \/ LinkAck \/ LeaveAckLock \/ SyncAck
  \/ LinkReady \/ SyncReady
  \/ EnterReleaseLock \/ CheckReleaseStop \/ LinkRelease \/ LeaveReleaseLock
  \/ ReturnRelease
  \/ TerminateRunner \/ ReapRunner \/ KillRunner
  \/ AwaitRunnerExit \/ ExitTimeout

Environment ==
  \/ SendSignal \/ HandlerStep \/ HandlerRaises
  \/ RunnerThrows \/ ControllerThrows
  \/ ControllerKilled \/ RunnerKilled \/ MachineCrash

(* The main thread waits for a lock that it has acquired itself, in an     *)
(* __enter__ that a handler's exception ended, and will never release.     *)
SelfDeadlocked ==
  /\ Alive /\ held
  /\ hpc = "enter" \/ (hpc = "none" /\ cpc \in Entering)

(* Neither program will do anything again.                                 *)
Finished ==
  RunnerEnded /\ (Alive => SelfDeadlocked) /\ UNCHANGED vars

Next == RunnerStep \/ ControllerStep \/ Environment \/ Finished

(* The operating system runs both processes and delivers signals, and the  *)
(* deadlines expire; failures, kills and crashes need not happen.          *)
Fairness ==
  /\ WF_vars(RunnerStep)
  /\ WF_vars(ControllerStep)
  /\ WF_vars(HandlerStep)

Spec == Init /\ [][Next]_vars

FairSpec == Spec /\ Fairness

-----------------------------------------------------------------------------
(* Properties.                                                             *)

(* Every variable has its type: no block is released past the last.        *)
TypeOK ==
  /\ rawVis \subseteq RawName /\ rawDur \subseteq RawName
  /\ ackVis \subseteq AckName /\ ackDur \subseteq AckName
  /\ rpc \in RunnerPC /\ rblock \in Block /\ rart \in Artifact
  /\ rgate \in [Block -> BOOLEAN] /\ rsig \in BOOLEAN /\ rexit \in RunnerExit
  /\ cpc \in ControllerPC /\ cblock \in Block /\ cgate \in BOOLEAN
  /\ stopSignal \in BOOLEAN
  /\ active \in BOOLEAN /\ held \in BOOLEAN /\ hpc \in HandlerPC
  /\ completed \in 0 .. Blocks
  /\ pending \in BOOLEAN /\ sent \in 0 .. MaxSignals
  /\ outcome \in Outcome
  /\ started \subseteq Block /\ permitted \subseteq Block

(* A permission can always be traced and rebuilt: a block whose release    *)
(* was ever linked has a durable acknowledgement and a durable ready       *)
(* record, and a release file that is visible, even after a crash that     *)
(* lost other names, was linked by the controller ("every fallible         *)
(* durability operation precedes the canonical hard-link").                *)
PermissionIsRecoverable ==
  /\ \A b \in permitted : <<"ack", b>> \in ackDur /\ <<"ready", b>> \in ackDur
  /\ \A b \in Block : <<"release", b>> \in ackVis => b \in permitted

(* No block is timed while the controller is auditing another one: from    *)
(* the moment it has seen a block's files until it links the release, the  *)
(* runner is not inside run_block.                                         *)
AuditNeverOverlapsTiming ==
  rpc = "run" =>
    cpc \notin {"audit", "ack_prepare", "ack_sync", "ready_link", "ready_sync",
               "rel_lock", "rel_check", "rel_link"} \cup AckCritical

(* A scientific stop is final: when the controller's gate failed, the next *)
(* block has not been and will not be started.                             *)
StopVerdictIsFinal ==
  ~cgate => cblock \notin permitted /\ cblock + 1 \notin started

(* The runner's own early stop is never what ends a run: this controller   *)
(* withholds the release of every block that fails the runner's gate.      *)
EarlyStopIsPreempted == rexit # "early_stop"

(* A passing experiment is complete: every block was permitted and started *)
(* and passed its gate, the runner went through all of them, and what the  *)
(* verdict rests on survives any crash: every results and summary file,    *)
(* acknowledgement and ready record is durable.  A release file need not   *)
(* be: the last one has no directory fsync after its link.                 *)
PassMeansComplete ==
  outcome = "pass" =>
    /\ permitted = Block /\ started = Block
    /\ rexit = "pass"
    /\ \A b \in Block : rgate[b]
    /\ RawName \subseteq rawDur
    /\ {"ack", "ready"} \X Block \subseteq ackDur

(* execute() leaves no runner behind, unless a stop handler raises while   *)
(* it cleans up, and for that a second signal has to meet what the first   *)
(* one left of the commit lock, or its handler in it.                      *)
NoOrphanRunner ==
  /\ outcome \in {"pass", "stop", "failed"} => RunnerEnded
  /\ outcome = "cut" => sent > 1

(* A stop recorded before the commit section wins: no release is linked    *)
(* while stop_signal is set.                                               *)
RecordedStopBarsRelease == [][permitted' # permitted => ~stopSignal]_vars

(* The runner comes to an end whatever happens, and so does the controller *)
(* unless two stop signals made it wait for its own lock: the first one    *)
(* raised in __enter__ right after the acquisition, so that nobody         *)
(* releases it, and the handler of the second acquires it again.           *)
Termination == <>(RunnerEnded /\ (Alive => SelfDeadlocked /\ sent > 1))

(* The abstract protocol that the two processes implement.                 *)
Permission == INSTANCE BlockPermission WITH
  Units <- Blocks,
  evidenced <- {b \in Block : <<"ack", b>> \in ackDur},
  stopped <- stopSignal

ImplementsPermission == Permission!Spec

-----------------------------------------------------------------------------
(* What the documentation says and the program does not do.                *)

(* "The under-lock stop check and the publication link are therefore       *)
(* ordered": a run whose stop handler has run and that counts one more     *)
(* block as released has the stop on record.  The lock is documented as    *)
(* one "whose holder cannot run stop handlers".                            *)
HandledStopIsKept ==
  [][completed' # completed /\ sent > 0 /\ ~pending /\ hpc = "none"
       => stopSignal]_vars

(* "Raw summary/result files must already be independently durable" when   *)
(* the acknowledgement is published.                                       *)
AcknowledgedFilesAreDurable ==
  \A b \in Block :
    <<"ack", b>> \in ackVis => Artifact \X {b} \subseteq rawDur
=============================================================================
