---------------------------- MODULE PassAdapter ----------------------------
(***************************************************************************)
(* The pass-boundary adapter of a SIFT point.  The adapter spawns a C++    *)
(* process that times the passes of the point one after the other; for     *)
(* each pass it converts the two raw files to rows of two append-only      *)
(* streams, acknowledges the pass, and hard-links the release that lets    *)
(* the next pass start.  A monitor thread of the adapter samples the       *)
(* deadline and the caller's stop signal all the while.                    *)
(*                                                                         *)
(* The commit lock is reentrant and is held by the main thread only in the *)
(* two sections of Critical, by the monitor only within Sample: whether it *)
(* is free is a matter of the main thread's place.  Passes count from 0.   *)
(***************************************************************************)
EXTENDS Naturals

CONSTANT Passes         (* expected_passes *)

ASSUME PassesAssumption == Passes \in Nat \ {0}

Pass == 0 .. Passes - 1
Artifact == {"summary", "results"}
Stream == {"results", "passes"}
AckName == {"ack", "release"} \X Pass

VARIABLES
  kpc, kpass, kart, kexit,  (* the C++ child: place, pass, file, end       *)
  ksig,                 (* its termination_signal flag                     *)
  events,               (* pass_start lines in pass_events.csv             *)
  rawVis,               (* raw files visible                               *)
  ackVis, ackDur,       (* acknowledgement names visible, and durable      *)
  rows,                 (* fsynced rows of each append-only stream         *)
  lost,                 (* streams whose name in run_dir a crash has lost  *)
  apc,                  (* the place of the adapter's main thread          *)
  completed,            (* passes converted and appended                   *)
  emitted,              (* pass starts taken over from the events          *)
  outcome,              (* what run_cpp_adapter returned                   *)
  stopReason,           (* the latched reason                              *)
  monitorError,         (* monitor_error is not empty                      *)
  mpc,                  (* the place of the monitor thread                 *)
  signalled, due,       (* the caller's signal is set; the deadline passed *)
  permitted             (* history: passes whose release was linked        *)

childVars == <<kpc, kpass, kart, kexit, events, rawVis>>
ackVars == <<ackVis, ackDur, permitted>>
rowVars == <<rows, lost, completed>>
latchVars == <<stopReason, monitorError>>
timeVars == <<signalled, due>>
vars == <<childVars, ksig, ackVars, rowVars, apc, emitted, outcome, latchVars,
          mpc, timeVars>>

ChildPC == {"start", "work", "check", "rename", "sync", "wait", "read_ack",
            "ended"}
ChildExit == {"none", "ok", "fatal", "killed"}
Critical == {"ack_check", "ack_link", "ack_unlock",
             "rel_check", "rel_link", "rel_unlock"}
AdapterPC ==
  Critical \cup
  {"loop", "starts", "files", "convert", "append_results", "append_passes",
   "converted", "gate", "pre_ack", "ack_lock", "ack_sync", "after_ack",
   "rel_lock", "rel_sync", "poll", "join_ok", "join_failed", "terminate",
   "term_wait", "ended"}
Outcome == {"none", "ok", "failed", "crashed"}
Reason == {"none", "timeout", "signal", "poll_failure", "monitor_failure"}
MonitorPC == {"loop", "failing", "ended"}

Init ==
  /\ kpc = "start" /\ kpass = 0 /\ kart = "summary" /\ kexit = "none"
  /\ ksig = FALSE /\ events = 0 /\ rawVis = {}
  /\ ackVis = {} /\ ackDur = {} /\ permitted = {}
  /\ rows = [s \in Stream |-> 0] /\ lost = {} /\ completed = 0
  /\ apc = "loop" /\ emitted = 0 /\ outcome = "none"
  /\ stopReason = "none" /\ monitorError = FALSE
  /\ mpc = "loop"
  /\ signalled = FALSE /\ due = FALSE

-----------------------------------------------------------------------------
(* The C++ child, built on the functions of the pass-boundary contract.    *)

ChildOnly ==
  UNCHANGED <<ksig, ackVars, rowVars, apc, emitted, outcome, latchVars, mpc,
              timeVars>>

ChildEnds(how) ==
  /\ kpc' = "ended"
  /\ kexit' = how
  /\ UNCHANGED <<kpass, kart, events, rawVis>>

ChildEnded == kpc = "ended"

(* append_start: the line is written, and then fsynced, before the pass.   *)
AppendStart ==
  /\ kpc = "start" /\ ~ksig
  /\ kpc' = "work"
  /\ events' = events + 1
  /\ UNCHANGED <<kpass, kart, kexit, rawVis>>
  /\ ChildOnly

(* The timed pass: no telemetry, no look at the signal.                    *)
TimePass ==
  /\ kpc = "work"
  /\ kpc' = "check" /\ kart' = "summary"
  /\ UNCHANGED <<kpass, kexit, events, rawVis>>
  /\ ChildOnly

(* publish_atomic_no_replace: signal, rename, directory fsync.             *)
CheckRaw ==
  /\ kpc = "check" /\ ~ksig
  /\ kpc' = "rename"
  /\ UNCHANGED <<kpass, kart, kexit, events, rawVis>>
  /\ ChildOnly

RenameRaw ==
  /\ kpc = "rename"
  /\ rawVis' = rawVis \cup {<<kart, kpass>>}
  /\ kpc' = "sync"
  /\ UNCHANGED <<kpass, kart, kexit, events>>
  /\ ChildOnly

SyncRaw ==
  /\ kpc = "sync"
  /\ IF kart = "summary"
       THEN kart' = "results" /\ kpc' = "check"
       ELSE kart' = kart /\ kpc' = "wait"
  /\ UNCHANGED <<kpass, kexit, events, rawVis>>
  /\ ChildOnly

(* Faulty: the acknowledgement ends the wait.                              *)
SeeAck ==
  /\ kpc = "wait" /\ ~ksig
  /\ <<"ack", kpass>> \in ackVis
  /\ kpc' = "read_ack"
  /\ UNCHANGED <<kpass, kart, kexit, events, rawVis>>
  /\ ChildOnly

(* wait_for_acknowledgement, in spite of its name, waits for the release.  *)
SeeRelease ==
  /\ kpc = "wait" /\ ~ksig
  /\ <<"release", kpass>> \in ackVis
  /\ kpc' = "read_ack"
  /\ UNCHANGED <<kpass, kart, kexit, events, rawVis>>
  /\ ChildOnly

AcceptRelease ==
  /\ kpc = "read_ack"
  /\ IF <<"ack", kpass>> \notin ackVis THEN ChildEnds("fatal")
     ELSE IF kpass = Passes - 1 THEN ChildEnds("ok")
     ELSE /\ kpc' = "start"
          /\ kpass' = kpass + 1
          /\ UNCHANGED <<kart, kexit, events, rawVis>>
  /\ ChildOnly

ChildStopped ==
  /\ kpc \in {"start", "check", "wait"} /\ ksig
  /\ ChildEnds("fatal")
  /\ ChildOnly

(* The frozen deadline of the wait for a release.                          *)
WaitDeadline ==
  /\ kpc = "wait"
  /\ ChildEnds("fatal")
  /\ ChildOnly

ChildThrows ==
  /\ kpc \in {"start", "work", "check", "rename", "sync", "read_ack"}
  /\ ChildEnds("fatal")
  /\ ChildOnly

-----------------------------------------------------------------------------
(* The stop latch, shared by the two threads of the adapter.               *)

LockFree == apc \notin Critical

(* Faulty: the deadline is left to the monitor's wait.                     *)
RefreshWithoutDeadline(reason, error) ==
  IF stopReason # "none" THEN reason = stopReason /\ error = monitorError
  ELSE \/ reason = "poll_failure" /\ error = TRUE
       \/ /\ reason = IF signalled THEN "signal" ELSE "none"
          /\ error = monitorError

(* refresh_stop_latch: the first observation is kept, a deadline that is   *)
(* due wins over the signal and over a poll that failed meanwhile, and a   *)
(* poll that fails or is too slow is itself a reason.                      *)
Refresh(reason, error) ==
  IF stopReason # "none" THEN reason = stopReason /\ error = monitorError
  ELSE IF due THEN reason = "timeout" /\ error \in {monitorError, TRUE}
  ELSE \/ reason = "poll_failure" /\ error = TRUE
       \/ /\ reason = IF signalled THEN "signal" ELSE "none"
          /\ error = monitorError

(* raise_if_stopped: go on, or leave the try block with the lock released. *)
RaiseIfStopped(next) ==
  /\ Refresh(stopReason', monitorError')
  /\ apc' = IF stopReason' # "none" \/ monitorError' THEN "join_failed"
            ELSE next

AdapterOnly == UNCHANGED <<childVars, ksig, mpc, timeVars>>
NoRows == UNCHANGED rowVars
NoAck == UNCHANGED ackVars
NoLatch == UNCHANGED latchVars

Checked(pc, next) ==
  /\ apc = pc
  /\ RaiseIfStopped(next)
  /\ UNCHANGED <<emitted, outcome>>
  /\ NoRows /\ NoAck /\ AdapterOnly

Moved(pc, next) ==
  /\ apc = pc
  /\ apc' = next
  /\ UNCHANGED <<emitted, outcome>>
  /\ NoLatch /\ NoRows /\ AdapterOnly

-----------------------------------------------------------------------------
(* The adapter's main thread.                                              *)

LoopTop == Checked("loop", "starts")

(* Pass starts must be the next pass: anything else is a protocol error.   *)
ReadStarts ==
  /\ apc = "starts"
  /\ IF \A p \in emitted .. events - 1 : p = completed
       THEN apc' = "files" /\ emitted' = events
       ELSE apc' = "join_failed" /\ emitted' = emitted
  /\ UNCHANGED outcome
  /\ NoLatch /\ NoRows /\ NoAck /\ AdapterOnly

RawVisible(p) == Artifact \X {p} \subseteq rawVis

LookForFiles ==
  /\ Moved("files", IF completed < emitted /\ RawVisible(completed)
                      THEN "convert" ELSE "poll")
  /\ NoAck

(* The stop is sampled after the converter, but not raised before its      *)
(* rows are appended.                                                      *)
ConvertPass ==
  /\ apc = "convert"
  /\ Refresh(stopReason', monitorError')
  /\ apc' = "append_results"
  /\ UNCHANGED <<emitted, outcome>>
  /\ NoRows /\ NoAck /\ AdapterOnly

AppendResults ==
  /\ apc = "append_results"
  /\ rows' = [rows EXCEPT !["results"] = @ + 1]
  /\ apc' = "append_passes"
  /\ UNCHANGED <<lost, completed, emitted, outcome>>
  /\ NoLatch /\ NoAck /\ AdapterOnly

(* Faulty: the summary row is left to a later pass.                        *)
AppendNoPass ==
  /\ apc = "append_passes"
  /\ completed' = completed + 1
  /\ apc' = "converted"
  /\ UNCHANGED <<rows, lost, emitted, outcome>>
  /\ NoLatch /\ NoAck /\ AdapterOnly

AppendPasses ==
  /\ apc = "append_passes"
  /\ rows' = [rows EXCEPT !["passes"] = @ + 1]
  /\ completed' = completed + 1
  /\ apc' = "converted"
  /\ UNCHANGED <<lost, emitted, outcome>>
  /\ NoLatch /\ NoAck /\ AdapterOnly

AfterConvert == Checked("converted", "gate")

(* before_ack may stop the point; a latched reason stops it as well.       *)
BeforeAck ==
  \/ Checked("gate", "pre_ack")
  \/ Checked("gate", "join_failed")

(* The last check before the private file is prepared.                     *)
PrepareAck == Checked("pre_ack", "ack_lock")

EnterAckLock == Moved("ack_lock", "ack_check") /\ NoAck
CheckAck == Checked("ack_check", "ack_link")

current == completed - 1

LinkAck ==
  /\ Moved("ack_link", "ack_unlock")
  /\ ackVis' = ackVis \cup {<<"ack", current>>}
  /\ UNCHANGED <<ackDur, permitted>>

LeaveAckLock == Moved("ack_unlock", "ack_sync") /\ NoAck

SyncAck ==
  /\ Moved("ack_sync", "after_ack")
  /\ ackDur' = ackVis
  /\ UNCHANGED <<ackVis, permitted>>

PrepareRelease == Checked("after_ack", "rel_lock")

EnterReleaseLock == Moved("rel_lock", "rel_check") /\ NoAck

(* Faulty: the check before the release is left out.                       *)
CheckNothing == Moved("rel_check", "rel_link") /\ NoAck

CheckRelease == Checked("rel_check", "rel_link")

(* The permission edge.                                                    *)
LinkRelease ==
  /\ Moved("rel_link", "rel_unlock")
  /\ ackVis' = ackVis \cup {<<"release", current>>}
  /\ permitted' = permitted \cup {current}
  /\ UNCHANGED ackDur

LeaveReleaseLock == Moved("rel_unlock", "rel_sync") /\ NoAck

SyncRelease ==
  /\ Moved("rel_sync", "poll")
  /\ ackDur' = ackVis
  /\ UNCHANGED <<ackVis, permitted>>

(* Faulty: a clean exit of the child is enough.                            *)
PollAnyExit ==
  /\ Moved("poll", IF ~ChildEnded THEN "loop" ELSE "join_ok")
  /\ NoAck

PollChild ==
  /\ Moved("poll",
           IF ~ChildEnded THEN "loop"
           ELSE IF kexit = "ok" /\ completed = Passes THEN "join_ok"
           ELSE "join_failed")
  /\ NoAck

(* A converter, serialization, link, fsync or progress-stream failure.     *)
AdapterThrows ==
  /\ \E pc \in {"starts", "convert", "append_results", "append_passes",
                "converted", "gate", "pre_ack", "ack_link",
                "ack_sync", "after_ack", "rel_link", "rel_sync"} :
       Moved(pc, "join_failed")
  /\ NoAck

Return(how) ==
  /\ apc' = "ended"
  /\ outcome' = how

(* finally: the monitor is told to stop and joined, whatever the outcome.  *)
JoinMonitor ==
  /\ apc \in {"join_ok", "join_failed"} /\ mpc = "ended"
  /\ IF apc = "join_ok" THEN Return("ok")
     ELSE apc' = "terminate" /\ outcome' = outcome
  /\ UNCHANGED emitted
  /\ NoLatch /\ NoRows /\ NoAck /\ AdapterOnly

(* terminate_process_group: SIGTERM, the grace period, SIGKILL.            *)
Terminate ==
  /\ apc = "terminate"
  /\ IF ChildEnded THEN Return("failed") /\ ksig' = ksig
     ELSE apc' = "term_wait" /\ outcome' = outcome /\ ksig' = TRUE
  /\ UNCHANGED <<emitted, childVars, mpc, timeVars>>
  /\ NoLatch /\ NoRows /\ NoAck

(* Faulty: the grace period ends without SIGKILL.                          *)
GiveUpChild ==
  /\ apc = "term_wait"
  /\ Return("failed")
  /\ UNCHANGED emitted
  /\ NoLatch /\ NoRows /\ NoAck /\ AdapterOnly

ReapChild ==
  /\ apc = "term_wait" /\ ChildEnded
  /\ Return("failed")
  /\ UNCHANGED emitted
  /\ NoLatch /\ NoRows /\ NoAck /\ AdapterOnly

KillChild ==
  /\ apc = "term_wait" /\ ~ChildEnded
  /\ ChildEnds("killed")
  /\ ChildOnly

-----------------------------------------------------------------------------
(* The monitor thread, the clock and the world.                            *)

Alive == apc # "ended"

MonitorOnly ==
  UNCHANGED <<childVars, ksig, ackVars, rowVars, apc, emitted, outcome,
              timeVars>>

(* Faulty: the monitor latches without the commit lock.                    *)
SampleUnlocked ==
  /\ mpc = "loop" /\ Alive
  /\ Refresh(stopReason', monitorError')
  /\ UNCHANGED mpc
  /\ MonitorOnly

Sample ==
  /\ mpc = "loop" /\ Alive /\ LockFree
  /\ Refresh(stopReason', monitorError')
  /\ UNCHANGED mpc
  /\ MonitorOnly

(* An exception in the loop is recorded at once, and latched under the     *)
(* lock later.                                                             *)
MonitorThrows ==
  /\ mpc = "loop" /\ Alive
  /\ mpc' = "failing"
  /\ monitorError' = TRUE
  /\ UNCHANGED stopReason
  /\ MonitorOnly

LatchFailure ==
  /\ mpc = "failing" /\ Alive /\ LockFree
  /\ mpc' = "ended"
  /\ stopReason' = IF stopReason = "none" THEN "monitor_failure"
                   ELSE stopReason
  /\ UNCHANGED monitorError
  /\ MonitorOnly

MonitorStops ==
  /\ mpc = "loop" /\ apc \in {"join_ok", "join_failed"}
  /\ mpc' = "ended"
  /\ NoLatch
  /\ MonitorOnly

WorldOnly ==
  UNCHANGED <<childVars, ksig, ackVars, rowVars, apc, emitted, outcome,
              latchVars, mpc>>

DeadlinePasses == ~due /\ due' = TRUE /\ UNCHANGED signalled /\ WorldOnly
CallerSignal == ~signalled /\ signalled' = TRUE /\ UNCHANGED due /\ WorldOnly

ChildKilled ==
  /\ ~ChildEnded
  /\ ChildEnds("killed")
  /\ ChildOnly

(* The adapter's process dies with its threads.                            *)
AdapterKilled ==
  /\ Alive
  /\ Return("crashed")
  /\ mpc' = "ended"
  /\ UNCHANGED <<childVars, ksig, emitted, timeVars>>
  /\ NoLatch /\ NoRows /\ NoAck

(* Nobody fsyncs run_dir, where the two streams are created.               *)
MachineCrash ==
  /\ lost' \in {lost \cup S : S \in SUBSET {s \in Stream : rows[s] > 0}}
  /\ ackVis' \in {ackDur \cup S : S \in SUBSET (ackVis \ ackDur)}
  /\ ackDur' = ackVis'
  /\ kpc' = "ended" /\ kexit' = IF ChildEnded THEN kexit ELSE "killed"
  /\ apc' = "ended" /\ outcome' = IF Alive THEN "crashed" ELSE outcome
  /\ mpc' = "ended"
  /\ UNCHANGED <<kpass, kart, events, rawVis, ksig, permitted, rows,
                 completed, emitted, timeVars>>
  /\ NoLatch

-----------------------------------------------------------------------------

ChildStep ==
  \/ AppendStart \/ CheckRaw \/ RenameRaw \/ SyncRaw
  \/ SeeRelease \/ AcceptRelease \/ ChildStopped \/ WaitDeadline

AdapterStep ==
  \/ LoopTop \/ ReadStarts \/ LookForFiles \/ ConvertPass
  \/ AppendResults \/ AppendPasses \/ AfterConvert \/ BeforeAck \/ PrepareAck
  \/ EnterAckLock \/ CheckAck \/ LinkAck \/ LeaveAckLock \/ SyncAck
  \/ PrepareRelease \/ EnterReleaseLock \/ CheckRelease \/ LinkRelease
  \/ LeaveReleaseLock \/ SyncRelease \/ PollChild
  \/ JoinMonitor \/ Terminate \/ ReapChild \/ KillChild

MonitorStep == Sample \/ LatchFailure \/ MonitorStops

Environment ==
  \/ TimePass \/ ChildThrows \/ ChildKilled
  \/ AdapterThrows \/ MonitorThrows \/ AdapterKilled
  \/ CallerSignal \/ MachineCrash

Finished == ChildEnded /\ ~Alive /\ UNCHANGED vars

Next ==
  ChildStep \/ AdapterStep \/ MonitorStep \/ DeadlinePasses \/ Environment
    \/ Finished

Spec == Init /\ [][Next]_vars

(* Both processes and both threads run, and time passes.  Nothing has to   *)
(* fail, and a timed pass need not come to an end: that is what the        *)
(* point's deadline is for.                                                *)
FairSpec ==
  /\ Spec
  /\ WF_vars(ChildStep) /\ WF_vars(AdapterStep)
  /\ WF_vars(MonitorStep /\ monitorError' = monitorError)
  /\ WF_vars(DeadlinePasses)

-----------------------------------------------------------------------------
(* Properties.                                                             *)

(* Every variable has its type: no pass is counted past the last.          *)
TypeOK ==
  /\ kpc \in ChildPC /\ kpass \in Pass /\ kart \in Artifact
  /\ kexit \in ChildExit /\ ksig \in BOOLEAN
  /\ events \in 0 .. Passes /\ rawVis \subseteq Artifact \X Pass
  /\ ackVis \subseteq AckName /\ ackDur \subseteq AckName
  /\ permitted \subseteq Pass
  /\ rows \in [Stream -> 0 .. Passes] /\ lost \subseteq Stream
  /\ completed \in 0 .. Passes /\ emitted \in 0 .. Passes
  /\ apc \in AdapterPC /\ outcome \in Outcome
  /\ stopReason \in Reason /\ monitorError \in BOOLEAN
  /\ mpc \in MonitorPC
  /\ signalled \in BOOLEAN /\ due \in BOOLEAN

(* The adapter's own protocol error cannot happen: the child is never found *)
(* to have started a pass before the acknowledgement of the one before it.  *)
NoEarlyStart == \A p \in emitted .. events - 1 : p = completed

(* An acknowledged pass has its rows in both streams, which never differ by *)
(* more than the row being appended: the byte counts bound into the         *)
(* acknowledgement cover exactly the passes completed so far.               *)
AckBindsRows ==
  /\ \A p \in Pass : <<"ack", p>> \in ackVis =>
       \A s \in Stream : rows[s] >= p + 1
  /\ rows["results"] - rows["passes"] \in {0, 1}
  /\ apc \in {"pre_ack", "ack_lock"} \cup Critical =>
       \A s \in Stream : rows[s] = completed

(* While a pass is timed the adapter does not convert, append, judge or     *)
(* acknowledge another one.  The end of a release does overlap a timing: the *)
(* private name is unlinked, and the directory fsynced, after the link that *)
(* lets the child go on; but it is then the very next pass that is timed.   *)
AdapterNeverOverlapsTiming ==
  kpc = "work" =>
    /\ apc \notin {"convert", "append_results", "append_passes", "converted",
                  "gate", "pre_ack", "ack_lock", "ack_sync", "after_ack",
                  "rel_lock", "rel_check", "rel_link",
                  "ack_check", "ack_link", "ack_unlock"}
    /\ apc \in {"rel_unlock", "rel_sync"} => kpass = current + 1

(* A release, even one that a crash has since lost, had a durable           *)
(* acknowledgement, so a started pass always has a recorded predecessor.    *)
ReleaseIsBacked ==
  /\ \A p \in permitted : <<"ack", p>> \in ackDur
  /\ \A p \in Pass : <<"release", p>> \in ackVis => p \in permitted

(* A point that returns normally is complete.                               *)
OkMeansComplete ==
  outcome = "ok" =>
    /\ permitted = Pass /\ kexit = "ok"
    /\ \A s \in Stream : rows[s] = Passes

(* run_cpp_adapter leaves neither a child nor a monitor thread behind.      *)
NothingLeftRunning ==
  outcome \in {"ok", "failed"} => ChildEnded /\ mpc = "ended"

(* Nothing is published for the child once a stop is latched: the check and *)
(* the link are one section of the commit lock, out of the monitor's reach. *)
LatchedStopBarsLink ==
  [][ackVis \subseteq ackVis' /\ ackVis # ackVis' => stopReason = "none"]_vars

(* The latch keeps the first reason, whichever thread observed it.          *)
FirstReasonKept == [][stopReason # "none" => stopReason' = stopReason]_vars

(* The adapter returns, and unless it was killed the child is gone, even    *)
(* when a timed pass hangs.                                                 *)
Termination == <>(~Alive /\ (ChildEnded \/ outcome = "crashed"))

(* The abstract protocol of which the adapter and the child are another     *)
(* implementation.                                                          *)
Permission == INSTANCE BlockPermission WITH
  Units <- Passes,
  started <- 0 .. events - 1,
  evidenced <- {p \in Pass : <<"ack", p>> \in ackDur},
  stopped <- stopReason # "none"

ImplementsPermission == Permission!Spec

(* "Raw output and independently converted JSONL are durable" before the    *)
(* acknowledgement: a crash never loses the rows of an acknowledged pass.   *)
AcknowledgedRowsSurvive ==
  \A p \in Pass : <<"ack", p>> \in ackVis => lost = {}
=============================================================================
