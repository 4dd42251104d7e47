---------------------------- MODULE WorkerBarrier ----------------------------
(***************************************************************************)
(* One timed block of the same-resident runner: run_block forks one worker *)
(* per lane, lets them pull query rows from a shared counter between two   *)
(* barriers, and accepts the block when every worker has exited cleanly    *)
(* and the rows they counted add up.                                       *)
(*                                                                         *)
(* Parent and lanes share one anonymous mapping (SharedBlock).  Each of    *)
(* its counters ready, done and post_done is incremented once by a lane,   *)
(* and is modelled as the set of the lanes that did.  A lane may be killed *)
(* at any point (out of memory, a fault in the index), and so may the      *)
(* parent; a query may run forever.                                        *)
(***************************************************************************)
EXTENDS Naturals, FiniteSets

CONSTANTS
  Lanes,                (* protocol::kLanes, 8 in the experiment           *)
  Queries               (* rows of the permuted workload                   *)

ASSUME LanesAssumption == Lanes \in Nat \ {0}
ASSUME QueriesAssumption == Queries \in Nat \ {0}

Lane == 0 .. Lanes - 1
Query == 0 .. Queries - 1

VARIABLES
  ppc,                  (* where the parent is in run_block                *)
  plane,                (* the lane of the parent's loop                   *)
  children,             (* the parent's vector of process ids              *)
  census,               (* child_query_sum                                 *)
  lpc,                  (* where each lane is                              *)
  lexit,                (* how its process ended                           *)
  status,               (* the lane's local status                         *)
  row,                  (* the row it has pulled                           *)
  next, ready, go, done, postGo, postDone,   (* the counters of SharedBlock *)
  answer,               (* results and worker_lane: the lanes that stored  *)
  childQueries,
  childStatus,
  doomed                (* lanes a SIGKILL of the guard is on its way to   *)

parentVars == <<ppc, plane, children, census, go, postGo, doomed>>
laneVars == <<lpc, lexit, status, row, next, ready, done, postDone, answer,
              childQueries, childStatus>>
vars == <<parentVars, laneVars>>

ParentPC == {"fork", "ready", "go", "done", "post", "reap", "census",
             "kill", "bury", "accepted", "thrown", "killed"}
LanePC == {"unborn", "bind", "spin", "pull", "execute", "report",
           "spin_post", "exit", "zombie", "reaped"}
Final == {"accepted", "thrown", "killed"}
LiveLane == LanePC \ {"unborn", "zombie", "reaped"}

Init ==
  /\ ppc = "fork" /\ plane = 0
  /\ children = [l \in Lane |-> "none"]
  /\ census = 0
  /\ lpc = [l \in Lane |-> "unborn"]
  /\ lexit = [l \in Lane |-> "none"]
  /\ status = [l \in Lane |-> 0]
  /\ row = [l \in Lane |-> 0]
  /\ next = 0
  /\ ready = {} /\ done = {} /\ postDone = {}
  /\ go = FALSE /\ postGo = FALSE
  /\ answer = [q \in Query |-> {}]
  /\ childQueries = [l \in Lane |-> 0]
  /\ childStatus = [l \in Lane |-> 0]
  /\ doomed = {}

-----------------------------------------------------------------------------
(* A lane, from fork to _exit.                                             *)

LaneAt(l, pc) == lpc[l] = pc
LaneGoto(l, pc) == lpc' = [lpc EXCEPT ![l] = pc]

(* A lane that cannot be bound to its processor still meets both barriers, *)
(* but pulls nothing.                                                      *)
Bind(l) ==
  /\ LaneAt(l, "bind")
  /\ \E s \in {0, 3} : status' = [status EXCEPT ![l] = s]
  /\ ready' = ready \cup {l}
  /\ LaneGoto(l, "spin")
  /\ UNCHANGED <<parentVars, lexit, row, next, done, postDone, answer,
                 childQueries, childStatus>>

SeeGo(l) ==
  /\ LaneAt(l, "spin") /\ go
  /\ LaneGoto(l, IF status[l] = 0 THEN "pull" ELSE "report")
  /\ UNCHANGED <<parentVars, lexit, status, row, next, ready, done, postDone,
                 answer, childQueries, childStatus>>

(* Faulty: the counter is read and written back in two steps.              *)
PullUnlocked(l) ==
  /\ LaneAt(l, "pull")
  /\ \E r \in 0 .. next :
       /\ row' = [row EXCEPT ![l] = r]
       /\ next' = r + 1
       /\ LaneGoto(l, IF r < Queries THEN "execute" ELSE "report")
  /\ UNCHANGED <<parentVars, lexit, status, ready, done, postDone, answer,
                 childQueries, childStatus>>

(* next.fetch_add(1) hands out one row.                                    *)
Pull(l) ==
  /\ LaneAt(l, "pull")
  /\ row' = [row EXCEPT ![l] = next]
  /\ next' = next + 1
  /\ LaneGoto(l, IF next < Queries THEN "execute" ELSE "report")
  /\ UNCHANGED <<parentVars, lexit, status, ready, done, postDone, answer,
                 childQueries, childStatus>>

Execute(l) ==
  /\ LaneAt(l, "execute")
  /\ answer' = [answer EXCEPT ![row[l]] = @ \cup {l}]
  /\ childQueries' = [childQueries EXCEPT ![l] = @ + 1]
  /\ LaneGoto(l, "pull")
  /\ UNCHANGED <<parentVars, lexit, status, row, next, ready, done, postDone,
                 childStatus>>

(* Faulty: a query that throws is counted and the lane goes on.            *)
ExecuteSwallows(l) ==
  /\ LaneAt(l, "execute")
  /\ childQueries' = [childQueries EXCEPT ![l] = @ + 1]
  /\ LaneGoto(l, "pull")
  /\ UNCHANGED <<parentVars, lexit, status, row, next, ready, done, postDone,
                 answer, childStatus>>

(* The catch block ends the lane's pulling with status 2.                  *)
ExecuteThrows(l) ==
  /\ LaneAt(l, "execute")
  /\ status' = [status EXCEPT ![l] = 2]
  /\ LaneGoto(l, "report")
  /\ UNCHANGED <<parentVars, lexit, row, next, ready, done, postDone, answer,
                 childQueries, childStatus>>

(* The status is in the mapping before done says so.                       *)
Report(l) ==
  /\ LaneAt(l, "report")
  /\ childStatus' = [childStatus EXCEPT ![l] = status[l]]
  /\ done' = done \cup {l}
  /\ LaneGoto(l, "spin_post")
  /\ UNCHANGED <<parentVars, lexit, status, row, next, ready, postDone, answer,
                 childQueries>>

(* The resource census waits for the second barrier.                       *)
PostCensus(l) ==
  /\ LaneAt(l, "spin_post") /\ postGo
  /\ postDone' = postDone \cup {l}
  /\ LaneGoto(l, "exit")
  /\ UNCHANGED <<parentVars, lexit, status, row, next, ready, done, answer,
                 childQueries, childStatus>>

LaneEnds(l, how) ==
  /\ lexit' = [lexit EXCEPT ![l] = how]
  /\ LaneGoto(l, "zombie")
  /\ UNCHANGED <<parentVars, status, row, next, ready, done, postDone, answer,
                 childQueries, childStatus>>

LaneExits(l) ==
  /\ LaneAt(l, "exit")
  /\ LaneEnds(l, IF status[l] = 0 THEN "ok" ELSE "failed")

(* A signal ends the lane: the guard's SIGKILL, or one from outside.       *)
LaneDies(l) ==
  /\ lpc[l] \in LiveLane
  /\ LaneEnds(l, "signal")

LaneStep ==
  \E l \in Lane :
    \/ Bind(l) \/ SeeGo(l) \/ Pull(l) \/ Execute(l) \/ ExecuteThrows(l)
    \/ Report(l) \/ PostCensus(l) \/ LaneExits(l) \/ LaneDies(l)

-----------------------------------------------------------------------------
(* The parent.                                                             *)

LanesUntouched == UNCHANGED <<status, row, next, ready, done, postDone, answer,
                              childQueries, childStatus, lexit>>

Fork ==
  /\ ppc = "fork"
  /\ children' = [children EXCEPT ![plane] = "live"]
  /\ LaneGoto(plane, "bind")
  /\ plane' = plane + 1
  /\ ppc' = IF plane = Lanes - 1 THEN "ready" ELSE "fork"
  /\ UNCHANGED <<census, go, postGo, doomed>>
  /\ LanesUntouched

(* An exception is on its way to ~ForkChildrenGuard.                       *)
Throw ==
  /\ ppc' = "kill"
  /\ UNCHANGED <<plane, children, census, go, postGo, doomed, lpc>>
  /\ LanesUntouched

(* Faulty: no guard stands behind a failed fork.                           *)
ForkFailsUnguarded ==
  /\ ppc = "fork"
  /\ ppc' = "thrown"
  /\ UNCHANGED <<plane, children, census, go, postGo, doomed, lpc>>
  /\ LanesUntouched

ForkFails == ppc = "fork" /\ Throw

ParentGoto(pc) ==
  /\ ppc' = pc
  /\ UNCHANGED <<plane, children, census, doomed, lpc>>
  /\ LanesUntouched

(* Faulty: the first lane that is ready opens the barrier.                 *)
SeeAnyReady ==
  /\ ppc = "ready" /\ ready # {}
  /\ ParentGoto("go")
  /\ UNCHANGED <<go, postGo>>

SeeAllReady ==
  /\ ppc = "ready" /\ ready = Lane
  /\ ParentGoto("go")
  /\ UNCHANGED <<go, postGo>>

(* batch_begin is read just before the barrier opens ...                   *)
OpenBarrier ==
  /\ ppc = "go"
  /\ go' = TRUE
  /\ ParentGoto("done")
  /\ UNCHANGED postGo

(* ... and batch_end once every lane has said it is done.                  *)
SeeAllDone ==
  /\ ppc = "done" /\ done = Lane
  /\ postGo' = TRUE
  /\ ParentGoto("post")
  /\ UNCHANGED go

SeeAllPostDone ==
  /\ ppc = "post" /\ postDone = Lane
  /\ ppc' = "reap"
  /\ plane' = 0
  /\ UNCHANGED <<children, census, go, postGo, doomed, lpc>>
  /\ LanesUntouched

CleanExit(l) == lexit[l] = "ok" /\ childStatus[l] = 0

(* Faulty: the slot of a reaped lane keeps its process id.                 *)
ReapKeepsSlot ==
  /\ ppc = "reap" /\ LaneAt(plane, "zombie")
  /\ LaneGoto(plane, "reaped")
  /\ IF CleanExit(plane)
       THEN /\ census' = census + childQueries[plane]
            /\ plane' = plane + 1
            /\ ppc' = IF plane = Lanes - 1 THEN "census" ELSE "reap"
       ELSE ppc' = "kill" /\ UNCHANGED <<census, plane>>
  /\ UNCHANGED <<children, go, postGo, doomed>>
  /\ LanesUntouched

(* waitpid; the slot is cleared before anything can throw.                 *)
Reap ==
  /\ ppc = "reap" /\ LaneAt(plane, "zombie")
  /\ LaneGoto(plane, "reaped")
  /\ children' = [children EXCEPT ![plane] = "cleared"]
  /\ IF CleanExit(plane)
       THEN /\ census' = census + childQueries[plane]
            /\ plane' = plane + 1
            /\ ppc' = IF plane = Lanes - 1 THEN "census" ELSE "reap"
       ELSE ppc' = "kill" /\ UNCHANGED <<census, plane>>
  /\ UNCHANGED <<go, postGo, doomed>>
  /\ LanesUntouched

(* mark_reaped has disarmed the guard.                                     *)
TakeCensus ==
  /\ ppc = "census"
  /\ ParentGoto(IF census = Queries THEN "accepted" ELSE "thrown")
  /\ UNCHANGED <<go, postGo>>

(* Faulty: the timed wait has no deadline.                                 *)
DeadlineOnlyUntimed ==
  /\ ppc \in {"ready", "post", "reap"}
  /\ Throw

(* FrozenDeadline.check: a stop signal or an expired deadline.             *)
DeadlineOrStop ==
  /\ ppc \in {"ready", "done", "post", "reap"}
  /\ Throw

(* The guard kills the lanes its slots name ...                            *)
KillChildren ==
  /\ ppc = "kill"
  /\ doomed' = {l \in Lane : children[l] = "live"}
  /\ ppc' = "bury"
  /\ UNCHANGED <<plane, children, census, go, postGo, lpc>>
  /\ LanesUntouched

(* ... and waits for each of them.                                         *)
Bury ==
  /\ ppc = "bury"
  /\ \E l \in doomed : LaneAt(l, "zombie") /\ LaneGoto(l, "reaped")
  /\ UNCHANGED parentVars
  /\ LanesUntouched

GuardDone ==
  /\ ppc = "bury"
  /\ \A l \in doomed : lpc[l] = "reaped"
  /\ ParentGoto("thrown")
  /\ UNCHANGED <<go, postGo>>

(* The runner itself is killed: no guard runs.                             *)
ParentKilled ==
  /\ ppc \notin Final
  /\ ParentGoto("killed")
  /\ UNCHANGED <<go, postGo>>

ParentStep ==
  \/ Fork \/ ForkFails \/ SeeAllReady \/ OpenBarrier \/ SeeAllDone
  \/ SeeAllPostDone \/ Reap \/ TakeCensus \/ DeadlineOrStop
  \/ KillChildren \/ Bury \/ GuardDone

Done == ppc \in Final /\ UNCHANGED vars

Next == LaneStep \/ ParentStep \/ ParentKilled \/ Done

Spec == Init /\ [][Next]_vars

(* The parent runs, a deadline that is waited for expires (DeadlineOrStop  *)
(* is a step of the parent), and a SIGKILL ends its target: no lane need   *)
(* ever take a step of its own.                                            *)
FairSpec ==
  /\ Spec
  /\ WF_vars(ParentStep)
  /\ \A l \in Lane : WF_vars(l \in doomed /\ LaneDies(l))

-----------------------------------------------------------------------------
(* Properties.                                                             *)

(* Every variable has its type; a row in hand is a row of the workload.    *)
TypeOK ==
  /\ ppc \in ParentPC
  /\ plane \in 0 .. Lanes
  /\ (ppc \in {"fork", "reap"} => plane \in Lane)
  /\ children \in [Lane -> {"none", "live", "cleared"}]
  /\ census \in Nat
  /\ lpc \in [Lane -> LanePC]
  /\ lexit \in [Lane -> {"none", "ok", "failed", "signal"}]
  /\ status \in [Lane -> {0, 2, 3}]
  /\ row \in [Lane -> Nat]
  /\ next \in Nat
  /\ ready \subseteq Lane /\ done \subseteq Lane /\ postDone \subseteq Lane
  /\ go \in BOOLEAN /\ postGo \in BOOLEAN
  /\ answer \in [Query -> SUBSET Lane]
  /\ childQueries \in [Lane -> Nat]
  /\ childStatus \in [Lane -> {0, 2, 3}]
  /\ doomed \subseteq Lane
  /\ \A l \in Lane : lpc[l] = "execute" => row[l] \in Query

(* No row is executed by two lanes, or by one lane twice: a row in hand is *)
(* in no other hand and has no result yet.                                 *)
EachRowOnce ==
  /\ \A q \in Query : \A l, m \in answer[q] : l = m
  /\ \A l \in Lane : lpc[l] = "execute" =>
       /\ answer[row[l]] = {}
       /\ \A m \in Lane : lpc[m] = "execute" /\ row[m] = row[l] => m = l

(* The measured wall time contains all the work and nothing else: a lane   *)
(* pulls and executes only once every lane is ready and the clock has      *)
(* started, and never after the clock has stopped.                         *)
TimingBracketsWork ==
  \A l \in Lane : lpc[l] \in {"pull", "execute"} =>
    /\ ready = Lane
    /\ ppc \in {"done", "kill", "bury", "thrown", "killed"}

(* An accepted block has a result for every row, stored by the one lane    *)
(* the record names, and by nobody who failed.                             *)
AcceptedIsComplete ==
  ppc = "accepted" =>
    \A q \in Query : \E l \in Lane : answer[q] = {l} /\ CleanExit(l)

(* The guard signals and waits for its own unreaped children only: a       *)
(* reaped process id may belong to somebody else.                          *)
GuardSignalsOwnChildren ==
  \A l \in Lane :
    ppc = "kill" /\ children[l] = "live" => lpc[l] \notin {"unborn", "reaped"}

(* However run_block ends, short of the runner being killed, no lane is    *)
(* left spinning on a barrier or holding a process entry.                  *)
NoLaneLeft ==
  ppc \in {"accepted", "thrown"} =>
    \A l \in Lane : lpc[l] \in {"unborn", "reaped"}

(* run_block ends whatever its lanes do: a lane that hangs in a query or   *)
(* dies on either side of a barrier costs a deadline, not the run.         *)
Termination == <>(ppc \in Final)
=============================================================================
