----------------------------- MODULE ShardBuilder -----------------------------
(***************************************************************************)
(* The offline builders of the per-shard graphs: the range-block builder   *)
(* and the two categorical ones.  A run takes the shards, largest first,   *)
(* skips those whose graph file exists, saves a graph for each other one   *)
(* under its final name and appends a row to build_log.csv.  Runs are      *)
(* repeated until all is built: a run may be killed, and the machine may   *)
(* crash, at any point.                                                    *)
(*                                                                         *)
(* Synced tells the builders apart.  The range-block builder compares the  *)
(* size of the saved file with the graph's, and fsyncs file, directory and *)
(* log; the categorical builders do none of it, and choose their work      *)
(* before the first graph is built.                                        *)
(***************************************************************************)
EXTENDS Naturals, FiniteSets

CONSTANTS
  Shards,               (* number of shards in the vocabulary              *)
  Cap,                  (* shards a run may take; 0 for all                *)
  MaxRuns,              (* bound: runs of the builder                      *)
  Synced                (* the range-block builder                         *)

ASSUME ShardsAssumption == Shards \in Nat \ {0}
ASSUME CapAssumption == Cap \in Nat
ASSUME RunsAssumption == MaxRuns \in Nat
ASSUME SyncedAssumption == Synced \in BOOLEAN

Shard == 0 .. Shards - 1            (* in the order of their sizes         *)

VARIABLES
  pc,                   (* where the run is                                *)
  work,                 (* shards it has not come to                       *)
  cur,                  (* the shard it is at                              *)
  file,                 (* what each graph file holds                      *)
  fileSynced, nameSynced,   (* files, and names, known to be durable       *)
  rows,                 (* rows of build_log.csv, by shard                 *)
  rowsSynced,           (* rows known to be durable                        *)
  runs

fileVars == <<file, fileSynced, nameSynced>>
logVars == <<rows, rowsSynced>>
vars == <<pc, work, cur, fileVars, logVars, runs>>

Init ==
  /\ pc = "idle" /\ work = {} /\ cur = 0 /\ runs = 0
  /\ file = [s \in Shard |-> "absent"]
  /\ fileSynced = {} /\ nameSynced = {}
  /\ rows = [s \in Shard |-> 0]
  /\ rowsSynced = [s \in Shard |-> 0]

(* The largest Cap of the shards in S.                                     *)
Largest(S) ==
  IF Cap = 0 THEN S
  ELSE {s \in S : Cardinality({t \in S : t < s}) < Cap}

-----------------------------------------------------------------------------
(* One run.                                                                *)

(* The range builder caps the vocabulary, the others what is not built.    *)
StartRun ==
  /\ pc \in {"idle", "done"} /\ runs < MaxRuns
  /\ runs' = runs + 1
  /\ work' = IF Synced THEN Largest(Shard)
                       ELSE Largest({s \in Shard : file[s] = "absent"})
  /\ pc' = "next"
  /\ UNCHANGED <<cur, fileVars, logVars>>

First(s) == s \in work /\ \A t \in work : s <= t

(* The categorical builders have looked before; a name is all they look at.*)
TakeShard ==
  /\ pc = "next"
  /\ \E s \in Shard :
       /\ First(s)
       /\ cur' = s /\ work' = work \ {s}
       /\ pc' = IF Synced /\ file[s] # "absent" THEN "next" ELSE "open"
  /\ UNCHANGED <<fileVars, logVars, runs>>

(* graph.save opens, and truncates, the file under its final name ...      *)
OpenFile ==
  /\ pc = "open"
  /\ file' = [file EXCEPT ![cur] = "torn"]
  /\ fileSynced' = fileSynced \ {cur}
  /\ pc' = "save"
  /\ UNCHANGED <<work, cur, nameSynced, logVars, runs>>

(* ... and does not say whether all of the graph was written.              *)
SaveGraph ==
  /\ pc = "save"
  /\ \E saved \in {"torn", "graph"} : file' = [file EXCEPT ![cur] = saved]
  /\ pc' = IF Synced THEN "check" ELSE "log"
  /\ UNCHANGED <<work, cur, fileSynced, nameSynced, logVars, runs>>

(* Faulty: any file will do.                                               *)
CheckNothing ==
  /\ pc = "check"
  /\ pc' = "sync"
  /\ UNCHANGED <<work, cur, fileVars, logVars, runs>>

(* "graph serialization byte count mismatch" ends the run; the file stays. *)
CheckBytes ==
  /\ pc = "check"
  /\ pc' = IF file[cur] = "graph" THEN "sync" ELSE "idle"
  /\ UNCHANGED <<work, cur, fileVars, logVars, runs>>

SyncFile ==
  /\ pc = "sync"
  /\ fileSynced' = fileSynced \cup {cur}
  /\ pc' = "sync_dir"
  /\ UNCHANGED <<work, cur, file, nameSynced, logVars, runs>>

SyncDirectory ==
  /\ pc = "sync_dir"
  /\ nameSynced' = {s \in Shard : file[s] # "absent"}
  /\ pc' = "log"
  /\ UNCHANGED <<work, cur, file, fileSynced, logVars, runs>>

AppendRow ==
  /\ pc = "log"
  /\ rows' = [rows EXCEPT ![cur] = @ + 1]
  /\ pc' = IF Synced THEN "sync_log" ELSE "next"
  /\ UNCHANGED <<work, cur, fileVars, rowsSynced, runs>>

SyncLog ==
  /\ pc = "sync_log"
  /\ rowsSynced' = rows
  /\ pc' = "next"
  /\ UNCHANGED <<work, cur, fileVars, rows, runs>>

FinishRun ==
  /\ pc = "next" /\ work = {}
  /\ pc' = "done"
  /\ UNCHANGED <<work, cur, fileVars, logVars, runs>>

Builder ==
  \/ TakeShard \/ OpenFile \/ SaveGraph \/ CheckBytes \/ SyncFile
  \/ SyncDirectory \/ AppendRow \/ SyncLog \/ FinishRun

-----------------------------------------------------------------------------
(* What may happen to it.                                                  *)

(* A failed system call, an exception or a signal ends the run.            *)
RunDies ==
  /\ pc \notin {"idle", "done"}
  /\ pc' = "idle"
  /\ UNCHANGED <<work, cur, fileVars, logVars, runs>>

(* A machine crash keeps what was synced; of the rest, any part.           *)
Surviving(s) ==
  {file[s]}
  \cup (IF s \in fileSynced \cap nameSynced THEN {} ELSE {"torn"})
  \cup (IF s \in nameSynced THEN {} ELSE {"absent"})

MachineCrash ==
  /\ \E kept \in [Shard -> {"absent", "torn", "graph"}] :
       /\ \A s \in Shard :
            IF file[s] = "absent" THEN kept[s] = "absent"
                                  ELSE kept[s] \in Surviving(s)
       /\ file' = kept
       /\ nameSynced' = {s \in Shard : kept[s] # "absent"}
       /\ fileSynced' = {s \in Shard : kept[s] # "absent"}
  /\ \E kept \in [Shard -> 0 .. MaxRuns] :
       /\ \A s \in Shard : kept[s] \in rowsSynced[s] .. rows[s]
       /\ rows' = kept /\ rowsSynced' = kept
  /\ pc' = "idle"
  /\ UNCHANGED <<work, cur, runs>>

Next == StartRun \/ Builder \/ RunDies \/ MachineCrash
Spec == Init /\ [][Next]_vars

-----------------------------------------------------------------------------
(* Properties.                                                             *)

(* Every variable has its type; the shard at hand is not also waiting.     *)
TypeOK ==
  /\ pc \in {"idle", "next", "open", "save", "check", "sync", "sync_dir",
             "log", "sync_log", "done"}
  /\ work \subseteq Shard /\ cur \in Shard
  /\ file \in [Shard -> {"absent", "torn", "graph"}]
  /\ fileSynced \subseteq Shard /\ nameSynced \subseteq Shard
  /\ rows \in [Shard -> 0 .. MaxRuns]
  /\ rowsSynced \in [Shard -> 0 .. MaxRuns]
  /\ runs \in 0 .. MaxRuns
  /\ pc \notin {"idle", "done", "next"} => cur \notin work

(* A shard with a row in the log has its whole graph, and keeps it over    *)
(* every crash: the log is the last thing that is written.                 *)
LoggedIsBuilt ==
  \A s \in Shard : rows[s] > 0 =>
    file[s] = "graph" /\ s \in fileSynced \cap nameSynced

(* Over all the runs and crashes a shard is logged once.                   *)
OneRowEach == \A s \in Shard : rows[s] <= 1

(* No later run opens a logged graph again: what a user has begun to load  *)
(* does not change under him.                                              *)
BuiltIsStable ==
  [][\A s \in Shard : rowsSynced[s] > 0 => file'[s] = file[s]]_vars

(* "Resumable": a shard that a run leaves out, because it finds it built,  *)
(* has its whole graph, whatever became of the runs before.                *)
LeavesOut(s) ==
  s \notin work' /\ (runs' # runs \/ (s \in work /\ pc' = "next"))

SkippedIsBuilt ==
  [][Cap = 0 => \A s \in Shard : LeavesOut(s) => file[s] = "graph"]_vars
=============================================================================
