-------------------------- MODULE ShardBuilderProofs --------------------------
(***************************************************************************)
(* The build log of the range-block builder can be trusted, whatever the   *)
(* shards, the cap and the number of runs and crashes; and what holds of   *)
(* all the builders.                                                       *)
(***************************************************************************)
EXTENDS ShardBuilder, TLAPS

Building == {"open", "save", "check", "sync", "sync_dir", "log"}

(* The shard at hand has no row before it is logged, and what has been     *)
(* checked and synced by then.                                             *)
AtHand ==
  /\ pc \in Building => rows[cur] = 0
  /\ pc \in {"sync", "sync_dir", "log"} => file[cur] = "graph"
  /\ pc \in {"sync_dir", "log"} => cur \in fileSynced
  /\ pc = "log" => cur \in nameSynced
  /\ pc # "idle" => runs > 0

RowsSynced == \A s \in Shard : rowsSynced[s] <= rows[s]

LogInv == TypeOK /\ AtHand /\ RowsSynced /\ LoggedIsBuilt /\ OneRowEach

(* For every builder: a run logs a shard at most once.                     *)
RowBounds ==
  /\ \A s \in Shard : rows[s] <= runs
  /\ pc # "idle" => \A s \in work : rows[s] < runs
  /\ pc \in Building => rows[cur] < runs

-----------------------------------------------------------------------------
LEMMA RowsInit == Init => TypeOK /\ RowBounds
<1> SUFFICES ASSUME Init
             PROVE  TypeOK /\ RowBounds
  OBVIOUS
<1>1. 0 \in Shard
  BY ShardsAssumption DEF Shard
<1> QED
  BY <1>1, RunsAssumption DEF Init, TypeOK, RowBounds, Building

(* The counts stay in range because a run takes a shard off its work       *)
(* before it logs it.                                                      *)
LEMMA RowsStep ==
  TypeOK /\ RowBounds /\ [Next]_vars => TypeOK' /\ RowBounds'
<1> SUFFICES ASSUME TypeOK, RowBounds, [Next]_vars
             PROVE  TypeOK' /\ RowBounds'
  OBVIOUS
<1> USE RunsAssumption DEF TypeOK, RowBounds, Building, fileVars, logVars
<1>1. CASE StartRun
  BY <1>1 DEF StartRun, Largest
<1>2. CASE TakeShard
  <2>1. PICK s \in Shard :
          /\ s \in work /\ cur' = s /\ work' = work \ {s}
          /\ pc' \in {"next", "open"}
    BY <1>2 DEF TakeShard, First
  <2>2. /\ pc = "next"
        /\ UNCHANGED <<file, fileSynced, nameSynced, rows, rowsSynced, runs>>
    BY <1>2 DEF TakeShard
  <2> QED
    BY <2>1, <2>2
<1>3. CASE OpenFile \/ SaveGraph \/ CheckBytes \/ SyncFile \/ SyncDirectory
  BY <1>3 DEF OpenFile, SaveGraph, CheckBytes, SyncFile, SyncDirectory
<1>4. CASE AppendRow
  <2>1. /\ rows'[cur] = rows[cur] + 1
        /\ \A s \in Shard : s # cur => rows'[s] = rows[s]
    BY <1>4 DEF AppendRow
  <2>2. rows[cur] + 1 \in 0 .. MaxRuns /\ cur \notin work
    BY <1>4 DEF AppendRow
  <2> QED
    BY <1>4, <2>1, <2>2 DEF AppendRow
<1>5. CASE SyncLog \/ FinishRun \/ RunDies
  BY <1>5 DEF SyncLog, FinishRun, RunDies
<1>6. CASE MachineCrash
  <2>1. /\ file' \in [Shard -> {"absent", "torn", "graph"}]
        /\ nameSynced' \subseteq Shard /\ fileSynced' \subseteq Shard
    BY <1>6 DEF MachineCrash
  <2>2. /\ rows' \in [Shard -> 0 .. MaxRuns] /\ rowsSynced' = rows'
        /\ \A s \in Shard : rows'[s] <= rows[s]
        /\ pc' = "idle" /\ UNCHANGED <<work, cur, runs>>
    BY <1>6 DEF MachineCrash
  <2> QED
    BY <2>1, <2>2
<1>7. CASE UNCHANGED vars
  BY <1>7 DEF vars
<1> QED
  BY <1>1, <1>2, <1>3, <1>4, <1>5, <1>6, <1>7 DEF Next, Builder

(* The files, the log and the runs have their types, for the range-block   *)
(* builder and for the categorical ones.                                   *)
THEOREM TypeCorrect == Spec => []TypeOK
BY RowsInit, RowsStep, PTL DEF Spec

-----------------------------------------------------------------------------
LEMMA LogInit == Init => LogInv
<1> SUFFICES ASSUME Init
             PROVE  LogInv
  OBVIOUS
<1>1. 0 \in Shard
  BY ShardsAssumption DEF Shard
<1> QED
  BY <1>1, RunsAssumption
     DEF Init, LogInv, TypeOK, AtHand, RowsSynced, LoggedIsBuilt, OneRowEach,
         Building

(* A row is written once a run has seen no file, and stands for a graph    *)
(* that no crash takes away.                                               *)
LEMMA LogStep == Synced /\ LogInv /\ [Next]_vars => LogInv'
<1> SUFFICES ASSUME Synced, LogInv, [Next]_vars
             PROVE  LogInv'
  OBVIOUS
<1> USE RunsAssumption
    DEF LogInv, TypeOK, AtHand, RowsSynced, LoggedIsBuilt, OneRowEach, Building,
        fileVars, logVars
<1>1. CASE StartRun
  BY <1>1 DEF StartRun, Largest
<1>2. CASE TakeShard
  BY <1>2 DEF TakeShard
<1>3. CASE OpenFile
  BY <1>3 DEF OpenFile
<1>4. CASE SaveGraph
  BY <1>4 DEF SaveGraph
<1>5. CASE CheckBytes
  BY <1>5 DEF CheckBytes
<1>6. CASE SyncFile
  BY <1>6 DEF SyncFile
<1>7. CASE SyncDirectory
  BY <1>7 DEF SyncDirectory
<1>8. CASE AppendRow
  <2>1. rows'[cur] = 1 /\ \A s \in Shard : s # cur => rows'[s] = rows[s]
    BY <1>8 DEF AppendRow
  <2>2. 1 \in 0 .. MaxRuns
    BY <1>8 DEF AppendRow
  <2> QED
    BY <1>8, <2>1, <2>2 DEF AppendRow
<1>9. CASE SyncLog
  BY <1>9 DEF SyncLog
<1>10. CASE FinishRun
  BY <1>10 DEF FinishRun
<1>11. CASE RunDies
  BY <1>11 DEF RunDies
<1>12. CASE MachineCrash
  <2>1. PICK kept \in [Shard -> {"absent", "torn", "graph"}] :
          /\ \A s \in Shard :
               IF file[s] = "absent" THEN kept[s] = "absent"
                                     ELSE kept[s] \in Surviving(s)
          /\ file' = kept
          /\ nameSynced' = {s \in Shard : kept[s] # "absent"}
          /\ fileSynced' = {s \in Shard : kept[s] # "absent"}
    BY <1>12 DEF MachineCrash
  <2>2. /\ rows' \in [Shard -> 0 .. MaxRuns] /\ rowsSynced' = rows'
        /\ \A s \in Shard : rows'[s] <= rows[s]
        /\ pc' = "idle" /\ UNCHANGED <<work, cur, runs>>
    BY <1>12 DEF MachineCrash
  <2>3. \A s \in Shard : rows[s] > 0 => kept[s] = "graph"
    BY <2>1 DEF Surviving
  <2> QED
    BY <2>1, <2>2, <2>3
<1>13. CASE UNCHANGED vars
  BY <1>13 DEF vars
<1> QED
  BY <1>1, <1>2, <1>3, <1>4, <1>5, <1>6, <1>7, <1>8, <1>9, <1>10, <1>11, <1>12,
     <1>13
     DEF Next, Builder

LEMMA LogHolds == Synced => (Spec => []LogInv)
<1> SUFFICES ASSUME Synced
             PROVE  Spec => []LogInv
  OBVIOUS
<1>1. LogInv /\ [Next]_vars => LogInv'
  BY LogStep
<1> QED
  BY LogInit, <1>1, PTL DEF Spec

(* A logged range block has a whole graph, after any crash.                *)
THEOREM LogIsSound == Synced => (Spec => []LoggedIsBuilt)
<1> SUFFICES ASSUME Synced
             PROVE  Spec => []LoggedIsBuilt
  OBVIOUS
<1>1. LogInv => LoggedIsBuilt
  BY DEF LogInv
<1> QED
  BY LogHolds, <1>1, PTL

(* No range block is logged twice.                                         *)
THEOREM LogIsExact == Synced => (Spec => []OneRowEach)
<1> SUFFICES ASSUME Synced
             PROVE  Spec => []OneRowEach
  OBVIOUS
<1>1. LogInv => OneRowEach
  BY DEF LogInv
<1> QED
  BY LogHolds, <1>1, PTL

(* A logged graph never changes.                                           *)
THEOREM LoggedGraphsStay == Synced => (Spec => BuiltIsStable)
<1> SUFFICES ASSUME Synced
             PROVE  Spec => BuiltIsStable
  OBVIOUS
<1>1. LogInv /\ LogInv' /\ [Next]_vars =>
        [\A s \in Shard : rowsSynced[s] > 0 => file'[s] = file[s]]_vars
  <2> SUFFICES ASSUME LogInv, [Next]_vars, NEW s \in Shard, rowsSynced[s] > 0
               PROVE  file'[s] = file[s]
    OBVIOUS
  <2>1. /\ rows[s] > 0 /\ file[s] = "graph" /\ s \in fileSynced \cap nameSynced
        /\ pc \in Building => s # cur
    BY DEF LogInv, RowsSynced, LoggedIsBuilt, TypeOK, AtHand
  <2>2. CASE MachineCrash
    BY <2>1, <2>2 DEF MachineCrash, Surviving
  <2>3. CASE ~MachineCrash
    BY <2>1, <2>3
       DEF Next, Builder, StartRun, TakeShard, OpenFile, SaveGraph, CheckBytes,
           SyncFile, SyncDirectory, AppendRow, SyncLog, FinishRun, RunDies,
           vars, fileVars, Building, LogInv, TypeOK
  <2> QED
    BY <2>2, <2>3
<1> QED
  BY LogHolds, <1>1, PTL DEF Spec, BuiltIsStable
=============================================================================
