------------------------- MODULE WorkerBarrierProofs -------------------------
(***************************************************************************)
(* The safety of one timed block, for any number of lanes and of queries.  *)
(* Three layers: what the parent knows of its children, what the barriers  *)
(* separate, and who holds or has answered a row.                          *)
(***************************************************************************)
EXTENDS WorkerBarrier, TLAPS

(* The parent's progress through a block that has gone well so far.        *)
Forked == {"ready", "go", "done", "post", "reap", "census", "accepted"}
Timed == {"post", "reap", "census", "accepted"}

Ended == {"zombie", "reaped"}

(* The slots of the vector follow the forked lanes, and the reaped ones.   *)
ChildrenMatch ==
  /\ \A l \in Lane : children[l] = "none" <=> lpc[l] = "unborn"
  /\ \A l \in Lane : children[l] = "cleared" => lpc[l] = "reaped"
  /\ \A l \in Lane :
       lpc[l] = "reaped" => children[l] = "cleared" \/ l \in doomed
  /\ \A l \in doomed : children[l] = "live"

ParentKnows ==
  /\ ppc = "fork" => \A l \in Lane : children[l] = "none" <=> l >= plane
  /\ ppc \in {"fork", "ready", "go", "done", "post"} =>
       \A l \in Lane : children[l] # "cleared"
  /\ ppc \in Forked => \A l \in Lane : children[l] # "none"
  /\ ppc = "reap" => \A l \in Lane : children[l] = "cleared" <=> l < plane
  /\ ppc \in {"census", "accepted"} => \A l \in Lane : children[l] = "cleared"
  /\ ppc \notin {"bury", "thrown", "killed"} => doomed = {}
  /\ ppc \in {"bury", "thrown"} =>
       \A l \in Lane : children[l] = "live" => l \in doomed
  /\ ppc = "thrown" => \A l \in doomed : lpc[l] = "reaped"

ChildInv == ChildrenMatch /\ ParentKnows

(* What has passed a barrier stays behind it.                              *)
BarrierInv ==
  /\ \A l \in ready : lpc[l] \notin {"unborn", "bind"}
  /\ ppc \in Forked \ {"ready"} => ready = Lane
  /\ go => ready = Lane /\ ppc \notin {"fork", "ready", "go"}
  /\ \A l \in Lane : lpc[l] \in {"pull", "execute"} => go
  /\ \A l \in done : lpc[l] \in {"spin_post", "exit"} \cup Ended
  /\ ppc \in Timed => done = Lane

(* How a lane's process ended says what it did.                            *)
Endings ==
  /\ \A l \in Lane : lexit[l] = "none" <=> lpc[l] \notin Ended
  /\ \A l \in Lane : lexit[l] = "ok" => status[l] = 0 /\ next >= Queries
  /\ \A l \in Lane : lpc[l] \in {"report", "spin_post", "exit"} =>
       status[l] # 0 \/ next >= Queries
  /\ \A l \in Lane :
       lpc[l] \in {"unborn", "bind", "pull", "execute"} => status[l] = 0
  /\ ppc = "reap" => \A l \in Lane : l < plane => CleanExit(l)
  /\ ppc \in {"census", "accepted"} => \A l \in Lane : CleanExit(l)

Lost(l) == lexit[l] = "signal" \/ status[l] = 2

(* Every row handed out has an answer, is in one hand, or went down with a *)
(* lane whose status or exit shows it.                                     *)
Rows ==
  /\ \A q \in Query : q >= next => answer[q] = {}
  /\ \A q \in Query : q < next =>
       \/ answer[q] # {}
       \/ \E l \in Lane : lpc[l] = "execute" /\ row[l] = q
       \/ \E l \in Lane : Lost(l)
  /\ \A l \in Lane : lpc[l] = "execute" => row[l] < next

(* An answer comes from a lane that had the row.                           *)
WorkInv == Endings /\ Rows /\ EachRowOnce

SafetyInv == TypeOK /\ ChildInv /\ BarrierInv /\ WorkInv

-----------------------------------------------------------------------------
LEMMA LaneFacts ==
  /\ Lanes \in Nat /\ Lanes > 0 /\ Queries \in Nat /\ Queries > 0
  /\ \A l : l \in Lane <=> l \in Nat /\ l < Lanes
  /\ \A q : q \in Query <=> q \in Nat /\ q < Queries
  /\ \A l : l \in 0 .. Lanes <=> l \in Nat /\ l <= Lanes
BY LanesAssumption, QueriesAssumption DEF Lane, Query

LEMMA SafetyInit == Init => SafetyInv
<1> SUFFICES ASSUME Init
             PROVE  SafetyInv
  OBVIOUS
<1> USE LanesAssumption, QueriesAssumption, LaneFacts DEF Init
<1>1. TypeOK
  <2>1. answer \in [Query -> SUBSET Lane]
    OBVIOUS
  <2>2. plane \in 0 .. Lanes /\ plane \in Lane
    OBVIOUS
  <2> QED
    BY <2>1, <2>2 DEF TypeOK, ParentPC, LanePC
<1>2. ChildInv
  BY DEF ChildInv, ChildrenMatch, ParentKnows, Forked
<1>3. BarrierInv
  BY DEF BarrierInv, Forked, Timed
<1>4. WorkInv
  BY DEF WorkInv, Endings, Rows, EachRowOnce, Ended
<1> QED
  BY <1>1, <1>2, <1>3, <1>4 DEF SafetyInv

(* Every action keeps the types.                                           *)
LEMMA TypeStep ==
  TypeOK /\ [Next]_vars => TypeOK'
<1> SUFFICES ASSUME TypeOK, [Next]_vars
             PROVE  TypeOK'
  OBVIOUS
<1> USE LaneFacts DEF TypeOK, ParentPC, LanePC, Final, LiveLane, LaneAt,
   LaneGoto, LaneEnds, LanesUntouched, Throw, ParentGoto, parentVars, laneVars
<1>1. CASE LaneStep
  <2> PICK l \in Lane :
        \/ Bind(l) \/ SeeGo(l) \/ Pull(l) \/ Execute(l) \/ ExecuteThrows(l)
        \/ Report(l) \/ PostCensus(l) \/ LaneExits(l) \/ LaneDies(l)
    BY <1>1 DEF LaneStep
  <2>1. CASE Bind(l)
    BY <2>1 DEF Bind
  <2>2. CASE SeeGo(l)
    BY <2>2 DEF SeeGo
  <2>3. CASE Pull(l)
    BY <2>3 DEF Pull
  <2>4. CASE Execute(l)
    BY <2>4 DEF Execute
  <2>5. CASE ExecuteThrows(l)
    BY <2>5 DEF ExecuteThrows
  <2>6. CASE Report(l)
    BY <2>6 DEF Report
  <2>7. CASE PostCensus(l)
    BY <2>7 DEF PostCensus
  <2>8. CASE LaneExits(l)
    BY <2>8 DEF LaneExits
  <2>9. CASE LaneDies(l)
    BY <2>9 DEF LaneDies
  <2> QED
    BY <2>1, <2>2, <2>3, <2>4, <2>5, <2>6, <2>7, <2>8, <2>9
<1>2. CASE ParentStep
  <2>1. CASE Fork
    BY <2>1 DEF Fork
  <2>2. CASE ForkFails
    BY <2>2 DEF ForkFails
  <2>3. CASE SeeAllReady
    BY <2>3 DEF SeeAllReady
  <2>4. CASE OpenBarrier
    BY <2>4 DEF OpenBarrier
  <2>5. CASE SeeAllDone
    BY <2>5 DEF SeeAllDone
  <2>6. CASE SeeAllPostDone
    BY <2>6 DEF SeeAllPostDone
  <2>7. CASE Reap
    BY <2>7 DEF Reap
  <2>8. CASE TakeCensus
    BY <2>8 DEF TakeCensus
  <2>9. CASE DeadlineOrStop
    BY <2>9 DEF DeadlineOrStop
  <2>10. CASE KillChildren
    BY <2>10 DEF KillChildren
  <2>11. CASE Bury
    BY <2>11 DEF Bury
  <2>12. CASE GuardDone
    BY <2>12 DEF GuardDone
  <2> QED BY <1>2, <2>1, <2>2, <2>3, <2>4, <2>5, <2>6, <2>7, <2>8, <2>9,
     <2>10, <2>11, <2>12 DEF ParentStep
<1>3. CASE ParentKilled
  BY <1>3 DEF ParentKilled
<1>4. CASE Done \/ UNCHANGED vars
  <2>1. UNCHANGED <<ppc, plane, children, census, go, postGo, doomed, lpc, lexit,
                    status, row, next, ready, done, postDone, answer,
                    childQueries, childStatus>>
    BY <1>4 DEF Done, vars
  <2> QED
    BY <2>1
<1> QED
  BY <1>1, <1>2, <1>3, <1>4 DEF Next

(* The parent's slots and its children's fates.                            *)
LEMMA ChildStep ==
  TypeOK /\ ChildInv /\ [Next]_vars => ChildInv'
<1> SUFFICES ASSUME TypeOK, ChildInv, [Next]_vars
             PROVE  ChildInv'
  OBVIOUS
<1> USE LaneFacts DEF TypeOK, ChildInv, ChildrenMatch, ParentKnows, Forked,
   LiveLane, Final, LaneAt, LaneGoto, LaneEnds, LanesUntouched, Throw,
   ParentGoto, parentVars, laneVars
<1>1. CASE LaneStep
  <2> PICK l \in Lane :
        \/ Bind(l) \/ SeeGo(l) \/ Pull(l) \/ Execute(l) \/ ExecuteThrows(l)
        \/ Report(l) \/ PostCensus(l) \/ LaneExits(l) \/ LaneDies(l)
    BY <1>1 DEF LaneStep
  <2>1. CASE Bind(l)
    BY <2>1 DEF Bind
  <2>2. CASE SeeGo(l)
    BY <2>2 DEF SeeGo
  <2>3. CASE Pull(l)
    BY <2>3 DEF Pull
  <2>4. CASE Execute(l)
    BY <2>4 DEF Execute
  <2>5. CASE ExecuteThrows(l)
    BY <2>5 DEF ExecuteThrows
  <2>6. CASE Report(l)
    BY <2>6 DEF Report
  <2>7. CASE PostCensus(l)
    BY <2>7 DEF PostCensus
  <2>8. CASE LaneExits(l)
    BY <2>8 DEF LaneExits
  <2>9. CASE LaneDies(l)
    BY <2>9 DEF LaneDies
  <2> QED
    BY <2>1, <2>2, <2>3, <2>4, <2>5, <2>6, <2>7, <2>8, <2>9
<1>2. CASE ParentStep
  <2>1. CASE Fork
    BY <2>1 DEF Fork
  <2>2. CASE ForkFails
    BY <2>2 DEF ForkFails
  <2>3. CASE SeeAllReady
    BY <2>3 DEF SeeAllReady
  <2>4. CASE OpenBarrier
    BY <2>4 DEF OpenBarrier
  <2>5. CASE SeeAllDone
    BY <2>5 DEF SeeAllDone
  <2>6. CASE SeeAllPostDone
    BY <2>6 DEF SeeAllPostDone
  <2>7. CASE Reap
    <3>1. plane \in Lane /\ plane + 1 \in 0 .. Lanes
      BY <2>7  DEF Reap
    <3>2. ChildrenMatch'
      BY <2>7, <3>1 DEF Reap
    <3>3. CASE CleanExit(plane)
      BY <2>7, <3>1, <3>2, <3>3 DEF Reap
    <3>4. CASE ~CleanExit(plane)
      BY <2>7, <3>1, <3>2, <3>4 DEF Reap
    <3> QED
      BY <3>3, <3>4
  <2>8. CASE TakeCensus
    BY <2>8 DEF TakeCensus
  <2>9. CASE DeadlineOrStop
    BY <2>9 DEF DeadlineOrStop
  <2>10. CASE KillChildren
    BY <2>10 DEF KillChildren
  <2>11. CASE Bury
    BY <2>11 DEF Bury
  <2>12. CASE GuardDone
    BY <2>12 DEF GuardDone
  <2> QED BY <1>2, <2>1, <2>2, <2>3, <2>4, <2>5, <2>6, <2>7, <2>8, <2>9,
     <2>10, <2>11, <2>12 DEF ParentStep
<1>3. CASE ParentKilled
  BY <1>3 DEF ParentKilled
<1>4. CASE Done \/ UNCHANGED vars
  <2>1. UNCHANGED <<ppc, plane, children, census, go, postGo, doomed, lpc, lexit,
                    status, row, next, ready, done, postDone, answer,
                    childQueries, childStatus>>
    BY <1>4 DEF Done, vars
  <2> QED
    BY <2>1
<1> QED
  BY <1>1, <1>2, <1>3, <1>4 DEF Next

(* Nothing crosses a barrier backwards.                                    *)
LEMMA BarrierStep ==
  TypeOK /\ ChildInv /\ BarrierInv /\ [Next]_vars => BarrierInv'
<1> SUFFICES ASSUME TypeOK, ChildInv, BarrierInv, [Next]_vars
             PROVE  BarrierInv'
  OBVIOUS
<1> USE LaneFacts DEF TypeOK, BarrierInv, Forked, Timed, Ended, LiveLane,
   Final, LaneAt, LaneGoto, LaneEnds, LanesUntouched, Throw, ParentGoto,
   parentVars, laneVars
<1>1. CASE LaneStep
  <2> PICK l \in Lane :
        \/ Bind(l) \/ SeeGo(l) \/ Pull(l) \/ Execute(l) \/ ExecuteThrows(l)
        \/ Report(l) \/ PostCensus(l) \/ LaneExits(l) \/ LaneDies(l)
    BY <1>1 DEF LaneStep
  <2>1. CASE Bind(l)
    BY <2>1 DEF Bind
  <2>2. CASE SeeGo(l)
    BY <2>2 DEF SeeGo
  <2>3. CASE Pull(l)
    BY <2>3 DEF Pull
  <2>4. CASE Execute(l)
    BY <2>4 DEF Execute
  <2>5. CASE ExecuteThrows(l)
    BY <2>5 DEF ExecuteThrows
  <2>6. CASE Report(l)
    BY <2>6 DEF Report
  <2>7. CASE PostCensus(l)
    BY <2>7 DEF PostCensus
  <2>8. CASE LaneExits(l)
    BY <2>8 DEF LaneExits
  <2>9. CASE LaneDies(l)
    BY <2>9 DEF LaneDies
  <2> QED
    BY <2>1, <2>2, <2>3, <2>4, <2>5, <2>6, <2>7, <2>8, <2>9
<1>2. CASE ParentStep
  <2>1. CASE Fork
    BY <2>1 DEF Fork, ChildInv, ParentKnows, ChildrenMatch
  <2>2. CASE ForkFails
    BY <2>2 DEF ForkFails
  <2>3. CASE SeeAllReady
    BY <2>3 DEF SeeAllReady
  <2>4. CASE OpenBarrier
    BY <2>4 DEF OpenBarrier
  <2>5. CASE SeeAllDone
    BY <2>5 DEF SeeAllDone
  <2>6. CASE SeeAllPostDone
    BY <2>6 DEF SeeAllPostDone
  <2>7. CASE Reap
    BY <2>7 DEF Reap
  <2>8. CASE TakeCensus
    BY <2>8 DEF TakeCensus
  <2>9. CASE DeadlineOrStop
    BY <2>9 DEF DeadlineOrStop
  <2>10. CASE KillChildren
    BY <2>10 DEF KillChildren
  <2>11. CASE Bury
    BY <2>11 DEF Bury
  <2>12. CASE GuardDone
    BY <2>12 DEF GuardDone
  <2> QED BY <1>2, <2>1, <2>2, <2>3, <2>4, <2>5, <2>6, <2>7, <2>8, <2>9,
     <2>10, <2>11, <2>12 DEF ParentStep
<1>3. CASE ParentKilled
  BY <1>3 DEF ParentKilled
<1>4. CASE Done \/ UNCHANGED vars
  <2>1. UNCHANGED <<ppc, plane, children, census, go, postGo, doomed, lpc, lexit,
                    status, row, next, ready, done, postDone, answer,
                    childQueries, childStatus>>
    BY <1>4 DEF Done, vars
  <2> QED
    BY <2>1
<1> QED
  BY <1>1, <1>2, <1>3, <1>4 DEF Next

(* A row goes from the counter to one hand and from there to its answer.   *)
LEMMA WorkStep ==
  TypeOK /\ ChildInv /\ BarrierInv /\ WorkInv /\ [Next]_vars => WorkInv'
<1> SUFFICES ASSUME TypeOK, ChildInv, BarrierInv, WorkInv, [Next]_vars
             PROVE  WorkInv'
  OBVIOUS
<1> USE LaneFacts DEF TypeOK, WorkInv, Endings, Rows, Lost, EachRowOnce,
   Ended, CleanExit, LiveLane, Final, LaneAt, LaneGoto, LaneEnds,
   LanesUntouched, Throw, ParentGoto, parentVars, laneVars
<1>1. CASE LaneStep
  <2> PICK l \in Lane :
        \/ Bind(l) \/ SeeGo(l) \/ Pull(l) \/ Execute(l) \/ ExecuteThrows(l)
        \/ Report(l) \/ PostCensus(l) \/ LaneExits(l) \/ LaneDies(l)
    BY <1>1 DEF LaneStep
  <2>1. CASE Bind(l)
    <3>1. Endings'
      BY <2>1 DEF Bind
    <3>2. Rows'
      BY <2>1 DEF Bind
    <3>3. EachRowOnce'
      BY <2>1 DEF Bind
    <3> QED
      BY <3>1, <3>2, <3>3
  <2>2. CASE SeeGo(l)
    BY <2>2 DEF SeeGo
  <2>3. CASE Pull(l)
    <3>1. Endings'
      BY <2>3 DEF Pull
    <3>2. Rows'
      <4>1. \A q \in Query : q >= next' => answer'[q] = {}
        BY <2>3 DEF Pull
      <4>2. \A m \in Lane : m # l =>
              UNCHANGED <<lpc[m], row[m], status[m], lexit[m]>>
        BY <2>3 DEF Pull
      <4>3. \A m \in Lane : Lost(m) => Lost(m)'
        BY <2>3 DEF Pull
      <4>4. \A m \in Lane : lpc'[m] = "execute" => row'[m] < next'
        BY <2>3 DEF Pull
      <4>5. ASSUME NEW q \in Query, q < next'
            PROVE  \/ answer'[q] # {}
                   \/ \E m \in Lane : lpc'[m] = "execute" /\ row'[m] = q
                   \/ \E m \in Lane : Lost(m)'
        <5>1. CASE q = next
          BY <2>3, <4>5, <5>1 DEF Pull
        <5>2. CASE q # next
          <6>1. q < next /\ answer'[q] = answer[q]
            BY <2>3, <4>1, <4>5, <5>2 DEF Pull
          <6>2. CASE answer[q] # {}
            BY <6>1, <6>2
          <6>3. ASSUME NEW m \in Lane, lpc[m] = "execute", row[m] = q
                PROVE  lpc'[m] = "execute" /\ row'[m] = q
            BY <2>3, <4>2, <5>2, <6>3 DEF Pull
          <6>4. CASE \E m \in Lane : Lost(m)
            BY <4>3, <6>4
          <6> QED
            BY <6>1, <6>2, <6>3, <6>4
        <5> QED
          BY <5>1, <5>2
      <4> QED
        BY <2>3, <4>1, <4>4, <4>5
    <3>3. EachRowOnce'
      BY <2>3 DEF Pull
    <3> QED
      BY <3>1, <3>2, <3>3
  <2>4. CASE Execute(l)
    <3>1. Endings'
      BY <2>4 DEF Execute
    <3>2. Rows'
      <4>1. \A q \in Query : q >= next' => answer'[q] = {}
        BY <2>4 DEF Execute
      <4>2. \A m \in Lane : m # l =>
              UNCHANGED <<lpc[m], row[m], status[m], lexit[m]>>
        BY <2>4 DEF Execute
      <4>3. \A m \in Lane : Lost(m) => Lost(m)'
        BY <2>4 DEF Execute
      <4>4. \A m \in Lane : lpc'[m] = "execute" => row'[m] < next'
        BY <2>4 DEF Execute
      <4>5. ASSUME NEW q \in Query, q < next'
            PROVE  \/ answer'[q] # {}
                   \/ \E m \in Lane : lpc'[m] = "execute" /\ row'[m] = q
                   \/ \E m \in Lane : Lost(m)'
        <5>1. CASE q = row[l]
          BY <2>4, <4>5, <5>1 DEF Execute
        <5>2. CASE q # row[l]
          <6>1. q < next /\ answer'[q] = answer[q]
            BY <2>4, <4>1, <4>5, <5>2 DEF Execute
          <6>2. CASE answer[q] # {}
            BY <6>1, <6>2
          <6>3. ASSUME NEW m \in Lane, lpc[m] = "execute", row[m] = q
                PROVE  lpc'[m] = "execute" /\ row'[m] = q
            BY <2>4, <4>2, <5>2, <6>3 DEF Execute
          <6>4. CASE \E m \in Lane : Lost(m)
            BY <4>3, <6>4
          <6> QED
            BY <6>1, <6>2, <6>3, <6>4
        <5> QED
          BY <5>1, <5>2
      <4> QED
        BY <2>4, <4>1, <4>4, <4>5
    <3>3. EachRowOnce'
      BY <2>4 DEF Execute
    <3> QED
      BY <3>1, <3>2, <3>3
  <2>5. CASE ExecuteThrows(l)
    BY <2>5 DEF ExecuteThrows
  <2>6. CASE Report(l)
    BY <2>6 DEF Report
  <2>7. CASE PostCensus(l)
    BY <2>7 DEF PostCensus
  <2>8. CASE LaneExits(l)
    BY <2>8 DEF LaneExits
  <2>9. CASE LaneDies(l)
    BY <2>9 DEF LaneDies
  <2> QED
    BY <2>1, <2>2, <2>3, <2>4, <2>5, <2>6, <2>7, <2>8, <2>9
<1>2. CASE ParentStep
  <2>1. CASE Fork
    <3>0. plane \in Lane /\ lpc[plane] = "unborn"
      BY <2>1 DEF Fork, ChildInv, ChildrenMatch, ParentKnows
    <3>1. Endings'
      BY <2>1, <3>0 DEF Fork
    <3>2. Rows'
      BY <2>1, <3>0 DEF Fork
    <3>3. EachRowOnce'
      BY <2>1, <3>0 DEF Fork
    <3> QED
      BY <3>1, <3>2, <3>3
  <2>2. CASE ForkFails
    BY <2>2 DEF ForkFails
  <2>3. CASE SeeAllReady
    BY <2>3 DEF SeeAllReady
  <2>4. CASE OpenBarrier
    BY <2>4 DEF OpenBarrier
  <2>5. CASE SeeAllDone
    BY <2>5 DEF SeeAllDone
  <2>6. CASE SeeAllPostDone
    BY <2>6 DEF SeeAllPostDone
  <2>7. CASE Reap
    <3>0. plane \in Lane
      BY <2>7 DEF Reap
    <3>1. Endings'
      <4>1. /\ plane \in Nat /\ UNCHANGED <<lexit, childStatus, status, next>>
            /\ \A l \in Lane : lpc'[l] # lpc[l] =>
                 lpc[l] = "zombie" /\ lpc'[l] = "reaped"
        BY <2>7, <3>0 DEF Reap
      <4>2. CASE CleanExit(plane)
        <5>1. /\ plane' = plane + 1
              /\ ppc' = IF plane = Lanes - 1 THEN "census" ELSE "reap"
          BY <2>7, <4>2 DEF Reap
        <5>2. \A l \in Lane : l < plane + 1 => l < plane \/ l = plane
          BY <4>1
        <5>3. \A l \in Lane : l < plane + 1 => CleanExit(l)
          BY <2>7, <4>2, <5>2 DEF Reap
        <5> QED
          BY <2>7, <3>0, <4>1, <5>1, <5>3
      <4>3. CASE ~CleanExit(plane)
        BY <2>7, <4>1, <4>3 DEF Reap
      <4> QED
        BY <4>2, <4>3
    <3>2. Rows'
      BY <2>7, <3>0 DEF Reap
    <3>3. EachRowOnce'
      BY <2>7, <3>0 DEF Reap
    <3> QED
      BY <3>1, <3>2, <3>3
  <2>8. CASE TakeCensus
    BY <2>8 DEF TakeCensus
  <2>9. CASE DeadlineOrStop
    BY <2>9 DEF DeadlineOrStop
  <2>10. CASE KillChildren
    BY <2>10 DEF KillChildren
  <2>11. CASE Bury
    BY <2>11 DEF Bury
  <2>12. CASE GuardDone
    BY <2>12 DEF GuardDone
  <2> QED BY <1>2, <2>1, <2>2, <2>3, <2>4, <2>5, <2>6, <2>7, <2>8, <2>9,
     <2>10, <2>11, <2>12 DEF ParentStep
<1>3. CASE ParentKilled
  BY <1>3 DEF ParentKilled
<1>4. CASE Done \/ UNCHANGED vars
  <2>1. UNCHANGED <<ppc, plane, children, census, go, postGo, doomed, lpc, lexit,
                    status, row, next, ready, done, postDone, answer,
                    childQueries, childStatus>>
    BY <1>4 DEF Done, vars
  <2> QED
    BY <2>1
<1> QED
  BY <1>1, <1>2, <1>3, <1>4 DEF Next

(* The invariant holds throughout.                                         *)
LEMMA SafetyHolds == Spec => []SafetyInv
<1>1. SafetyInv /\ [Next]_vars => SafetyInv'
  BY TypeStep, ChildStep, BarrierStep, WorkStep DEF SafetyInv
<1> QED
  BY SafetyInit, <1>1, PTL DEF Spec

(* Types hold: no lane ever executes a row outside the workload.           *)
THEOREM TypeCorrect == Spec => []TypeOK
<1>1. SafetyInv => TypeOK
  BY DEF SafetyInv
<1> QED
  BY SafetyHolds, <1>1, PTL

(* No row is executed twice, by whichever lanes.                           *)
THEOREM RowsAreExclusive == Spec => []EachRowOnce
<1>1. SafetyInv => EachRowOnce
  BY DEF SafetyInv, WorkInv
<1> QED
  BY SafetyHolds, <1>1, PTL

(* The measured time brackets the work of every lane.                      *)
THEOREM TimingIsExact == Spec => []TimingBracketsWork
<1>1. SafetyInv => TimingBracketsWork
  BY DEF SafetyInv, TypeOK, BarrierInv, TimingBracketsWork, ParentPC, Forked,
         Timed, Ended
<1> QED
  BY SafetyHolds, <1>1, PTL

(* An accepted block answers every row: the exits and the counter alone    *)
(* guarantee it, whatever the census adds up to.                           *)
THEOREM AcceptanceIsComplete == Spec => []AcceptedIsComplete
<1>1. SafetyInv => AcceptedIsComplete
  <2> SUFFICES ASSUME SafetyInv, ppc = "accepted", NEW q \in Query
               PROVE  \E l \in Lane : answer[q] = {l} /\ CleanExit(l)
    BY DEF AcceptedIsComplete
  <2> USE LaneFacts DEF SafetyInv, TypeOK, WorkInv
  <2>1. \A l \in Lane : CleanExit(l)
    BY DEF Endings
  <2>2. 0 \in Lane /\ next >= Queries /\ q < next
    BY <2>1 DEF Endings, CleanExit
  <2>3. \A l \in Lane : ~Lost(l) /\ lpc[l] # "execute"
    BY <2>1 DEF Endings, CleanExit, Lost, Ended
  <2>4. answer[q] # {}
    BY <2>2, <2>3 DEF Rows
  <2>5. PICK l \in Lane : l \in answer[q]
    BY <2>4
  <2>6. answer[q] = {l}
    BY <2>5 DEF EachRowOnce
  <2> QED
    BY <2>1, <2>6
<1> QED
  BY SafetyHolds, <1>1, PTL

(* The guard never signals a process id that has been reaped.              *)
THEOREM GuardIsExact == Spec => []GuardSignalsOwnChildren
<1>1. SafetyInv => GuardSignalsOwnChildren
  BY DEF SafetyInv, ChildInv, ChildrenMatch, ParentKnows,
         GuardSignalsOwnChildren
<1> QED
  BY SafetyHolds, <1>1, PTL

(* No lane outlives run_block.                                             *)
THEOREM NoLaneOutlives == Spec => []NoLaneLeft
<1>1. SafetyInv => NoLaneLeft
  BY DEF SafetyInv, TypeOK, ChildInv, ChildrenMatch, ParentKnows, NoLaneLeft
<1> QED
  BY SafetyHolds, <1>1, PTL
=============================================================================
