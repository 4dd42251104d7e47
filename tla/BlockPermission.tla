-------------------------- MODULE BlockPermission --------------------------
(***************************************************************************)
(* What the acknowledgement/release protocols of the formal experiments    *)
(* promise, whatever files, locks and processes carry them: the units of   *)
(* an experiment (the blocks of the paired LAION run, the passes of a SIFT *)
(* point) start one at a time, a unit starts only when the unit before it  *)
(* has been permitted, a unit is permitted only on durable evidence of its *)
(* audit, and nothing is permitted once a stop has been recorded.          *)
(***************************************************************************)
EXTENDS Naturals

CONSTANT Units          (* number of units of the experiment *)

Unit == 0 .. Units - 1

VARIABLES
  started,              (* units that have been started              *)
  evidenced,            (* units whose audit evidence is durable     *)
  permitted,            (* units after which the next one may start  *)
  stopped               (* a stop has been recorded                  *)

vars == <<started, evidenced, permitted, stopped>>

Init ==
  /\ started = {}
  /\ evidenced = {}
  /\ permitted = {}
  /\ stopped = FALSE

(* A unit starts once, and after the first one only with permission.       *)
Start(u) ==
  /\ u \notin started
  /\ u = 0 \/ u - 1 \in permitted
  /\ started' = started \cup {u}
  /\ UNCHANGED <<evidenced, permitted, stopped>>

(* Making a directory durable may complete the evidence of several units.  *)
Evidence ==
  \E E \in SUBSET (started \ evidenced) :
    /\ evidenced' = evidenced \cup E
    /\ UNCHANGED <<started, permitted, stopped>>

(* The permission edge: it needs the evidence, and loses to a stop.        *)
Permit(u) ==
  /\ u \in evidenced
  /\ ~stopped
  /\ permitted' = permitted \cup {u}
  /\ UNCHANGED <<started, evidenced, stopped>>

Stop ==
  /\ stopped' = TRUE
  /\ UNCHANGED <<started, evidenced, permitted>>

Next ==
  \/ \E u \in Unit : Start(u) \/ Permit(u)
  \/ Evidence
  \/ Stop

Spec == Init /\ [][Next]_vars

TypeOK ==
  /\ started \subseteq Unit
  /\ evidenced \subseteq Unit
  /\ permitted \subseteq Unit
  /\ stopped \in BOOLEAN

(* The units start in their order, each one only when all the units before *)
(* it have durable evidence and permission.                                *)
StartsInOrder ==
  \A u \in started : \A v \in 0 .. u - 1 : v \in permitted /\ v \in evidenced

(* At most one unit is open, started and not yet permitted to be followed. *)
OneUnitOpen ==
  \A u, v \in started \ permitted : u = v
=============================================================================
