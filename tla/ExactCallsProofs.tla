-------------------------- MODULE ExactCallsProofs --------------------------
(***************************************************************************)
(* What holds of the calls of the exact executors for every value of the   *)
(* constants: the barrier between the passes of the categorical executor,  *)
(* the release of the provider's stages, the gate between the stages of    *)
(* the 100k adapter, the exactness of the top-k kernels and of the pair    *)
(* scans, and of the same-resident runs that the shuffle draws every place *)
(* alike, that the queries are opened only if the systems are comparable   *)
(* and that blocks come in their order.  A call is chosen once, so the     *)
(* state of each kernel has an invariant of its own.                       *)
(***************************************************************************)
EXTENDS ExactCalls, SequenceTheorems, FiniteSetTheorems,
        WellFoundedInduction, TLAPS

-----------------------------------------------------------------------------
(* The passes.                                                             *)

(* What a pass leaves under a final name, without the release.             *)
Outcome == {"raw", "ready", "ack"}

(* What attempt b publishes of pass p.                                     *)
Written(c, p, kind, b) ==
  [what |-> kind, pass |-> p, by |-> b, good |-> p \notin c.bad]

(* State d of the directory has x under the final name of the kind.        *)
Holds(d, p, kind, x) ==
  Final(p, kind) \in DOMAIN d /\ d[Final(p, kind)] = x

(* Attempt b's file of pass p is there for good.                           *)
Settled(c, a, p, kind, b) ==
  /\ Holds(a.seen, p, kind, Written(c, p, kind, b))
  /\ Holds(a.kept, p, kind, Written(c, p, kind, b))
  /\ Written(c, p, kind, b) \in a.flushed

(* The state of the passes, field by field.                                *)
PassFields == {"pc", "pass", "kind", "attempt", "seen", "kept", "flushed", "csv"}

(* The state is one the passes can have, whatever its directory holds.     *)
PassShape(a) ==
  /\ DOMAIN a = PassFields
  /\ a.pass \in 1 .. PassRuns /\ a.kind \in {"raw", "ready"}

(* No outcome is changed or lost but by a crash.                           *)
SnapshotHolds(a) ==
  \A p \in Nat, kind \in Outcome :
    Final(p, kind) \in DOMAIN a.kept => Holds(a.seen, p, kind, a.kept[Final(p, kind)])

(* A pass left behind is right, and both its records are this attempt's    *)
(* and on the disk.                                                        *)
BehindSettled(c, a) ==
  \A p \in 1 .. PassRuns : p < a.pass \/ a.pc = "done" =>
    /\ p \notin c.bad
    /\ \A kind \in {"raw", "ready"} : Settled(c, a, p, kind, a.attempt)

(* A ready record that is seen is flushed, and the results that it is of   *)
(* are on the disk.                                                        *)
ReadyHasRaw(c, a) ==
  \A p \in Nat : Final(p, "ready") \in DOMAIN a.seen =>
    \E b : /\ Holds(a.seen, p, "ready", Written(c, p, "ready", b))
           /\ Written(c, p, "ready", b) \in a.flushed
           /\ Settled(c, a, p, "raw", b)

(* An acknowledgement stands by results on the disk, and a whole one names *)
(* them and tells whether they are right.                                  *)
AckHasRaw(c, a) ==
  \A p \in Nat : Final(p, "ack") \in DOMAIN a.seen =>
    \E b : /\ Settled(c, a, p, "raw", b)
           /\ a.seen[Final(p, "ack")] # Torn =>
                /\ a.seen[Final(p, "ack")].raw = Written(c, p, "raw", b)
                /\ a.seen[Final(p, "ack")].good => p \notin c.bad

(* How far the publication of the current pass has come.                   *)
PublicationAt(c, a) ==
  LET own == Written(c, a.pass, a.kind, a.attempt) IN
  /\ a.pc \in Publishing \cup {"waiting"} /\ a.kind = "ready" =>
       Settled(c, a, a.pass, "raw", a.attempt)
  /\ a.pc \in {"sync", "link"} =>
       /\ Draft(a.pass, a.kind) \in DOMAIN a.seen
       /\ a.seen[Draft(a.pass, a.kind)] = own
  /\ a.pc \in {"link", "settle"} => own \in a.flushed
  /\ a.pc = "settle" => Holds(a.seen, a.pass, a.kind, own)
  /\ a.pc \in {"unlink", "settled"} => Settled(c, a, a.pass, a.kind, a.attempt)
  /\ a.pc = "waiting" => a.kind = "ready" /\ Settled(c, a, a.pass, "ready", a.attempt)

(* The inductive invariant of the passes.                                  *)
PassInv(c, a) ==
  /\ PassShape(a) /\ SnapshotHolds(a) /\ BehindSettled(c, a)
  /\ ReadyHasRaw(c, a) /\ AckHasRaw(c, a) /\ PublicationAt(c, a)

(* No two outcomes, and no outcome and no draft, share a name.             *)
LEMMA FinalNames ==
  /\ \A p, q, k, l : Final(p, k) = Final(q, l) <=> p = q /\ k = l
  /\ \A p, q, k, l : Final(p, k) # Draft(q, l)
BY DEF Final, Draft

(* Whatever is there for good stays.                                       *)
Keeps(c, a, b) ==
  \A p \in Nat, kind \in {"raw", "ready"} : \A t :
    Settled(c, a, p, kind, t) => Settled(c, b, p, kind, t)

(* No outcome is taken away, nothing on the disk is lost.                  *)
Adds(a, b) ==
  /\ a.flushed \subseteq b.flushed
  /\ \A p \in Nat, kind \in Outcome : Final(p, kind) \in DOMAIN a.seen =>
       Holds(b.seen, p, kind, a.seen[Final(p, kind)])
  /\ \A p \in Nat, kind \in Outcome : Final(p, kind) \in DOMAIN a.kept =>
       Holds(b.kept, p, kind, a.kept[Final(p, kind)])

(* A step that only adds names keeps what was published.                   *)
LEMMA AddsKeeps ==
  ASSUME NEW c, NEW a, NEW b, Adds(a, b)
  PROVE  Keeps(c, a, b)
BY DEF Adds, Keeps, Settled, Holds, Outcome

(* A step that leaves the outcomes of other passes and kinds as they are.  *)
LEMMA AddsNothing ==
  ASSUME NEW c, NEW a, NEW b, Adds(a, b), SnapshotHolds(a),
         ReadyHasRaw(c, a), AckHasRaw(c, a),
         \A p \in Nat, kind \in Outcome :
           Final(p, kind) \in DOMAIN b.seen => Final(p, kind) \in DOMAIN a.seen,
         b.kept = a.kept \/ b.kept = b.seen
  PROVE  SnapshotHolds(b) /\ ReadyHasRaw(c, b) /\ AckHasRaw(c, b)
<1>1. Keeps(c, a, b)
  BY AddsKeeps
<1>2. SnapshotHolds(b)
  BY DEF SnapshotHolds, Adds, Holds
<1>3. ReadyHasRaw(c, b)
  <2> SUFFICES ASSUME NEW p \in Nat, Final(p, "ready") \in DOMAIN b.seen
               PROVE  \E t : /\ Holds(b.seen, p, "ready", Written(c, p, "ready", t))
                             /\ Written(c, p, "ready", t) \in b.flushed
                             /\ Settled(c, b, p, "raw", t)
    BY DEF ReadyHasRaw
  <2>1. PICK t : /\ Holds(a.seen, p, "ready", Written(c, p, "ready", t))
                 /\ Written(c, p, "ready", t) \in a.flushed
                 /\ Settled(c, a, p, "raw", t)
    BY DEF ReadyHasRaw, Outcome
  <2> QED
    BY <1>1, <2>1 DEF Adds, Holds, Outcome, Keeps
<1>4. AckHasRaw(c, b)
  <2> SUFFICES ASSUME NEW p \in Nat, Final(p, "ack") \in DOMAIN b.seen
               PROVE  \E t : /\ Settled(c, b, p, "raw", t)
                             /\ b.seen[Final(p, "ack")] # Torn =>
                                  /\ b.seen[Final(p, "ack")].raw = Written(c, p, "raw", t)
                                  /\ b.seen[Final(p, "ack")].good => p \notin c.bad
    BY DEF AckHasRaw
  <2>1. b.seen[Final(p, "ack")] = a.seen[Final(p, "ack")]
    BY DEF Adds, Holds, Outcome
  <2> QED
    BY <1>1, <2>1 DEF AckHasRaw, Outcome, Keeps
<1> QED
  BY <1>2, <1>3, <1>4

(* A step that keeps what was published keeps the passes behind it         *)
(* settled.                                                                *)
LEMMA KeepsPublication ==
  ASSUME NEW c, NEW a, NEW b, Keeps(c, a, b), BehindSettled(c, a),
         PassShape(a), b.attempt = a.attempt, b.pass = a.pass,
         b.pc = "done" => a.pc = "done"
  PROVE  BehindSettled(c, b)
BY DEF Keeps, BehindSettled, PassShape

-----------------------------------------------------------------------------

(* A step of publishing moves nothing but the publication.                 *)
LEMMA PublicationShape ==
  ASSUME NEW c, NEW a, PassShape(a), a.pc \in Publishing
  PROVE  LET b == Publication(c, a)
         IN /\ PassShape(b) /\ b.attempt = a.attempt /\ b.pass = a.pass
            /\ b.pc \in Publishing \cup {"waiting", "failed"}
            /\ b.csv = a.csv
BY DEF Publication, PassShape, PassFields, Publishing

(* A draft is written: no outcome is touched, as no draft is named like    *)
(* one.                                                                    *)
LEMMA WriteStep ==
  ASSUME NEW c, NEW a, PassInv(c, a), a.pc = "write"
  PROVE  PassInv(c, Publication(c, a))
<1> DEFINE b == Publication(c, a)
           draft == Draft(a.pass, a.kind)
           own == Written(c, a.pass, a.kind, a.attempt)
<1>1. b = [a EXCEPT !.pc = "sync", !.seen = Put(@, draft, own)]
  BY DEF Publication, PassContent, Written
<1>2. /\ b.pc = "sync" /\ b.kind = a.kind /\ b.kept = a.kept /\ b.flushed = a.flushed
      /\ b.seen = Put(a.seen, draft, own)
  BY <1>1 DEF PassInv, PassShape, PassFields
<1>3. /\ DOMAIN b.seen = DOMAIN a.seen \cup {draft}
      /\ b.seen[draft] = own
      /\ \A p, kind : Final(p, kind) \in DOMAIN a.seen =>
           b.seen[Final(p, kind)] = a.seen[Final(p, kind)]
  BY <1>2, FinalNames DEF Put
<1>4. PassShape(b) /\ b.attempt = a.attempt /\ b.pass = a.pass
  BY PublicationShape DEF PassInv, Publishing
<1>5. Adds(a, b)
  BY <1>2, <1>3 DEF Adds, Holds
<1>6. SnapshotHolds(b) /\ ReadyHasRaw(c, b) /\ AckHasRaw(c, b)
  BY <1>2, <1>3, <1>5, FinalNames, AddsNothing DEF PassInv
<1>7. BehindSettled(c, b)
  BY <1>2, <1>4, <1>5, AddsKeeps, KeepsPublication DEF PassInv
<1>8. PublicationAt(c, b)
  <2>1. b.kind = "ready" => Settled(c, b, b.pass, "raw", b.attempt)
    BY <1>2, <1>4, <1>5, AddsKeeps
       DEF PassInv, PublicationAt, Publishing, Keeps, PassShape
  <2> QED
    BY <1>2, <1>3, <1>4, <2>1 DEF PublicationAt
<1> QED
  BY <1>4, <1>6, <1>7, <1>8 DEF PassInv

(* A draft is flushed: what it holds can no longer be torn.                *)
LEMMA SyncStep ==
  ASSUME NEW c, NEW a, PassInv(c, a), a.pc = "sync"
  PROVE  PassInv(c, Publication(c, a))
<1> DEFINE b == Publication(c, a)
           own == Written(c, a.pass, a.kind, a.attempt)
<1>1. b = [a EXCEPT !.pc = "link", !.flushed = @ \cup {own}]
  BY DEF Publication, PassInv, PublicationAt
<1>2. /\ b.pc = "link" /\ b.kind = a.kind /\ b.kept = a.kept /\ b.seen = a.seen
      /\ b.flushed = a.flushed \cup {own}
  BY <1>1 DEF PassInv, PassShape, PassFields
<1>4. PassShape(b) /\ b.attempt = a.attempt /\ b.pass = a.pass
  BY PublicationShape DEF PassInv, Publishing
<1>5. Adds(a, b)
  BY <1>2 DEF Adds, Holds
<1>6. SnapshotHolds(b) /\ ReadyHasRaw(c, b) /\ AckHasRaw(c, b)
  BY <1>2, <1>5, AddsNothing DEF PassInv
<1>7. BehindSettled(c, b)
  BY <1>2, <1>4, <1>5, AddsKeeps, KeepsPublication DEF PassInv
<1>8. PublicationAt(c, b)
  <2>1. b.kind = "ready" => Settled(c, b, b.pass, "raw", b.attempt)
    BY <1>2, <1>4, <1>5, AddsKeeps
       DEF PassInv, PublicationAt, Publishing, Keeps, PassShape
  <2> QED
    BY <1>2, <1>4, <2>1 DEF PublicationAt, PassInv
<1> QED
  BY <1>4, <1>6, <1>7, <1>8 DEF PassInv

(* A name that is taken ends the attempt; else the outcome is there.       *)
LEMMA LinkStep ==
  ASSUME NEW c, NEW a, PassInv(c, a), a.pc = "link"
  PROVE  PassInv(c, Publication(c, a))
<1> DEFINE b == Publication(c, a)
           final == Final(a.pass, a.kind)
           own == Written(c, a.pass, a.kind, a.attempt)
<1>0. /\ PassShape(b) /\ b.attempt = a.attempt /\ b.pass = a.pass
      /\ a.pass \in Nat /\ a.kind \in {"raw", "ready"} /\ a.kind \in Outcome
  BY PublicationShape DEF PassInv, Publishing, PassShape, Outcome
<1>1. CASE final \in DOMAIN a.seen
  <2>1. b = [a EXCEPT !.pc = "failed"]
    BY <1>1 DEF Publication
  <2>2. /\ b.pc = "failed" /\ b.kind = a.kind /\ b.kept = a.kept /\ b.seen = a.seen
        /\ b.flushed = a.flushed
    BY <2>1 DEF PassInv, PassShape, PassFields
  <2>3. Adds(a, b)
    BY <2>2 DEF Adds, Holds
  <2>4. SnapshotHolds(b) /\ ReadyHasRaw(c, b) /\ AckHasRaw(c, b)
    BY <2>2, <2>3, AddsNothing DEF PassInv
  <2>5. BehindSettled(c, b)
    BY <1>0, <2>2, <2>3, AddsKeeps, KeepsPublication DEF PassInv
  <2> QED
    BY <1>0, <2>2, <2>4, <2>5 DEF PublicationAt, Publishing, PassInv
<1>2. CASE final \notin DOMAIN a.seen
  <2>1. b = [a EXCEPT !.pc = "settle", !.seen = Put(@, final, own)]
    BY <1>2 DEF Publication, PassInv, PublicationAt
  <2>2. /\ b.pc = "settle" /\ b.kind = a.kind /\ b.kept = a.kept
        /\ b.flushed = a.flushed
        /\ b.seen = Put(a.seen, final, own)
    BY <2>1 DEF PassInv, PassShape, PassFields
  <2>3. /\ DOMAIN b.seen = DOMAIN a.seen \cup {final}
        /\ b.seen[final] = own
        /\ \A n \in DOMAIN a.seen : b.seen[n] = a.seen[n]
    BY <1>2, <2>2 DEF Put
  <2>4. Adds(a, b)
    BY <2>2, <2>3 DEF Adds, Holds
  <2>5. Keeps(c, a, b)
    BY <2>4, AddsKeeps
  <2>6. SnapshotHolds(b)
    BY <2>2, <2>3 DEF SnapshotHolds, Holds, PassInv
  <2>7. ReadyHasRaw(c, b)
    <3> SUFFICES ASSUME NEW p \in Nat, Final(p, "ready") \in DOMAIN b.seen
                 PROVE  \E t : /\ Holds(b.seen, p, "ready", Written(c, p, "ready", t))
                               /\ Written(c, p, "ready", t) \in b.flushed
                               /\ Settled(c, b, p, "raw", t)
      BY DEF ReadyHasRaw
    <3>1. CASE Final(p, "ready") = final
      <4>1. p = a.pass /\ a.kind = "ready"
        BY <3>1, FinalNames
      <4>2. Settled(c, a, p, "raw", a.attempt) /\ own \in a.flushed
        BY <4>1 DEF PassInv, PublicationAt, Publishing
      <4> QED
        BY <2>2, <2>3, <2>5, <4>1, <4>2 DEF Holds, Keeps
    <3>2. CASE Final(p, "ready") # final
      <4>1. PICK t : /\ Holds(a.seen, p, "ready", Written(c, p, "ready", t))
                     /\ Written(c, p, "ready", t) \in a.flushed
                     /\ Settled(c, a, p, "raw", t)
        BY <2>3, <3>2 DEF PassInv, ReadyHasRaw
      <4> QED
        BY <2>2, <2>3, <2>5, <4>1 DEF Holds, Keeps
    <3> QED
      BY <3>1, <3>2
  <2>8. AckHasRaw(c, b)
    <3>1. \A p : Final(p, "ack") # final
      BY <1>0, FinalNames
    <3>2. \A p : Final(p, "ack") \in DOMAIN b.seen =>
            /\ Final(p, "ack") \in DOMAIN a.seen
            /\ b.seen[Final(p, "ack")] = a.seen[Final(p, "ack")]
      BY <2>3, <3>1
    <3> QED
      BY <2>5, <3>2 DEF PassInv, AckHasRaw, Keeps
  <2>9. BehindSettled(c, b)
    BY <1>0, <2>2, <2>5, KeepsPublication DEF PassInv
  <2>10. PublicationAt(c, b)
    <3>1. b.kind = "ready" => Settled(c, b, b.pass, "raw", b.attempt)
      BY <1>0, <2>2, <2>5 DEF PassInv, PublicationAt, Publishing, Keeps
    <3>2. own \in b.flushed /\ Holds(b.seen, b.pass, b.kind, own)
      BY <1>0, <2>2, <2>3 DEF PassInv, PublicationAt, Holds
    <3> QED
      BY <1>0, <2>2, <3>1, <3>2 DEF PublicationAt
  <2> QED
    BY <1>0, <2>6, <2>7, <2>8, <2>9, <2>10 DEF PassInv
<1> QED
  BY <1>1, <1>2

(* The directory is synced: what is seen is kept.                          *)
LEMMA SettleStep ==
  ASSUME NEW c, NEW a, PassInv(c, a), a.pc = "settle"
  PROVE  PassInv(c, Publication(c, a))
<1> DEFINE b == Publication(c, a)
<1>1. b = [a EXCEPT !.pc = "unlink", !.kept = a.seen]
  BY DEF Publication
<1>2. /\ b.pc = "unlink" /\ b.kind = a.kind /\ b.kept = a.seen /\ b.seen = a.seen
      /\ b.flushed = a.flushed
  BY <1>1 DEF PassInv, PassShape, PassFields
<1>3. PassShape(b) /\ b.attempt = a.attempt /\ b.pass = a.pass
  BY PublicationShape DEF PassInv, Publishing
<1>4. Adds(a, b)
  BY <1>2 DEF Adds, Holds, PassInv, SnapshotHolds
<1>5. SnapshotHolds(b) /\ ReadyHasRaw(c, b) /\ AckHasRaw(c, b)
  BY <1>2, <1>4, AddsNothing DEF PassInv
<1>6. BehindSettled(c, b)
  BY <1>2, <1>3, <1>4, AddsKeeps, KeepsPublication DEF PassInv
<1>7. PublicationAt(c, b)
  <2>1. b.kind = "ready" => Settled(c, b, b.pass, "raw", b.attempt)
    BY <1>2, <1>3, <1>4, AddsKeeps
       DEF PassInv, PublicationAt, Publishing, Keeps, PassShape
  <2>2. Settled(c, b, b.pass, b.kind, b.attempt)
    BY <1>2, <1>3 DEF PassInv, PublicationAt, Settled, Holds
  <2> QED
    BY <1>2, <1>3, <2>1, <2>2 DEF PublicationAt
<1> QED
  BY <1>3, <1>5, <1>6, <1>7 DEF PassInv

(* The draft's name goes, the outcome's stays.                             *)
LEMMA UnlinkStep ==
  ASSUME NEW c, NEW a, PassInv(c, a), a.pc = "unlink"
  PROVE  PassInv(c, Publication(c, a))
<1> DEFINE b == Publication(c, a)
           draft == Draft(a.pass, a.kind)
<1>1. b = [a EXCEPT !.pc = "settled", !.seen = Restrict(@, DOMAIN @ \ {draft})]
  BY DEF Publication
<1>2. /\ b.pc = "settled" /\ b.kind = a.kind /\ b.kept = a.kept
      /\ b.seen = Restrict(a.seen, DOMAIN a.seen \ {draft})
      /\ b.flushed = a.flushed
  BY <1>1 DEF PassInv, PassShape, PassFields
<1>3. /\ DOMAIN b.seen = DOMAIN a.seen \ {draft}
      /\ \A n \in DOMAIN b.seen : b.seen[n] = a.seen[n]
      /\ \A p, kind : Final(p, kind) # draft
  BY <1>2, FinalNames DEF Restrict
<1>4. PassShape(b) /\ b.attempt = a.attempt /\ b.pass = a.pass
  BY PublicationShape DEF PassInv, Publishing
<1>5. Adds(a, b)
  BY <1>2, <1>3 DEF Adds, Holds
<1>6. SnapshotHolds(b) /\ ReadyHasRaw(c, b) /\ AckHasRaw(c, b)
  BY <1>2, <1>3, <1>5, AddsNothing DEF PassInv
<1>7. BehindSettled(c, b)
  BY <1>2, <1>4, <1>5, AddsKeeps, KeepsPublication DEF PassInv
<1>8. PublicationAt(c, b)
  <2>1. b.kind = "ready" => Settled(c, b, b.pass, "raw", b.attempt)
    BY <1>2, <1>4, <1>5, AddsKeeps
       DEF PassInv, PublicationAt, Publishing, Keeps, PassShape
  <2>2. Settled(c, b, b.pass, b.kind, b.attempt)
    BY <1>2, <1>4, <1>5, AddsKeeps
       DEF PassInv, PublicationAt, Keeps, PassShape
  <2> QED
    BY <1>2, <1>4, <2>1, <2>2 DEF PublicationAt
<1> QED
  BY <1>4, <1>6, <1>7, <1>8 DEF PassInv

(* After the results comes the ready record, after it the wait.            *)
LEMMA SettledStep ==
  ASSUME NEW c, NEW a, PassInv(c, a), a.pc = "settled"
  PROVE  PassInv(c, Publication(c, a))
<1> DEFINE b == Publication(c, a)
<1>1. b = [a EXCEPT !.pc = IF a.kind = "raw" THEN "write" ELSE "waiting",
                    !.kind = "ready", !.kept = a.seen]
  BY DEF Publication
<1>2. /\ b.pc = IF a.kind = "raw" THEN "write" ELSE "waiting"
      /\ b.kind = "ready" /\ b.kept = a.seen /\ b.seen = a.seen
      /\ b.flushed = a.flushed
  BY <1>1 DEF PassInv, PassShape, PassFields
<1>3. PassShape(b) /\ b.attempt = a.attempt /\ b.pass = a.pass
  BY PublicationShape DEF PassInv, Publishing
<1>4. Adds(a, b)
  BY <1>2 DEF Adds, Holds, PassInv, SnapshotHolds
<1>5. SnapshotHolds(b) /\ ReadyHasRaw(c, b) /\ AckHasRaw(c, b)
  BY <1>2, <1>4, AddsNothing DEF PassInv
<1>6. BehindSettled(c, b)
  BY <1>2, <1>3, <1>4, AddsKeeps, KeepsPublication DEF PassInv
<1>7. PublicationAt(c, b)
  <2>1. Settled(c, a, a.pass, "raw", a.attempt)
    BY DEF PassInv, PublicationAt, Publishing, PassShape
  <2>2. a.kind = "ready" => Settled(c, a, a.pass, "ready", a.attempt)
    BY DEF PassInv, PublicationAt
  <2>3. /\ Settled(c, b, b.pass, "raw", b.attempt)
        /\ a.kind = "ready" => Settled(c, b, b.pass, "ready", b.attempt)
    BY <1>3, <1>4, <2>1, <2>2, AddsKeeps DEF Keeps, PassShape, PassInv
  <2> QED
    BY <1>2, <2>3 DEF PublicationAt, PassInv, PassShape
<1> QED
  BY <1>3, <1>5, <1>6, <1>7 DEF PassInv

(* Every step of publishing preserves the invariant.                       *)
LEMMA PublicationStep ==
  ASSUME NEW c, NEW a, PassInv(c, a), a.pc \in Publishing
  PROVE  PassInv(c, Publication(c, a))
BY WriteStep, SyncStep, LinkStep, SettleStep, UnlinkStep, SettledStep
   DEF Publishing

-----------------------------------------------------------------------------

(* A step of pc, kind and pass alone: nothing is published.                *)
LEMMA PositionStep ==
  ASSUME NEW c, NEW a, NEW b, PassInv(c, a), PassShape(b),
         b.seen = a.seen, b.kept = a.kept, b.flushed = a.flushed,
         BehindSettled(c, b), PublicationAt(c, b)
  PROVE  PassInv(c, b)
<1>1. Adds(a, b)
  BY DEF Adds, Holds
<1> QED
  BY <1>1, AddsNothing DEF PassInv

(* The passes are timed before the first name is written.                  *)
LEMMA TimingStep ==
  ASSUME NEW c, NEW a, PassInv(c, a), a.pc = "timing"
  PROVE  PassInv(c, PassTimed(a))
<1> DEFINE b == PassTimed(a)
<1>1. /\ b.pc \in {"write", "failed"} /\ b.kind = "raw" /\ b.pass = a.pass /\ b.attempt = a.attempt
      /\ b.seen = a.seen /\ b.kept = a.kept /\ b.flushed = a.flushed
      /\ PassShape(b)
  BY DEF PassTimed, PassInv, PassShape, PassFields
<1>2. BehindSettled(c, b)
  BY <1>1 DEF BehindSettled, PassInv, Settled
<1>3. PublicationAt(c, b)
  BY <1>1 DEF PublicationAt
<1> QED
  BY <1>1, <1>2, <1>3, PositionStep

(* An attempt may fail wherever it is, and what is published stays.        *)
LEMMA FailedStep ==
  ASSUME NEW c, NEW a, PassInv(c, a), a.pc # "done"
  PROVE  PassInv(c, [a EXCEPT !.pc = "failed"])
<1> DEFINE b == [a EXCEPT !.pc = "failed"]
<1>1. /\ b.pc = "failed" /\ b.kind = a.kind /\ b.pass = a.pass
      /\ b.attempt = a.attempt
      /\ b.seen = a.seen /\ b.kept = a.kept /\ b.flushed = a.flushed
      /\ PassShape(b)
  BY DEF PassInv, PassShape, PassFields
<1>2. BehindSettled(c, b)
  BY <1>1 DEF BehindSettled, PassInv, Settled
<1>3. PublicationAt(c, b)
  BY <1>1 DEF PublicationAt, Publishing
<1> QED
  BY <1>1, <1>2, <1>3, PositionStep

(* The release that lets the program go on names an acknowledgement of the *)
(* results it has itself published; these are right.                       *)
LEMMA ReleasedIsRight ==
  ASSUME NEW c, NEW a, PassInv(c, a), a.pc = "waiting", BarrierReleased(c, a)
  PROVE  /\ a.pass \notin c.bad
         /\ \A kind \in {"raw", "ready"} : Settled(c, a, a.pass, kind, a.attempt)
<1> DEFINE ack == a.seen[Final(a.pass, "ack")]
<1>1. /\ Final(a.pass, "ack") \in DOMAIN a.seen
      /\ ack.what = "ack" /\ ack.good
  BY DEF BarrierReleased
<1>2. ack # Torn
  BY <1>1 DEF Torn
<1>3. a.pass \notin c.bad
  BY <1>1, <1>2 DEF PassInv, AckHasRaw, PassShape
<1> QED
  BY <1>3 DEF PassInv, PublicationAt

(* A released pass is left behind for the next or for the end.             *)
LEMMA ReleasedStep ==
  ASSUME NEW c, NEW a, PassInv(c, a), a.pc = "waiting", BarrierReleased(c, a),
         NEW b, b = IF a.pass = PassRuns THEN [a EXCEPT !.pc = "done"]
                    ELSE [a EXCEPT !.pc = "timing", !.pass = @ + 1]
  PROVE  PassInv(c, b)
<1>0. PassRuns \in Nat \ {0}
  BY PassAssumption
<1>1. /\ b.pc \in {"done", "timing"} /\ (b.pc = "done" <=> a.pass = PassRuns)
      /\ b.pass = IF a.pass = PassRuns THEN a.pass ELSE a.pass + 1
      /\ b.attempt = a.attempt
      /\ b.seen = a.seen /\ b.kept = a.kept /\ b.flushed = a.flushed
      /\ PassShape(b)
  BY <1>0 DEF PassInv, PassShape, PassFields
<1>2. \A p, kind : Settled(c, a, p, kind, a.attempt)
                    => Settled(c, b, p, kind, b.attempt)
  BY <1>1 DEF Settled
<1>3. BehindSettled(c, b)
  <2> SUFFICES ASSUME NEW p \in 1 .. PassRuns, p < b.pass \/ b.pc = "done"
               PROVE  /\ p \notin c.bad
                      /\ \A kind \in {"raw", "ready"} : Settled(c, b, p, kind, b.attempt)
    BY DEF BehindSettled
  <2>1. p < a.pass \/ p = a.pass
    BY <1>0, <1>1 DEF PassInv, PassShape
  <2>2. CASE p < a.pass
    BY <1>2, <2>2 DEF PassInv, BehindSettled
  <2>3. CASE p = a.pass
    BY <1>2, <2>3, ReleasedIsRight
  <2> QED
    BY <2>1, <2>2, <2>3
<1>4. PublicationAt(c, b)
  BY <1>1 DEF PublicationAt, Publishing
<1> QED
  BY <1>1, <1>3, <1>4, PositionStep

(* Every step of the program preserves the invariant.                      *)
LEMMA ProgramStep ==
  ASSUME NEW c, NEW a, PassInv(c, a), NEW b \in PassStep(c, a)
  PROVE  PassInv(c, b)
<1>1. CASE a.pc = "timing"
  <2>1. b = PassTimed(a)
    BY <1>1 DEF PassStep, Publishing
  <2> QED
    BY <1>1, <2>1, TimingStep
<1>2. CASE a.pc \in Publishing
  BY <1>2, PublicationStep DEF PassStep, Publishing
<1>3. CASE a.pc = "waiting" /\ Final(a.pass, "release") \in DOMAIN a.seen
  <2>1. b = IF ~BarrierReleased(c, a) THEN [a EXCEPT !.pc = "failed"]
            ELSE IF a.pass = PassRuns THEN [a EXCEPT !.pc = "done"]
            ELSE [a EXCEPT !.pc = "timing", !.pass = @ + 1]
    BY <1>3 DEF PassStep, Publishing
  <2> QED
    BY <1>3, <2>1, FailedStep, ReleasedStep
<1> QED
  BY <1>1, <1>2, <1>3 DEF PassStep

(* An attempt that ends by itself leaves all as it is.                     *)
LEMMA EndStep ==
  ASSUME NEW c, NEW a, PassInv(c, a), NEW b \in PassEnds(a)
  PROVE  PassInv(c, b)
<1>1. a.pc # "done" /\ b = [a EXCEPT !.pc = "failed"]
  BY DEF PassEnds
<1> QED
  BY <1>1, FailedStep

(* A later attempt starts over; it is ahead of nothing that was published. *)
LEMMA AttemptStep ==
  ASSUME NEW c, NEW a, NEW attempt, DOMAIN a = PassFields,
         a.kind \in {"raw", "ready"}, SnapshotHolds(a), ReadyHasRaw(c, a),
         AckHasRaw(c, a)
  PROVE  PassInv(c, Attempted(c, attempt, a))
<1> DEFINE b == Attempted(c, attempt, a)
<1>0. PassRuns \in Nat \ {0}
  BY PassAssumption
<1>1. /\ b.pc \in {"failed", "timing"} /\ b.pass = 1 /\ b.kind = a.kind
      /\ b.seen = a.seen /\ b.kept = a.kept /\ b.flushed = a.flushed
      /\ DOMAIN b = PassFields
  BY DEF Attempted, PassFields
<1>2. Adds(a, b)
  BY <1>1 DEF Adds, Holds
<1>3. SnapshotHolds(b) /\ ReadyHasRaw(c, b) /\ AckHasRaw(c, b)
  BY <1>1, <1>2, AddsNothing
<1>4. BehindSettled(c, b) /\ PublicationAt(c, b) /\ PassShape(b)
  BY <1>0, <1>1 DEF BehindSettled, PublicationAt, PassShape, Publishing
<1> QED
  BY <1>3, <1>4 DEF PassInv

(* The first attempt finds an empty directory.                             *)
LEMMA StartHasPassInv ==
  ASSUME NEW c
  PROVE  PassInv(c, BarrierStart(c))
<1> DEFINE a == [pc |-> "failed", pass |-> 1, kind |-> "raw", attempt |-> 0,
                 seen |-> <<>>, kept |-> <<>>, flushed |-> {}, csv |-> {}]
<1>1. DOMAIN a.seen = {} /\ DOMAIN a.kept = {}
  OBVIOUS
<1>2. SnapshotHolds(a) /\ ReadyHasRaw(c, a) /\ AckHasRaw(c, a)
  BY <1>1 DEF SnapshotHolds, ReadyHasRaw, AckHasRaw
<1>3. DOMAIN a = PassFields /\ a.kind \in {"raw", "ready"}
  BY DEF PassFields
<1> QED
  BY <1>2, <1>3, AttemptStep DEF BarrierStart

(* A new attempt starts over with what the last one left.                  *)
LEMMA AgainStep ==
  ASSUME NEW c, NEW a, PassInv(c, a), NEW b \in AttemptAgain(c, a)
  PROVE  PassInv(c, b)
BY AttemptStep DEF AttemptAgain, PassInv, PassShape

-----------------------------------------------------------------------------

(* State b is a with x under a name that is no outcome's: what a satisfies *)
(* of the outcomes, b does.                                                *)
Added(c, a, b, p, kind, x) ==
  /\ PassShape(b) /\ Adds(a, b) /\ Keeps(c, a, b)
  /\ b.pc = a.pc /\ b.pass = a.pass /\ b.kind = a.kind
  /\ b.attempt = a.attempt /\ b.kept = a.kept /\ b.flushed = a.flushed
  /\ DOMAIN b.seen = DOMAIN a.seen \cup {Final(p, kind)}
  /\ b.seen[Final(p, kind)] = x
  /\ \A n \in DOMAIN b.seen : n # Final(p, kind) => b.seen[n] = a.seen[n]
  /\ SnapshotHolds(b) /\ ReadyHasRaw(c, b) /\ BehindSettled(c, b)
  /\ PublicationAt(c, b)

(* A new name in the directory, which is no result of the program.         *)
LEMMA SupervisorAdds ==
  ASSUME NEW c, NEW a, PassInv(c, a), NEW p \in Nat, NEW kind \in {"ack", "release"},
         NEW x, NEW b, b = [a EXCEPT !.seen = Put(@, Final(p, kind), x)],
         kind = "ack" => Final(p, "ack") \notin DOMAIN a.seen
  PROVE  Added(c, a, b, p, kind, x)
<1> USE DEF Added
<1>1. /\ b.pc = a.pc /\ b.kind = a.kind /\ b.pass = a.pass /\ b.attempt = a.attempt
      /\ b.kept = a.kept /\ b.flushed = a.flushed
      /\ b.seen = Put(a.seen, Final(p, kind), x)
      /\ PassShape(b)
  BY DEF PassInv, PassShape, PassFields
<1>2. /\ DOMAIN b.seen = DOMAIN a.seen \cup {Final(p, kind)}
      /\ b.seen[Final(p, kind)] = x
      /\ \A n \in DOMAIN b.seen : n # Final(p, kind) => b.seen[n] = a.seen[n]
  BY <1>1 DEF Put
<1>3. \A q \in Nat, k \in Outcome : Final(q, k) \in DOMAIN a.seen =>
        Final(q, k) \in DOMAIN b.seen /\ b.seen[Final(q, k)] = a.seen[Final(q, k)]
  BY <1>2, FinalNames DEF Outcome
<1>4. Adds(a, b) /\ SnapshotHolds(b)
  BY <1>1, <1>3 DEF Adds, Holds, SnapshotHolds, PassInv
<1>5. Keeps(c, a, b)
  BY <1>4, AddsKeeps
<1>6. ReadyHasRaw(c, b)
  <2> SUFFICES ASSUME NEW q \in Nat, Final(q, "ready") \in DOMAIN b.seen
               PROVE  \E t : /\ Holds(b.seen, q, "ready", Written(c, q, "ready", t))
                             /\ Written(c, q, "ready", t) \in b.flushed
                             /\ Settled(c, b, q, "raw", t)
    BY DEF ReadyHasRaw
  <2>1. Final(q, "ready") \in DOMAIN a.seen
    BY <1>2, FinalNames
  <2>2. PICK t : /\ Holds(a.seen, q, "ready", Written(c, q, "ready", t))
                 /\ Written(c, q, "ready", t) \in a.flushed
                 /\ Settled(c, a, q, "raw", t)
    BY <2>1 DEF PassInv, ReadyHasRaw
  <2> QED
    BY <1>1, <1>3, <1>5, <2>1, <2>2 DEF Holds, Outcome, Keeps
<1>7. BehindSettled(c, b)
  BY <1>1, <1>5, KeepsPublication DEF PassInv
<1>8. PublicationAt(c, b)
  <2>1. \A k \in {"raw", "ready"} :
          Settled(c, a, a.pass, k, a.attempt) => Settled(c, b, b.pass, k, b.attempt)
    BY <1>1, <1>5 DEF Keeps, PassInv, PassShape
  <2>2. Draft(a.pass, a.kind) # Final(p, kind)
    BY FinalNames
  <2>3. Holds(a.seen, a.pass, a.kind, Written(c, a.pass, a.kind, a.attempt)) =>
          Holds(b.seen, a.pass, a.kind, Written(c, a.pass, a.kind, a.attempt))
    BY <1>3 DEF Holds, PassInv, PassShape, Outcome
  <2>4. a.kind \in {"raw", "ready"}
    BY DEF PassInv, PassShape
  <2> QED
    BY <1>1, <1>2, <2>1, <2>2, <2>3, <2>4 DEF PublicationAt, PassInv
<1> QED
  BY <1>1, <1>2, <1>4, <1>5, <1>6, <1>7, <1>8

(* The supervisor acknowledges what it sees, with the results it has read. *)
LEMMA AcknowledgeStep ==
  ASSUME NEW c, NEW a, PassInv(c, a), NEW b \in Acknowledge(c, a)
  PROVE  PassInv(c, b)
<1>1. PICK s \in 1 .. a.attempt, p \in 1 .. PassRuns :
        /\ {Final(p, "raw"), Final(p, "ready")} \subseteq DOMAIN a.seen
        /\ Final(p, "ack") \notin DOMAIN a.seen
        /\ b = [a EXCEPT !.seen = Put(@, Final(p, "ack"),
                  AckOf(c, s, @[Final(p, "raw")], @[Final(p, "ready")], p))]
  BY DEF Acknowledge
<1> DEFINE x == AckOf(c, s, a.seen[Final(p, "raw")], a.seen[Final(p, "ready")], p)
<1>2. /\ b = [a EXCEPT !.seen = Put(@, Final(p, "ack"), x)]
      /\ p \in Nat /\ Final(p, "ack") \notin DOMAIN a.seen
  BY <1>1
<1> HIDE DEF x
<1>3. /\ Keeps(c, a, b) /\ PassShape(b)
      /\ DOMAIN b.seen = DOMAIN a.seen \cup {Final(p, "ack")}
      /\ b.seen[Final(p, "ack")] = x
      /\ \A n \in DOMAIN b.seen : n # Final(p, "ack") => b.seen[n] = a.seen[n]
      /\ SnapshotHolds(b) /\ ReadyHasRaw(c, b) /\ BehindSettled(c, b)
      /\ PublicationAt(c, b)
  <2>1. Added(c, a, b, p, "ack", x)
    BY <1>2, SupervisorAdds
  <2> QED
    BY <2>1 DEF Added
<1>4. AckHasRaw(c, b)
  <2> SUFFICES ASSUME NEW q \in Nat, Final(q, "ack") \in DOMAIN b.seen
               PROVE  \E t : /\ Settled(c, b, q, "raw", t)
                             /\ b.seen[Final(q, "ack")] # Torn =>
                                  /\ b.seen[Final(q, "ack")].raw = Written(c, q, "raw", t)
                                  /\ b.seen[Final(q, "ack")].good => q \notin c.bad
    BY DEF AckHasRaw
  <2>1. CASE q = p
    <3>1. PICK t : Settled(c, a, p, "raw", t)
      BY <1>1, <1>2 DEF PassInv, ReadyHasRaw
    <3>2. a.seen[Final(p, "raw")] = Written(c, p, "raw", t)
      BY <3>1 DEF Settled, Holds
    <3>3. Written(c, p, "raw", t).good = (p \notin c.bad)
      BY DEF Written
    <3>4. /\ x.raw = Written(c, p, "raw", t)
          /\ x.good => p \notin c.bad
      BY <3>2, <3>3 DEF AckOf, x
    <3> QED
      BY <1>2, <1>3, <2>1, <3>1, <3>4 DEF Keeps
  <2>2. CASE q # p
    <3>1. Final(q, "ack") # Final(p, "ack")
      BY <2>2, FinalNames
    <3>2. /\ Final(q, "ack") \in DOMAIN a.seen
          /\ b.seen[Final(q, "ack")] = a.seen[Final(q, "ack")]
      BY <1>3, <3>1
    <3> QED
      BY <1>3, <3>2 DEF PassInv, AckHasRaw, Keeps
  <2> QED
    BY <2>1, <2>2
<1> QED
  BY <1>3, <1>4 DEF PassInv

(* The supervisor's release adds a name and changes no other.              *)
LEMMA ReleaseStep ==
  ASSUME NEW c, NEW a, PassInv(c, a), NEW b \in ReleasePass(c, a)
  PROVE  PassInv(c, b)
<1> DEFINE With(p, r) == [a EXCEPT !.seen = Put(@, Final(p, "release"), r)]
<1>1. \E p \in 1 .. PassRuns :
        b = With(p, Torn) \/ \E s \in 1 .. a.attempt : b = With(p, Released(c, a, p, s))
  BY DEF ReleasePass
<1>2. PICK p, x : p \in 1 .. PassRuns /\ b = With(p, x)
  BY <1>1
<1>3. /\ Keeps(c, a, b) /\ PassShape(b)
      /\ DOMAIN b.seen = DOMAIN a.seen \cup {Final(p, "release")}
      /\ \A n \in DOMAIN b.seen : n # Final(p, "release") => b.seen[n] = a.seen[n]
      /\ SnapshotHolds(b) /\ ReadyHasRaw(c, b) /\ BehindSettled(c, b)
      /\ PublicationAt(c, b)
  <2>1. Added(c, a, b, p, "release", x)
    BY <1>2, SupervisorAdds
  <2> QED
    BY <2>1 DEF Added
<1>4. \A q : Final(q, "ack") # Final(p, "release")
  BY FinalNames
<1>5. AckHasRaw(c, b)
  BY <1>3, <1>4 DEF PassInv, AckHasRaw, Keeps
<1> QED
  BY <1>3, <1>5 DEF PassInv

-----------------------------------------------------------------------------
(* The machine.                                                            *)

(* A name that is the same in both states survives; a crash tears only     *)
(* what was not on the disk, and shows no name that was not seen or kept.  *)
LEMMA CrashLeaves ==
  ASSUME NEW a, DOMAIN a = PassFields, NEW b \in CrashMachine(a)
  PROVE  /\ b.pc = "failed" /\ b.kept = b.seen
         /\ b.pass = a.pass /\ b.kind = a.kind /\ b.attempt = a.attempt
         /\ b.flushed = a.flushed /\ DOMAIN b = PassFields
         /\ DOMAIN b.seen \subseteq DOMAIN a.seen \cup DOMAIN a.kept
         /\ \A n \in DOMAIN b.seen :
              \/ /\ b.seen[n] = Torn
                 /\ \/ n \in DOMAIN a.seen /\ a.seen[n] \notin a.flushed
                    \/ n \in DOMAIN a.kept /\ a.kept[n] \notin a.flushed
              \/ n \in DOMAIN a.seen /\ b.seen[n] = a.seen[n]
              \/ n \in DOMAIN a.kept /\ b.seen[n] = a.kept[n]
         /\ \A n \in DOMAIN a.seen \cap DOMAIN a.kept :
              a.seen[n] = a.kept[n] =>
                /\ n \in DOMAIN b.seen
                /\ a.seen[n] \in a.flushed => b.seen[n] = a.seen[n]
<1> DEFINE Unsynced(d) == {n \in DOMAIN d : d[n] \notin a.flushed}
           settled == {n \in DOMAIN a.seen \cap DOMAIN a.kept : a.seen[n] = a.kept[n]}
           unsettled == (DOMAIN a.seen \cup DOMAIN a.kept) \ settled
           remains == UNION {{Tear(Changed(a, new), torn) :
                                torn \in SUBSET Unsynced(Changed(a, new))} :
                               new \in SUBSET unsettled}
<1>1. PICK left \in remains, csv \in SUBSET a.csv : b = Fallen(a, left, csv)
  BY DEF CrashMachine
<1>2. PICK new \in SUBSET unsettled :
        left \in {Tear(Changed(a, new), torn) :
                    torn \in SUBSET Unsynced(Changed(a, new))}
  BY <1>1
<1>3. PICK torn \in SUBSET Unsynced(Changed(a, new)) :
        left = Tear(Changed(a, new), torn)
  BY <1>2
<1>4. /\ b.pc = "failed" /\ b.kept = left /\ b.seen = left
      /\ b.pass = a.pass /\ b.kind = a.kind /\ b.attempt = a.attempt
      /\ b.flushed = a.flushed /\ DOMAIN b = PassFields
  BY <1>1 DEF PassFields, Fallen
<1>5. /\ DOMAIN left = DOMAIN Changed(a, new)
      /\ \A n \in DOMAIN left :
           left[n] = IF n \in torn THEN Torn ELSE Changed(a, new)[n]
      /\ \A n \in torn : n \in DOMAIN left /\ Changed(a, new)[n] \notin a.flushed
  BY <1>3 DEF Tear
<1>6. /\ \A n \in DOMAIN Changed(a, new) :
           \/ n \in DOMAIN a.seen /\ Changed(a, new)[n] = a.seen[n]
           \/ n \in DOMAIN a.kept /\ Changed(a, new)[n] = a.kept[n]
      /\ DOMAIN Changed(a, new) \subseteq DOMAIN a.seen \cup DOMAIN a.kept
      /\ \A n \in DOMAIN a.seen \cap DOMAIN a.kept : a.seen[n] = a.kept[n] =>
           n \in DOMAIN Changed(a, new) /\ Changed(a, new)[n] = a.seen[n]
  BY DEF Changed
<1> HIDE DEF remains, unsettled, settled
<1>7. \A n \in DOMAIN left :
        \/ /\ left[n] = Torn
           /\ \/ n \in DOMAIN a.seen /\ a.seen[n] \notin a.flushed
              \/ n \in DOMAIN a.kept /\ a.kept[n] \notin a.flushed
        \/ n \in DOMAIN a.seen /\ left[n] = a.seen[n]
        \/ n \in DOMAIN a.kept /\ left[n] = a.kept[n]
  BY <1>5, <1>6
<1>8. \A n \in DOMAIN a.seen \cap DOMAIN a.kept : a.seen[n] = a.kept[n] =>
        /\ n \in DOMAIN left
        /\ a.seen[n] \in a.flushed => left[n] = a.seen[n]
  BY <1>5, <1>6
<1> QED
  BY <1>4, <1>5, <1>6, <1>7, <1>8

(* A crash preserves the invariant: what an outcome rests on was flushed   *)
(* before the outcome had its name.                                        *)
LEMMA CrashStep ==
  ASSUME NEW c, NEW a, PassInv(c, a), a.pc # "done", NEW b \in CrashMachine(a)
  PROVE  PassInv(c, b)
<1>1. /\ b.pc = "failed" /\ b.kept = b.seen
      /\ b.pass = a.pass /\ b.kind = a.kind /\ b.attempt = a.attempt
      /\ b.flushed = a.flushed /\ PassShape(b)
  BY CrashLeaves DEF PassInv, PassShape
<1>2. Keeps(c, a, b)
  <2> SUFFICES ASSUME NEW p \in Nat, NEW kind \in {"raw", "ready"}, NEW t,
                      Settled(c, a, p, kind, t)
               PROVE  Settled(c, b, p, kind, t)
    BY DEF Keeps
  <2> DEFINE n == Final(p, kind)
  <2>1. /\ n \in DOMAIN a.seen \cap DOMAIN a.kept
        /\ a.seen[n] = Written(c, p, kind, t) /\ a.kept[n] = Written(c, p, kind, t)
        /\ Written(c, p, kind, t) \in a.flushed
    BY DEF Settled, Holds
  <2>2. n \in DOMAIN b.seen /\ b.seen[n] = Written(c, p, kind, t)
    BY <2>1, CrashLeaves DEF PassInv, PassShape
  <2> QED
    BY <1>1, <2>1, <2>2 DEF Settled, Holds
<1>3. \A p \in Nat, kind \in Outcome : Final(p, kind) \in DOMAIN b.seen =>
        /\ Final(p, kind) \in DOMAIN a.seen
        /\ b.seen[Final(p, kind)] \in {Torn, a.seen[Final(p, kind)]}
        /\ a.seen[Final(p, kind)] \in a.flushed =>
             b.seen[Final(p, kind)] = a.seen[Final(p, kind)]
  BY CrashLeaves DEF PassInv, PassShape, SnapshotHolds, Holds
<1>4. SnapshotHolds(b)
  BY <1>1 DEF SnapshotHolds, Holds
<1>5. ReadyHasRaw(c, b)
  <2> SUFFICES ASSUME NEW p \in Nat, Final(p, "ready") \in DOMAIN b.seen
               PROVE  \E t : /\ Holds(b.seen, p, "ready", Written(c, p, "ready", t))
                             /\ Written(c, p, "ready", t) \in b.flushed
                             /\ Settled(c, b, p, "raw", t)
    BY DEF ReadyHasRaw
  <2>1. PICK t : /\ Holds(a.seen, p, "ready", Written(c, p, "ready", t))
                 /\ Written(c, p, "ready", t) \in a.flushed
                 /\ Settled(c, a, p, "raw", t)
    BY <1>3 DEF PassInv, ReadyHasRaw, Outcome
  <2>2. b.seen[Final(p, "ready")] = a.seen[Final(p, "ready")]
    BY <1>3, <2>1 DEF Holds, Outcome
  <2>3. /\ Holds(b.seen, p, "ready", Written(c, p, "ready", t))
        /\ Written(c, p, "ready", t) \in b.flushed
        /\ Settled(c, b, p, "raw", t)
    BY <1>1, <1>2, <2>1, <2>2 DEF Keeps, Holds
  <2> QED
    BY <2>3
<1>6. AckHasRaw(c, b)
  <2> SUFFICES ASSUME NEW p \in Nat, Final(p, "ack") \in DOMAIN b.seen
               PROVE  \E t : /\ Settled(c, b, p, "raw", t)
                             /\ b.seen[Final(p, "ack")] # Torn =>
                                  /\ b.seen[Final(p, "ack")].raw = Written(c, p, "raw", t)
                                  /\ b.seen[Final(p, "ack")].good => p \notin c.bad
    BY DEF AckHasRaw
  <2>1. /\ Final(p, "ack") \in DOMAIN a.seen
        /\ b.seen[Final(p, "ack")] \in {Torn, a.seen[Final(p, "ack")]}
    BY <1>3 DEF Outcome
  <2> QED
    BY <1>2, <2>1 DEF PassInv, AckHasRaw, Keeps
<1>7. BehindSettled(c, b)
  BY <1>1, <1>2, KeepsPublication DEF PassInv
<1>8. PublicationAt(c, b)
  BY <1>1 DEF PublicationAt, Publishing
<1> QED
  BY <1>1, <1>4, <1>5, <1>6, <1>7, <1>8 DEF PassInv

-----------------------------------------------------------------------------
(* The kernel and its call are chosen once.                                *)
LEMMA StepsOfKernels ==
  ASSUME Next
  PROVE  /\ UNCHANGED <<kernel, call>>
         /\ kernel = "passes" =>
              \/ StartPasses \/ StepPass \/ EndPasses \/ StartAgain
              \/ SupervisePass \/ Crash
         /\ kernel = "provider" => StartProvider \/ RunStage \/ Release
         /\ kernel = "ordered" => CallRanges
         /\ kernel = "block" => OpenResident \/ OpenQueries \/ TimeBlock
         /\ kernel = "tops" => CallTops
         /\ kernel = "pair" => CallPair
<1>1. CallPair => kernel = "pair" /\ UNCHANGED <<kernel, call>>
  BY DEF CallPair
<1>2. CallTops => kernel = "tops" /\ UNCHANGED <<kernel, call>>
  BY DEF CallTops
<1>3. CallCodec => kernel = "codec" /\ UNCHANGED <<kernel, call>>
  BY DEF CallCodec
<1>4. OpenCompositors => kernel = "compositor" /\ UNCHANGED <<kernel, call>>
  BY DEF OpenCompositors
<1>5. Compose => kernel = "compositor" /\ UNCHANGED <<kernel, call>>
  BY DEF Compose
<1>6. LoadWorkloads => kernel = "layout" /\ UNCHANGED <<kernel, call>>
  BY DEF LoadWorkloads
<1>7. SelectStaged => kernel = "layout" /\ UNCHANGED <<kernel, call>>
  BY DEF SelectStaged
<1>8. Improve => kernel = "layout" /\ UNCHANGED <<kernel, call>>
  BY DEF Improve
<1>9. Settle => kernel = "layout" /\ UNCHANGED <<kernel, call>>
  BY DEF Settle
<1>10. TimeFamily => kernel = "layout" /\ UNCHANGED <<kernel, call>>
  BY DEF TimeFamily
<1>11. ValidateRun => kernel = "layout" /\ UNCHANGED <<kernel, call>>
  BY DEF ValidateRun
<1>12. CallChecks => kernel = "checks" /\ UNCHANGED <<kernel, call>>
  BY DEF CallChecks
<1>13. CallRanges => kernel = "ordered" /\ UNCHANGED <<kernel, call>>
  BY DEF CallRanges
<1>14. StartProvider => kernel = "provider" /\ UNCHANGED <<kernel, call>>
  BY DEF StartProvider
<1>15. RunStage => kernel = "provider" /\ UNCHANGED <<kernel, call>>
  BY DEF RunStage
<1>16. Release => kernel = "provider" /\ UNCHANGED <<kernel, call>>
  BY DEF Release
<1>17. StartPasses => kernel = "passes" /\ UNCHANGED <<kernel, call>>
  BY DEF StartPasses
<1>18. StepPass => kernel = "passes" /\ UNCHANGED <<kernel, call>>
  BY DEF StepPass
<1>19. EndPasses => kernel = "passes" /\ UNCHANGED <<kernel, call>>
  BY DEF EndPasses
<1>20. StartAgain => kernel = "passes" /\ UNCHANGED <<kernel, call>>
  BY DEF StartAgain
<1>21. SupervisePass => kernel = "passes" /\ UNCHANGED <<kernel, call>>
  BY DEF SupervisePass
<1>22. Crash => kernel = "passes" /\ UNCHANGED <<kernel, call>>
  BY DEF Crash
<1>23. OpenResident => kernel = "block" /\ UNCHANGED <<kernel, call>>
  BY DEF OpenResident
<1>24. OpenQueries => kernel = "block" /\ UNCHANGED <<kernel, call>>
  BY DEF OpenQueries
<1>25. TimeBlock => kernel = "block" /\ UNCHANGED <<kernel, call>>
  BY DEF TimeBlock
<1> QED
  BY <1>1, <1>2, <1>3, <1>4, <1>5, <1>6, <1>7, <1>8, <1>9, <1>10, <1>11, <1>12, <1>13, <1>14, <1>15, <1>16, <1>17, <1>18, <1>19, <1>20, <1>21, <1>22, <1>23, <1>24, <1>25
     DEF Next

(* The passes' invariant, of the states of a call of the passes.           *)
PassesAreSound == kernel = "passes" /\ result # Unanswered => PassInv(call, result)

(* The passes' invariant is one of the specification: every step of the    *)
(* barrier, of its supervisor and of the machine preserves it              *)
(* (run_release_barrier of the categorical executor).                      *)
THEOREM PassesStaySound == Spec => []PassesAreSound
<1>1. Init => PassesAreSound
  BY DEF Init, PassesAreSound
<1>2. PassesAreSound /\ [Next]_vars => PassesAreSound'
  <2> SUFFICES ASSUME PassesAreSound, Next, kernel' = "passes", result' # Unanswered
               PROVE  PassInv(call', result')
    BY DEF PassesAreSound, vars
  <2>1. kernel = "passes" /\ call' = call
    BY StepsOfKernels
  <2>2. CASE StartPasses
    BY <2>1, <2>2, StartHasPassInv DEF StartPasses
  <2>3. CASE result # Unanswered
    <3>1. PassInv(call, result)
      BY <2>1, <2>3 DEF PassesAreSound
    <3>2. CASE StepPass
      BY <2>1, <3>1, <3>2, ProgramStep DEF StepPass
    <3>3. CASE EndPasses
      BY <2>1, <3>1, <3>3, EndStep DEF EndPasses
    <3>4. CASE StartAgain
      BY <2>1, <3>1, <3>4, AgainStep DEF StartAgain
    <3>5. CASE SupervisePass
      BY <2>1, <3>1, <3>5, AcknowledgeStep, ReleaseStep DEF SupervisePass
    <3>6. CASE Crash
      BY <2>1, <3>1, <3>6, CrashStep DEF Crash
    <3>7. ~StartPasses
      BY <2>3 DEF StartPasses
    <3> QED
      BY <2>1, <3>2, <3>3, <3>4, <3>5, <3>6, <3>7, StepsOfKernels
  <2>4. CASE result = Unanswered
    BY <2>1, <2>2, <2>4, StepsOfKernels
       DEF StepPass, EndPasses, StartAgain, SupervisePass, Crash
  <2> QED
    BY <2>3, <2>4
<1> QED
  BY <1>1, <1>2, PTL DEF Spec

(* The invariant implies what a run checks of the passes.                  *)
LEMMA SoundIsReleased ==
  ASSUME NEW c, NEW a, PassInv(c, a)
  PROVE  LET Behind(p) == p < a.pass \/ a.pc = "done"
             Has(d, p, kind) == Final(p, kind) \in DOMAIN d
             Is(d, p, kind, x) == Has(d, p, kind) /\ d[Final(p, kind)] = x
         IN \A p \in 1 .. PassRuns :
              /\ Behind(p) =>
                   /\ p \notin c.bad
                   /\ \A kind \in {"raw", "ready"} :
                        LET x == PassContent(c, [a EXCEPT !.pass = p], kind)
                        IN Is(a.kept, p, kind, x) /\ x \in a.flushed
              /\ Has(a.seen, p, "ready") =>
                   LET raw == [a.seen[Final(p, "ready")] EXCEPT !.what = "raw"]
                   IN Is(a.seen, p, "raw", raw) /\ Is(a.kept, p, "raw", raw)
                        /\ raw \in a.flushed
              /\ Has(a.seen, p, "ack") /\ a.seen[Final(p, "ack")] # Torn =>
                   Is(a.seen, p, "raw", a.seen[Final(p, "ack")].raw)
<1> SUFFICES ASSUME NEW p \in 1 .. PassRuns
             PROVE
      /\ p < a.pass \/ a.pc = "done" =>
           /\ p \notin c.bad
           /\ \A kind \in {"raw", "ready"} :
                LET x == PassContent(c, [a EXCEPT !.pass = p], kind)
                IN Holds(a.kept, p, kind, x) /\ x \in a.flushed
      /\ Final(p, "ready") \in DOMAIN a.seen =>
           LET raw == [a.seen[Final(p, "ready")] EXCEPT !.what = "raw"]
           IN Holds(a.seen, p, "raw", raw) /\ Holds(a.kept, p, "raw", raw)
                /\ raw \in a.flushed
      /\ Final(p, "ack") \in DOMAIN a.seen /\ a.seen[Final(p, "ack")] # Torn =>
           Holds(a.seen, p, "raw", a.seen[Final(p, "ack")].raw)
  BY DEF Holds
<1>0. PassRuns \in Nat
  BY PassAssumption
<1>1. ASSUME p < a.pass \/ a.pc = "done"
      PROVE  /\ p \notin c.bad
             /\ \A kind \in {"raw", "ready"} :
                  LET x == PassContent(c, [a EXCEPT !.pass = p], kind)
                  IN Holds(a.kept, p, kind, x) /\ x \in a.flushed
  <2>1. \A kind : PassContent(c, [a EXCEPT !.pass = p], kind)
                  = Written(c, p, kind, a.attempt)
    BY DEF PassContent, Written, PassInv, PassShape, PassFields
  <2> QED
    BY <1>1, <2>1 DEF PassInv, BehindSettled, Settled
<1>2. ASSUME Final(p, "ready") \in DOMAIN a.seen
      PROVE  LET raw == [a.seen[Final(p, "ready")] EXCEPT !.what = "raw"]
             IN Holds(a.seen, p, "raw", raw) /\ Holds(a.kept, p, "raw", raw)
                  /\ raw \in a.flushed
  <2>1. PICK t : /\ Holds(a.seen, p, "ready", Written(c, p, "ready", t))
                 /\ Settled(c, a, p, "raw", t)
    BY <1>0, <1>2 DEF PassInv, ReadyHasRaw
  <2>2. [Written(c, p, "ready", t) EXCEPT !.what = "raw"] = Written(c, p, "raw", t)
    BY DEF Written
  <2>3. [a.seen[Final(p, "ready")] EXCEPT !.what = "raw"] = Written(c, p, "raw", t)
    BY <2>1, <2>2 DEF Holds
  <2> QED
    BY <2>1, <2>3 DEF Settled
<1>3. ASSUME Final(p, "ack") \in DOMAIN a.seen, a.seen[Final(p, "ack")] # Torn
      PROVE  Holds(a.seen, p, "raw", a.seen[Final(p, "ack")].raw)
  BY <1>0, <1>3 DEF PassInv, AckHasRaw, Settled
<1> QED
  BY <1>1, <1>2, <1>3

(* A pass is left behind only with right results that are on the disk; a   *)
(* ready record is never seen without the synced results it is of, nor a   *)
(* whole acknowledgement with other results than it names, however often   *)
(* the machine crashes and attempts start again.                           *)
THEOREM PassesAreReleased == Spec => []PassIsReleased
<1>1. PassesAreSound => PassIsReleased
  BY SoundIsReleased DEF PassesAreSound, PassIsReleased
<1> QED
  BY <1>1, PassesStaySound, PTL

-----------------------------------------------------------------------------
(* The stages of the provider.                                             *)

ProviderFields == {"pc", "stage", "files", "accepted"}

(* The kinds of files a stage publishes.                                   *)
Kinds == ToSet(RawKinds)

(* What an attempt has left is as it was; all else this process has        *)
(* published, in the stages up to its own.                                 *)
FilesSound(c, a) ==
  /\ c.left \subseteq DOMAIN a.files
  /\ \A leaf \in c.left : a.files[leaf] = LeftContent(leaf[1], leaf[2])
  /\ \A leaf \in DOMAIN a.files \ c.left :
       leaf[1] \in 0 .. a.stage /\ a.files[leaf] = Content(c, leaf[1], leaf[2])

(* All files of stage s are there and none is an earlier attempt's.        *)
Own(c, a, s) == \A kind \in Kinds : <<s, kind>> \in DOMAIN a.files \ c.left

(* The inductive invariant of the provider.                                *)
ProviderInv(c, a) ==
  /\ DOMAIN a = ProviderFields
  /\ a.stage \in Nat
  /\ a.accepted = 0 .. a.stage - 1
  /\ a.accepted \cap c.bad = {}
  /\ FilesSound(c, a)
  /\ \A s \in a.accepted : Own(c, a, s)
  /\ a.pc = "ready" => Own(c, a, a.stage)
  /\ a.pc = "done" => a.stage = LastStage + 1

(* A stage publishes three files.                                          *)
LEMMA KindsAre == Kinds = {"ids", "distances", "summary"}
<1>1. DOMAIN RawKinds = 1 .. 3
  BY DEF RawKinds
<1>2. Kinds = {RawKinds[1], RawKinds[2], RawKinds[3]}
  BY <1>1 DEF Kinds, ToSet
<1> QED
  BY <1>2 DEF RawKinds

(* A member that no member exceeds is the greatest.                        *)
LEMMA MaxIs ==
  ASSUME NEW S \in SUBSET Int, NEW m \in S, \A y \in S : m >= y
  PROVE  Max(S) = m
<1>1. \E x \in S : \A y \in S : x >= y
  OBVIOUS
<1>2. Max(S) \in S /\ \A y \in S : Max(S) >= y
  BY <1>1 DEF Max
<1>3. m >= Max(S) /\ Max(S) >= m /\ m \in Int /\ Max(S) \in Int
  BY <1>2
<1> QED
  BY <1>3

(* The fold over the three kinds is three steps.                           *)
LEMMA StageIsThreeFiles ==
  ASSUME NEW c, NEW a
  PROVE  LET P(acc, kind) == Publish(c, a.stage, acc, kind)
         IN PublishStage(c, a)
              = P(P(P([a EXCEPT !.pc = "ready"], "ids"), "distances"), "summary")
<1> DEFINE base == [a EXCEPT !.pc = "ready"]
           P(acc, kind) == Publish(c, a.stage, acc, kind)
           Eq(it) == it = [s \in SUBSET (1 .. 3) |->
                             IF s = {} THEN base
                             ELSE P(it[s \ {Max(s)}], RawKinds[Max(s)])]
           One(s) == IF 1 \in s THEN P(base, RawKinds[1]) ELSE base
           Two(s) == IF 2 \in s THEN P(One(s), RawKinds[2]) ELSE One(s)
           Three(s) == IF 3 \in s THEN P(Two(s), RawKinds[3]) ELSE Two(s)
           it == [s \in SUBSET (1 .. 3) |-> Three(s)]
<1>1. PublishStage(c, a) = (CHOOSE x : Eq(x))[1 .. 3]
  <2>1. DOMAIN RawKinds = 1 .. 3
    BY DEF RawKinds
  <2> QED
    BY <2>1, Zenon DEF PublishStage, FoldLeft, MapThenFoldSet
<1> HIDE DEF P, base
<1>2. \A s \in SUBSET (1 .. 3) : s # {} =>
        /\ 3 \in s => Max(s) = 3
        /\ 3 \notin s /\ 2 \in s => Max(s) = 2
        /\ 3 \notin s /\ 2 \notin s => Max(s) = 1 /\ 1 \in s
  <2> TAKE s \in SUBSET (1 .. 3)
  <2>1. s \in SUBSET Int /\ \A y \in s : y \in {1, 2, 3}
    OBVIOUS
  <2>2. 3 \in s => Max(s) = 3
    BY <2>1, MaxIs
  <2>3. 3 \notin s /\ 2 \in s => Max(s) = 2
    BY <2>1, MaxIs
  <2>4. 3 \notin s /\ 2 \notin s /\ s # {} => Max(s) = 1 /\ 1 \in s
    <3>1. 3 \notin s /\ 2 \notin s /\ s # {} => 1 \in s /\ \A y \in s : y = 1
      BY <2>1
    <3> QED
      BY <2>1, <3>1, MaxIs
  <2> QED
    BY <2>2, <2>3, <2>4
<1>3. \A s \in SUBSET (1 .. 3) :
        Three(s) = IF s = {} THEN base
                   ELSE P(Three(s \ {Max(s)}), RawKinds[Max(s)])
  <2> TAKE s \in SUBSET (1 .. 3)
  <2>1. CASE s = {}
    BY <2>1
  <2>2. CASE 3 \in s
    BY <1>2, <2>2
  <2>3. CASE 3 \notin s /\ 2 \in s
    BY <1>2, <2>3
  <2>4. CASE 3 \notin s /\ 2 \notin s /\ s # {}
    BY <1>2, <2>4
  <2> QED
    BY <2>1, <2>2, <2>3, <2>4
<1> HIDE DEF One, Two, Three
<1>4. Eq(it)
  BY <1>2, <1>3
<1>5. \A x : Eq(x) => x[1 .. 3] = P(P(P(base, RawKinds[1]), RawKinds[2]), RawKinds[3])
  <2> SUFFICES ASSUME NEW x, Eq(x)
               PROVE  x[1 .. 3] = P(P(P(base, RawKinds[1]), RawKinds[2]), RawKinds[3])
    OBVIOUS
  <2>1. \A s \in SUBSET (1 .. 3) :
          x[s] = IF s = {} THEN base ELSE P(x[s \ {Max(s)}], RawKinds[Max(s)])
    BY Zenon
  <2>2. /\ x[{}] = base
        /\ x[{1}] = P(x[{1} \ {1}], RawKinds[1])
        /\ x[{1, 2}] = P(x[{1, 2} \ {2}], RawKinds[2])
        /\ x[{1, 2, 3}] = P(x[{1, 2, 3} \ {3}], RawKinds[3])
    <3>1. {} \in SUBSET (1 .. 3) /\ {1} \in SUBSET (1 .. 3)
          /\ {1, 2} \in SUBSET (1 .. 3) /\ {1, 2, 3} \in SUBSET (1 .. 3)
      OBVIOUS
    <3>2. {1} # {} /\ {1, 2} # {} /\ {1, 2, 3} # {}
      OBVIOUS
    <3>3. Max({1}) = 1 /\ Max({1, 2}) = 2 /\ Max({1, 2, 3}) = 3
      BY <1>2, <3>1, <3>2
    <3> HIDE DEF Eq
    <3> QED
      BY <2>1, <3>1, <3>2, <3>3
  <2>3. {1} \ {1} = {} /\ {1, 2} \ {2} = {1} /\ {1, 2, 3} \ {3} = {1, 2}
        /\ 1 .. 3 = {1, 2, 3}
    OBVIOUS
  <2> QED
    BY <2>2, <2>3
<1>6. (CHOOSE x : Eq(x))[1 .. 3]
        = P(P(P(base, RawKinds[1]), RawKinds[2]), RawKinds[3])
  <2>1. Eq(CHOOSE x : Eq(x))
    BY <1>4, Zenon
  <2> HIDE DEF Eq
  <2> QED
    BY <1>5, <2>1
<1>7. RawKinds[1] = "ids" /\ RawKinds[2] = "distances" /\ RawKinds[3] = "summary"
  BY DEF RawKinds
<1> QED
  BY <1>1, <1>6, <1>7 DEF P, base

(* The provider at the files of a stage, none of which it has replaced.    *)
Storing(c, a) ==
  /\ DOMAIN a = ProviderFields /\ a.stage \in Nat
  /\ FilesSound(c, a) /\ a.pc \in {"ready", "failed"}

(* Its next state b, with the file of this kind or a failure.              *)
Stored(c, a, kind, b) ==
  /\ Storing(c, b) /\ b.stage = a.stage /\ b.accepted = a.accepted
  /\ DOMAIN a.files \subseteq DOMAIN b.files
  /\ b.pc = "ready" =>
       a.pc = "ready" /\ <<a.stage, kind>> \in DOMAIN b.files \ c.left

(* Publishing a file replaces none, and a failure is kept to the end.      *)
LEMMA PublishKeeps ==
  ASSUME NEW c, NEW a, Storing(c, a), NEW kind
  PROVE  Stored(c, a, kind, Publish(c, a.stage, a, kind))
<1> USE DEF Storing, Stored
<1> DEFINE b == Publish(c, a.stage, a, kind)
           leaf == <<a.stage, kind>>
<1>1. CASE a.pc = "failed" \/ leaf \in DOMAIN a.files
  <2>1. b = [a EXCEPT !.pc = "failed"]
    BY <1>1 DEF Publish
  <2>2. /\ DOMAIN b = ProviderFields /\ b.stage = a.stage
        /\ b.accepted = a.accepted /\ b.files = a.files /\ b.pc = "failed"
    BY <2>1 DEF ProviderFields
  <2> QED
    BY <2>2 DEF FilesSound
<1>2. CASE ~(a.pc = "failed" \/ leaf \in DOMAIN a.files)
  <2>1. b = [a EXCEPT !.files = Created(@, leaf, Content(c, a.stage, kind))]
    BY <1>2 DEF Publish
  <2>2. /\ DOMAIN b = ProviderFields /\ b.stage = a.stage
        /\ b.accepted = a.accepted /\ b.pc = "ready"
        /\ b.files = Created(a.files, leaf, Content(c, a.stage, kind))
    BY <1>2, <2>1 DEF ProviderFields
  <2>3. /\ DOMAIN b.files = DOMAIN a.files \cup {leaf}
        /\ b.files[leaf] = Content(c, a.stage, kind)
        /\ \A n \in DOMAIN a.files : b.files[n] = a.files[n]
    BY <1>2, <2>2 DEF Created
  <2>4. leaf[1] = a.stage /\ leaf[2] = kind /\ leaf \notin c.left
    BY <1>2 DEF FilesSound
  <2>5. FilesSound(c, b)
    BY <2>2, <2>3, <2>4 DEF FilesSound
  <2> QED
    BY <1>2, <2>2, <2>3, <2>4, <2>5
<1> QED
  BY <1>1, <1>2

(* A stage that is published preserves the invariant, complete or not.     *)
LEMMA StageStep ==
  ASSUME NEW c, NEW a, ProviderInv(c, a), a.pc = "running"
  PROVE  ProviderInv(c, PublishStage(c, a))
<1> DEFINE P(acc, kind) == Publish(c, a.stage, acc, kind)
           base == [a EXCEPT !.pc = "ready"]
           first == P(base, "ids")
           second == P(first, "distances")
           third == P(second, "summary")
<1>0. PublishStage(c, a) = third
  BY StageIsThreeFiles
<1>1. /\ DOMAIN base = ProviderFields /\ base.stage = a.stage
      /\ base.accepted = a.accepted /\ base.files = a.files /\ base.pc = "ready"
      /\ a.stage \in Nat /\ FilesSound(c, base)
  BY DEF ProviderInv, ProviderFields, FilesSound
<1> HIDE DEF base
<1>2. /\ DOMAIN first = ProviderFields /\ first.stage = a.stage
      /\ first.accepted = a.accepted /\ FilesSound(c, first)
      /\ first.pc \in {"ready", "failed"} /\ DOMAIN a.files \subseteq DOMAIN first.files
      /\ first.pc = "ready" => <<a.stage, "ids">> \in DOMAIN first.files \ c.left
  <2>1. first = Publish(c, base.stage, base, "ids")
    BY <1>1
  <2>2. Storing(c, base)
    BY <1>1 DEF Storing
  <2> HIDE DEF first, P
  <2>3. Stored(c, base, "ids", first)
    BY <2>1, <2>2, PublishKeeps
  <2> QED
    BY <1>1, <2>3 DEF Storing, Stored
<1> HIDE DEF first
<1>3. /\ DOMAIN second = ProviderFields /\ second.stage = a.stage
      /\ second.accepted = a.accepted /\ FilesSound(c, second)
      /\ second.pc \in {"ready", "failed"}
      /\ DOMAIN first.files \subseteq DOMAIN second.files
      /\ second.pc = "ready" => /\ first.pc = "ready"
                                /\ <<a.stage, "distances">> \in DOMAIN second.files \ c.left
  <2>1. second = Publish(c, first.stage, first, "distances")
    BY <1>1, <1>2
  <2>2. Storing(c, first)
    BY <1>1, <1>2 DEF Storing
  <2> HIDE DEF second, P
  <2>3. Stored(c, first, "distances", second)
    BY <2>1, <2>2, PublishKeeps
  <2> QED
    BY <1>1, <1>2, <2>3 DEF Storing, Stored
<1> HIDE DEF second
<1>4. /\ DOMAIN third = ProviderFields /\ third.stage = a.stage
      /\ third.accepted = a.accepted /\ FilesSound(c, third)
      /\ third.pc \in {"ready", "failed"}
      /\ DOMAIN second.files \subseteq DOMAIN third.files
      /\ third.pc = "ready" => /\ second.pc = "ready"
                               /\ <<a.stage, "summary">> \in DOMAIN third.files \ c.left
  <2>1. third = Publish(c, second.stage, second, "summary")
    BY <1>1, <1>3
  <2>2. Storing(c, second)
    BY <1>1, <1>3 DEF Storing
  <2> HIDE DEF third, P
  <2>3. Stored(c, second, "summary", third)
    BY <2>1, <2>2, PublishKeeps
  <2> QED
    BY <1>1, <1>3, <2>3 DEF Storing, Stored
<1> HIDE DEF third
<1>5. third.pc = "ready" => Own(c, third, third.stage)
  BY <1>2, <1>3, <1>4, KindsAre DEF Own
<1>6. \A s \in third.accepted : Own(c, third, s)
  BY <1>2, <1>3, <1>4 DEF Own, ProviderInv
<1> QED
  BY <1>0, <1>4, <1>5, <1>6 DEF ProviderInv

(* An audit says what the files it was made of are.                        *)
LEMMA AuditsAreHonest ==
  ASSUME NEW c, NEW a, NEW m \in Messages(c, a)
  PROVE  LET u == m.file.ack.audit
         IN u.valid = \A k \in DOMAIN u.raw : u.raw[k].good
<1> DEFINE releases == Releases(Acks(Audits(c, a)))
<1>1. m.file \in releases
  BY DEF Messages
<1>2. PICK k \in Acks(Audits(c, a)) : m.file.ack = k
  BY <1>1 DEF Releases
<1>3. PICK u \in Audits(c, a) : k.audit = u
  BY <1>2 DEF Acks
<1>4. \E coordinate, s, raw : u = AuditOf(coordinate, s, raw)
  BY <1>3 DEF Audits
<1>5. u.valid = \A x \in DOMAIN u.raw : u.raw[x].good
  BY <1>4 DEF AuditOf
<1> QED
  BY <1>2, <1>3, <1>5

(* An answer of the supervisor preserves the invariant: a stage is         *)
(* accepted only with its own three files, all of them right.              *)
LEMMA TakeStep ==
  ASSUME NEW c, NEW a, ProviderInv(c, a), a.pc = "ready", NEW m \in Messages(c, a)
  PROVE  ProviderInv(c, TakeRelease(c, a, m))
<1> DEFINE b == TakeRelease(c, a, m)
<1>1. CASE ~ValidateRelease(c, a, m)
  <2>1. b = [a EXCEPT !.pc = "failed"]
    BY <1>1 DEF TakeRelease
  <2>2. /\ DOMAIN b = ProviderFields /\ b.stage = a.stage
        /\ b.accepted = a.accepted /\ b.files = a.files /\ b.pc = "failed"
    BY <2>1 DEF ProviderFields, ProviderInv
  <2> QED
    BY <2>2 DEF ProviderInv, FilesSound, Own
<1>2. CASE ValidateRelease(c, a, m)
  <2>1. b = [a EXCEPT !.accepted = @ \cup {a.stage}, !.stage = @ + 1,
                      !.pc = IF a.stage = LastStage THEN "done" ELSE "running"]
    BY <1>2 DEF TakeRelease
  <2>2. /\ DOMAIN b = ProviderFields /\ b.stage = a.stage + 1
        /\ b.accepted = a.accepted \cup {a.stage} /\ b.files = a.files
        /\ b.pc = IF a.stage = LastStage THEN "done" ELSE "running"
    BY <2>1 DEF ProviderFields, ProviderInv
  <2>3. a.stage \notin c.bad
    <3> DEFINE u == m.file.ack.audit
    <3>1. u.valid /\ u.raw = BindingsOf(a.files, a.stage)
      BY <1>2 DEF ValidateRelease
    <3>2. "ids" \in Kinds /\ DOMAIN u.raw = Kinds
      BY <3>1, KindsAre DEF BindingsOf, Kinds
    <3>3. u.raw["ids"].good
      BY <3>1, <3>2, AuditsAreHonest
    <3>4. u.raw["ids"] = a.files[<<a.stage, "ids">>]
      BY <3>1, <3>2 DEF BindingsOf, Kinds, ProviderInv, Own
    <3>5. a.files[<<a.stage, "ids">>] = Content(c, a.stage, "ids")
      BY <3>2 DEF ProviderInv, Own, FilesSound
    <3>6. Content(c, a.stage, "ids").good = (a.stage \notin c.bad)
      BY DEF Content
    <3> QED
      BY <3>3, <3>4, <3>5, <3>6
  <2>4. b.accepted = 0 .. b.stage - 1 /\ b.stage \in Nat
    BY <2>2 DEF ProviderInv
  <2>5. FilesSound(c, b)
    BY <2>2 DEF ProviderInv, FilesSound
  <2>6. \A s \in b.accepted : Own(c, b, s)
    BY <2>2 DEF ProviderInv, Own
  <2>7. LastStage \in Nat
    BY StageAssumption
  <2> QED
    BY <2>2, <2>3, <2>4, <2>5, <2>6, <2>7 DEF ProviderInv
<1> QED
  BY <1>1, <1>2

(* The provider starts with what is left and nothing accepted.             *)
LEMMA StartHasProviderInv ==
  ASSUME NEW c
  PROVE  ProviderInv(c, ProviderStart(c))
BY DEF ProviderInv, ProviderStart, ProviderFields, FilesSound, LeftFiles

(* The provider's invariant, of the states of a call of the provider.      *)
ProviderIsSound ==
  kernel = "provider" => /\ call \in Calls["provider"] /\ "provider" \in DOMAIN Calls
                         /\ result # Unanswered => ProviderInv(call, result)

(* The provider's invariant is one of the specification.                   *)
THEOREM ProviderStaysSound == Spec => []ProviderIsSound
<1>1. Init => ProviderIsSound
  BY DEF Init, ProviderIsSound
<1>2. ProviderIsSound /\ [Next]_vars => ProviderIsSound'
  <2> SUFFICES ASSUME ProviderIsSound, Next, kernel' = "provider"
               PROVE  /\ call' \in Calls["provider"] /\ "provider" \in DOMAIN Calls
                      /\ result' # Unanswered => ProviderInv(call', result')
    BY DEF ProviderIsSound, vars
  <2>1. kernel = "provider" /\ call' = call
    BY StepsOfKernels
  <2>2. CASE StartProvider
    BY <2>1, <2>2, StartHasProviderInv DEF StartProvider, ProviderIsSound
  <2>3. CASE RunStage
    <3>1. result # Unanswered
      BY <2>3 DEF RunStage, Unanswered
    <3> QED
      BY <2>1, <2>3, <3>1, StageStep DEF RunStage, ProviderIsSound
  <2>4. CASE Release
    <3>1. result # Unanswered
      BY <2>4 DEF Release, Unanswered
    <3> QED
      BY <2>1, <2>4, <3>1, TakeStep DEF Release, ProviderIsSound
  <2> QED
    BY <2>1, <2>2, <2>3, <2>4, StepsOfKernels
<1> QED
  BY <1>1, <1>2, PTL DEF Spec

(* Only right stages are accepted, in order and each once, and none that   *)
(* an earlier attempt left a file of; no file is replaced, and the end is  *)
(* reached with every stage accepted.                                      *)
THEOREM StagesAreReleased == Spec => []StageIsReleased
<1>1. ProviderIsSound => StageIsReleased
  <2> SUFFICES ASSUME ProviderIsSound, kernel = "provider", result # Unanswered
               PROVE  StageIsReleased
    BY DEF StageIsReleased
  <2> DEFINE a == result
             c == call
  <2>1. ProviderInv(c, a) /\ c.left \subseteq Nat \X Kinds
    BY LeftAssumption DEF ProviderIsSound, Kinds
  <2>2. \A leaf \in DOMAIN a.files :
          /\ leaf \in c.left <=> a.files[leaf].by = "earlier"
          /\ leaf \notin c.left => leaf[1] - 1 \in a.accepted \cup {-1}
    <3>1. \A s, k : LeftContent(s, k).by = "earlier" /\ Content(c, s, k).by = "child"
      BY DEF LeftContent, Content
    <3>2. \A leaf \in c.left : a.files[leaf].by = "earlier"
      BY <2>1, <3>1 DEF ProviderInv, FilesSound
    <3>3. \A leaf \in DOMAIN a.files \ c.left :
            leaf[1] \in 0 .. a.stage /\ a.files[leaf].by = "child"
      BY <2>1, <3>1 DEF ProviderInv, FilesSound
    <3>4. \A s \in 0 .. a.stage : s - 1 \in a.accepted \cup {-1}
      BY <2>1 DEF ProviderInv
    <3> HIDE DEF a, c
    <3> QED
      BY <3>2, <3>3, <3>4
  <2>3. \A leaf \in c.left : leaf[1] \notin a.accepted
    <3> SUFFICES ASSUME NEW leaf \in c.left, leaf[1] \in a.accepted
                 PROVE  FALSE
      OBVIOUS
    <3>1. leaf = <<leaf[1], leaf[2]>> /\ leaf[2] \in Kinds
      BY <2>1
    <3>2. leaf \in DOMAIN a.files \ c.left
      BY <2>1, <3>1 DEF ProviderInv, Own
    <3> QED
      BY <3>2
  <2>4. a.pc = "done" => a.accepted = 0 .. LastStage
    BY <2>1, StageAssumption DEF ProviderInv
  <2> QED
    BY <2>1, <2>2, <2>3, <2>4 DEF ProviderInv, StageIsReleased
<1> QED
  BY <1>1, ProviderStaysSound, PTL

-----------------------------------------------------------------------------
(* Inductions, maxima and folds.                                           *)

(* A finite family of sets has a least member.                             *)
LEMMA LeastSet ==
  ASSUME NEW S, IsFiniteSet(S), NEW T \in SUBSET (SUBSET S), T # {}
  PROVE  \E x \in T : \A y \in T : ~ (y \subseteq x /\ y # x)
<1>1. IsWellFoundedOn(StrictSubsetOrdering(S), FiniteSubsetsOf(S))
  BY FS_StrictSubsetOrderingWellFounded
<1>2. T \subseteq FiniteSubsetsOf(S)
  BY FS_Subset DEF FiniteSubsetsOf
<1>3. PICK x \in T : \A y \in T : ~ (<<y, x>> \in StrictSubsetOrdering(S))
  BY <1>1, <1>2, WFMin
<1> QED
  BY <1>3 DEF StrictSubsetOrdering

(* What holds of 0, and of k + 1 if of k, holds up to n.                   *)
LEMMA CountUp ==
  ASSUME NEW n \in Nat, NEW S, 0 \in S,
         \A k \in 0 .. n - 1 : k \in S => k + 1 \in S
  PROVE  \A k \in 0 .. n : k \in S
<1> DEFINE Bad == (0 .. n) \ S
           T == {0 .. k : k \in Bad}
<1> SUFFICES ASSUME Bad # {} PROVE FALSE
  OBVIOUS
<1>1. IsFiniteSet(0 .. n)
  BY FS_Interval
<1>2. T \in SUBSET (SUBSET (0 .. n)) /\ T # {}
  OBVIOUS
<1>3. PICK x \in T : \A y \in T : ~ (y \subseteq x /\ y # x)
  <2> DEFINE N == 0 .. n
  <2>1. IsFiniteSet(N) /\ T \in SUBSET (SUBSET N) /\ T # {}
    BY <1>1, <1>2
  <2> HIDE DEF T, Bad, N
  <2> QED
    BY <2>1, LeastSet
<1>4. PICK k \in Bad : x = 0 .. k
  OBVIOUS
<1>5. k \in 0 .. n /\ k \notin S /\ k - 1 \in 0 .. n - 1
  BY <1>4
<1>6. k - 1 \in S
  <2>1. 0 .. k - 1 \subseteq 0 .. k /\ k \in 0 .. k /\ k \notin 0 .. k - 1
    BY <1>5
  <2> QED
    <3>1. k - 1 \notin Bad
      <4>1. 0 .. k - 1 # 0 .. k /\ 0 .. k - 1 \subseteq 0 .. k
        BY <2>1
      <4>2. k - 1 \in Bad => 0 .. k - 1 \in T
        OBVIOUS
      <4> HIDE DEF T, Bad
      <4> QED
        BY <1>3, <1>4, <4>1, <4>2
    <3>2. k - 1 \in 0 .. n
      BY <1>5
    <3> QED
      BY <3>1, <3>2
<1>7. k - 1 + 1 \in S
  BY <1>5, <1>6
<1> QED
  BY <1>5, <1>7

(* G gives the next value from the number of the step and the value.       *)
IsStep(G, n, T) == G \in [(0 .. n - 1) \X T -> T]

(* The values r of n steps of G from b.                                    *)
IsRun(r, n, b, G) ==
  r[0] = b /\ \A k \in 0 .. n - 1 : r[k + 1] = G[<<k, r[k]>>]

(* A step function has a run of any length.                                *)
LEMMA RunExists ==
  ASSUME NEW T, NEW n \in Nat, NEW b \in T, NEW G, IsStep(G, n, T)
  PROVE  \E r \in [0 .. n -> T] : IsRun(r, n, b, G)
<1> USE DEF IsStep, IsRun
<1> DEFINE Run(r, m) == r \in [0 .. m -> T] /\ r[0] = b
                          /\ \A k \in 0 .. m - 1 : r[k + 1] = G[<<k, r[k]>>]
           S == {m \in 0 .. n : \E r : Run(r, m)}
<1>1. 0 \in S
  <2>1. Run([k \in 0 .. 0 |-> b], 0)
    OBVIOUS
  <2> HIDE DEF Run
  <2> QED
    BY <2>1
<1>2. ASSUME NEW m \in 0 .. n - 1, m \in S PROVE m + 1 \in S
  <2>1. PICK r : Run(r, m)
    BY <1>2
  <2> DEFINE x == G[<<m, r[m]>>]
             t == [k \in 0 .. m + 1 |-> IF k <= m THEN r[k] ELSE x]
  <2>2. r[m] \in T /\ x \in T
    <3>1. r[m] \in T
      BY <2>1
    <3>2. <<m, r[m]>> \in (0 .. n - 1) \X T
      BY <3>1
    <3> QED
      BY <3>1, <3>2
  <2> HIDE DEF x
  <2>3. t \in [0 .. m + 1 -> T] /\ t[0] = b
    BY <2>1, <2>2
  <2>4. ASSUME NEW k \in 0 .. m PROVE t[k + 1] = G[<<k, t[k]>>]
    <3>1. t[k] = r[k]
      OBVIOUS
    <3>2. CASE k = m
      <4>1. t[m + 1] = x
        OBVIOUS
      <4> HIDE DEF t
      <4> QED
        BY <3>1, <3>2, <4>1 DEF x
    <3>3. CASE k < m
      BY <2>1, <3>1, <3>3
    <3> QED
      BY <3>2, <3>3
  <2>5. Run(t, m + 1)
    <3>1. 0 .. m + 1 - 1 = 0 .. m
      OBVIOUS
    <3> HIDE DEF t
    <3> QED
      BY <2>3, <2>4, <3>1
  <2> HIDE DEF Run
  <2> QED
    BY <2>5
<1>3. n \in S
  <2> HIDE DEF S
  <2> QED
    BY <1>1, <1>2, CountUp
<1> QED
  BY <1>3

(* Concatenating sequences over D gives one.                               *)
LEMMA FlattenIs ==
  ASSUME NEW D, NEW n \in Nat \ {0}, NEW s \in [1 .. n -> Seq(D)]
  PROVE  FlattenSeq(s) \in Seq(D)
<1> DEFINE Eq(f) == f = [i \in 1 .. n |-> IF i = 1 THEN s[i] ELSE f[i - 1] \o s[i]]
           G == [p \in (0 .. n - 1) \X Seq(D) |-> p[2] \o s[p[1] + 1]]
           e == <<>>
<1>1. Len(s) = n /\ n # 0
  OBVIOUS
<1>2. e \in Seq(D) /\ n \in Nat /\ G \in [(0 .. n - 1) \X Seq(D) -> Seq(D)]
  <2>1. ASSUME NEW p \in (0 .. n - 1) \X Seq(D) PROVE p[2] \o s[p[1] + 1] \in Seq(D)
    <3>1. p[2] \in Seq(D) /\ p[1] + 1 \in 1 .. n
      OBVIOUS
    <3>2. s[p[1] + 1] \in Seq(D)
      BY <3>1
    <3> QED
      BY <3>1, <3>2
  <2> QED
    BY <2>1
<1>3. PICK r \in [0 .. n -> Seq(D)] :
        r[0] = e /\ \A k \in 0 .. n - 1 : r[k + 1] = G[<<k, r[k]>>]
  <2> DEFINE T == Seq(D)
  <2>1. e \in T /\ n \in Nat /\ IsStep(G, n, T)
    BY <1>2 DEF IsStep
  <2> HIDE DEF T, G, e
  <2>2. \E r \in [0 .. n -> T] : IsRun(r, n, e, G)
    BY <2>1, RunExists
  <2> QED
    BY <2>2 DEF T, IsRun
<1>4. ASSUME NEW k \in 0 .. n - 1 PROVE r[k + 1] = r[k] \o s[k + 1]
  <2>1. r[k] \in Seq(D) /\ <<k, r[k]>> \in (0 .. n - 1) \X Seq(D)
    OBVIOUS
  <2>2. G[<<k, r[k]>>] = r[k] \o s[k + 1]
    BY <2>1
  <2> HIDE DEF G
  <2> QED
    BY <1>3, <2>2
<1>5. \E f : Eq(f)
  <2> DEFINE f == [i \in 1 .. n |-> r[i]]
  <2>1. ASSUME NEW i \in 1 .. n
        PROVE  r[i] = IF i = 1 THEN s[i] ELSE f[i - 1] \o s[i]
    <3>1. i - 1 \in 0 .. n - 1 /\ i - 1 + 1 = i
      OBVIOUS
    <3>2. r[i] = r[i - 1] \o s[i]
      BY <1>4, <3>1
    <3>3. CASE i = 1
      <4>1. s[i] \in Seq(D) /\ <<>> \o s[i] = s[i]
        OBVIOUS
      <4>2. r[i - 1] = <<>>
        BY <1>3, <3>3
      <4> QED
        BY <3>2, <3>3, <4>1, <4>2
    <3>4. CASE i # 1
      <4>1. i - 1 \in 1 .. n /\ f[i - 1] = r[i - 1]
        BY <3>4
      <4> QED
        BY <3>2, <3>4, <4>1
    <3> QED
      BY <3>3, <3>4
  <2>2. Eq(f)
    BY <2>1
  <2> HIDE DEF f, Eq
  <2> QED
    BY <2>2
<1>6. PICK f : Eq(f) /\ FlattenSeq(s) = f[n]
  <2>1. Eq(CHOOSE f : Eq(f))
    <3> HIDE DEF Eq
    <3> QED
      BY <1>5
  <2>2. FlattenSeq(s) = (CHOOSE f : Eq(f))[n]
    BY <1>1, Zenon DEF FlattenSeq
  <2> QED
    BY <2>1, <2>2
<1>7. n \in {k \in 0 .. n : k = 0 \/ f[k] \in Seq(D)}
  <2> DEFINE S == {k \in 0 .. n : k = 0 \/ f[k] \in Seq(D)}
  <2>1. 0 \in S
    OBVIOUS
  <2>2. ASSUME NEW k \in 0 .. n - 1, k \in S PROVE k + 1 \in S
    <3>1. k + 1 \in 1 .. n /\ k + 1 \in 0 .. n /\ s[k + 1] \in Seq(D)
      OBVIOUS
    <3>2. f[k + 1] = IF k + 1 = 1 THEN s[k + 1] ELSE f[k + 1 - 1] \o s[k + 1]
      <4> DEFINE h == k + 1
                 g == [i \in 1 .. n |-> IF i = 1 THEN s[i] ELSE f[i - 1] \o s[i]]
      <4>1. h \in 1 .. n
        BY <3>1
      <4>2. f = g
        BY <1>6
      <4> HIDE DEF h
      <4>3. g[h] = IF h = 1 THEN s[h] ELSE f[h - 1] \o s[h]
        BY <4>1
      <4> HIDE DEF g
      <4> QED
        BY <4>2, <4>3 DEF h
    <3>3. k + 1 - 1 = k /\ (k + 1 = 1 <=> k = 0)
      OBVIOUS
    <3>4. f[k + 1] \in Seq(D)
      BY <2>2, <3>1, <3>2, <3>3
    <3> QED
      BY <3>1, <3>4
  <2>3. n \in Nat /\ 0 \in S /\ \A k \in 0 .. n - 1 : k \in S => k + 1 \in S
    BY <2>1, <2>2
  <2>4. n \in 0 .. n
    OBVIOUS
  <2> HIDE DEF S
  <2>5. n \in S
    BY <2>3, <2>4, CountUp
  <2> QED
    BY <2>5 DEF S
<1> QED
  BY <1>6, <1>7

(* What a function tells apart is as many as what it is of.                *)
LEMMA ImageCard ==
  ASSUME NEW S, IsFiniteSet(S), NEW f, \A x, y \in S : f[x] = f[y] => x = y
  PROVE  LET T == {f[x] : x \in S}
         IN IsFiniteSet(T) /\ Cardinality(T) = Cardinality(S)
<1> DEFINE T == {f[x] : x \in S}
           g == [x \in S |-> f[x]]
<1>1. g \in Bijection(S, T)
  BY DEF Bijection, Injection, Surjection, IsInjective
<1>2. ExistsBijection(S, T)
  BY <1>1 DEF ExistsBijection
<1> HIDE DEF T
<1>3. IsFiniteSet(T) /\ Cardinality(T) = Cardinality(S)
  BY <1>2, FS_Bijection
<1> QED
  BY <1>3 DEF T

(* Each row of an accepted partition is in one block.                      *)
LEMMA PartitionIs ==
  ASSUME "ordered" \in DOMAIN Calls, NEW c \in Calls["ordered"], PartitionAccepted(c)
  PROVE  \A x \in DOMAIN c.value :
           Cardinality({b \in Blocks : x \in ToSet(c.subset[b])}) = 1
<1> DEFINE V == DOMAIN c.value
           parts == [n \in 1 .. NumBlocks |-> c.subset[n - 1]]
           loaded == FlattenSeq(parts)
           D == UNION {ToSet(c.subset[b]) : b \in Blocks}
<1>0. NumBlocks \in Nat \ {0} /\ Blocks = 0 .. NumBlocks - 1
  BY OrderedAssumption DEF Blocks
<1>1. /\ \A b \in Blocks : \A x \in ToSet(c.subset[b]) :
           x \in V /\ c.value[x] \div BlockWidth = b
      /\ IsInjective(loaded) /\ Len(loaded) = Cardinality(V)
  <2> HIDE DEF V
  <2> QED
    BY DEF PartitionAccepted, V
<1>2. IsFiniteSet(V) /\ \A b \in Blocks : c.subset[b] \in Seq(Int)
  BY SubsetAssumption
<1>3. \A b \in Blocks : c.subset[b] \in Seq(D)
  <2> TAKE b \in Blocks
  <2> DEFINE s == c.subset[b]
  <2>1. s \in Seq(Int)
    BY <1>2
  <2>2. \A i \in 1 .. Len(s) : s[i] \in D
    <3>1. \A i \in DOMAIN s : s[i] \in ToSet(s)
      BY DEF ToSet
    <3>2. ToSet(s) \subseteq D
      OBVIOUS
    <3> HIDE DEF s, D
    <3> QED
      BY <2>1, <3>1, <3>2
  <2> HIDE DEF s, D
  <2>3. s \in Seq(D)
    BY <2>1, <2>2
  <2> QED
    BY <2>3 DEF s
<1>4. loaded \in Seq(D)
  <2>1. parts \in [1 .. NumBlocks -> Seq(D)]
    BY <1>0, <1>3
  <2> HIDE DEF parts, D
  <2> QED
    BY <1>0, <2>1, FlattenIs
<1>5. D \subseteq V
  BY <1>1
<1> HIDE DEF loaded, D, V, parts
<1>6. D = V
  <2> DEFINE T == {loaded[i] : i \in 1 .. Len(loaded)}
  <2>1. Len(loaded) \in Nat /\ DOMAIN loaded = 1 .. Len(loaded) /\ T \subseteq D
    BY <1>4
  <2>2. IsFiniteSet(1 .. Len(loaded)) /\ Cardinality(1 .. Len(loaded)) = Len(loaded)
    <3> DEFINE N == Len(loaded)
    <3>1. 1 \in Int /\ N \in Int /\ N \in Nat
      BY <2>1
    <3> HIDE DEF N
    <3>2. IsFiniteSet(1 .. N) /\ Cardinality(1 .. N) = N
      BY <3>1, FS_Interval
    <3> QED
      BY <3>2 DEF N
  <2>3. \A i, j \in 1 .. Len(loaded) : loaded[i] = loaded[j] => i = j
    BY <1>1, <2>1 DEF IsInjective
  <2>4. Cardinality(T) = Cardinality(V)
    BY <1>1, <2>2, <2>3, ImageCard
  <2> HIDE DEF T
  <2>5. T \in SUBSET V
    BY <1>5, <2>1
  <2>6. T = V
    BY <1>2, <2>4, <2>5, FS_Subset
  <2> QED
    BY <1>5, <2>1, <2>6
<1>7. SUFFICES ASSUME NEW x \in V
               PROVE  Cardinality({b \in Blocks : x \in ToSet(c.subset[b])}) = 1
  BY DEF V
<1>8. PICK b \in Blocks : x \in ToSet(c.subset[b])
  BY <1>6 DEF D
<1>9. {e \in Blocks : x \in ToSet(c.subset[e])} = {b}
  BY <1>1, <1>8
<1> QED
  BY <1>9, FS_Singleton

(* An answer has no more than TopK places.                                 *)
LEMMA AnswersAreShort ==
  ASSUME NEW c, NEW q
  PROVE  DOMAIN AdapterAnswer(c, q) \subseteq 1 .. TopK
BY Zenon DEF AdapterAnswer, TakeNearest

(* A stage that passes the gate answers each query with TopK rows in range *)
(* and holds as many true rows as the gate asks for.                       *)
LEMMA GateIs ==
  ASSUME NEW c, GatePasses(AuditResults(c, ExecuteStage(c, GateQueries)))
  PROVE  LET first == ExecuteStage(c, GateQueries)
             hits == UNION {{n} \X (ToSet(first[n]) \cap c.truth[n]) :
                              n \in DOMAIN first}
         IN /\ Cardinality(hits) >= GateHits
            /\ \A n \in DOMAIN first :
                 /\ Cardinality(ToSet(first[n])) = TopK
                 /\ \A x \in ToSet(first[n]) :
                      Qualifies(c, c.queries[n].ranges[1], x)
<1> DEFINE first == ExecuteStage(c, GateQueries)
           N == 1 .. GateQueries
           J == 1 .. TopK
           Hit(n, j) == j \in DOMAIN first[n] /\ first[n][j] \in c.truth[n]
           Violation(n, j) == j \in DOMAIN first[n]
                                /\ ~Qualifies(c, c.queries[n].ranges[1], first[n][j])
           found == {p \in N \X J : Hit(p[1], p[2])}
           violations == {p \in N \X J : Violation(p[1], p[2])}
           missing == {p \in N \X J : p[2] \notin DOMAIN first[p[1]]}
           duplicates == {n \in N : ~IsInjective(first[n])}
<1>1. DOMAIN first = N /\ \A n \in N : DOMAIN first[n] \subseteq J
  BY AnswersAreShort DEF ExecuteStage
<1> HIDE DEF first
<1>0. /\ IsFiniteSet(N) /\ IsFiniteSet(J) /\ Cardinality(J) = TopK
      /\ IsFiniteSet(N \X J)
  <2>1. 1 \in Int /\ GateQueries \in Int /\ TopK \in Int /\ TopK > 0
    BY OrderedAssumption, TopAssumption
  <2>2. IsFiniteSet(N) /\ IsFiniteSet(J) /\ Cardinality(J) = TopK
    BY <2>1, FS_Interval
  <2> HIDE DEF N, J
  <2> QED
    BY <2>2, FS_Product
<1>2. /\ Cardinality(found) >= GateHits /\ Cardinality(violations) = 0
      /\ Cardinality(missing) = 0 /\ Cardinality(duplicates) = 0
  BY <1>1 DEF GatePasses, AuditResults, first
<1> HIDE DEF N, J
<1>3. violations = {} /\ missing = {} /\ duplicates = {}
  <2>1. violations \in SUBSET (N \X J) /\ missing \in SUBSET (N \X J)
          /\ duplicates \in SUBSET N
    OBVIOUS
  <2> HIDE DEF violations, missing, duplicates
  <2>2. IsFiniteSet(violations) /\ IsFiniteSet(missing) /\ IsFiniteSet(duplicates)
    BY <1>0, <2>1, FS_Subset
  <2> QED
    BY <1>2, <2>2, FS_EmptySet
<1>4. \A n \in N : DOMAIN first[n] = J /\ IsInjective(first[n])
  <2>1. ASSUME NEW n \in N, NEW j \in J PROVE j \in DOMAIN first[n]
    <3>1. <<n, j>> \in N \X J /\ <<n, j>>[1] = n /\ <<n, j>>[2] = j
      OBVIOUS
    <3> QED
      BY <1>3, <3>1
  <2> HIDE DEF missing, violations
  <2> QED
    BY <1>1, <1>3, <2>1
<1>5. ASSUME NEW n \in N
      PROVE  /\ Cardinality(ToSet(first[n])) = TopK
             /\ \A x \in ToSet(first[n]) : Qualifies(c, c.queries[n].ranges[1], x)
  <2> DEFINE s == first[n]
  <2>1. ToSet(s) = {s[j] : j \in J}
    BY <1>4 DEF ToSet
  <2>2. \A i, j \in J : s[i] = s[j] => i = j
    BY <1>4 DEF IsInjective
  <2>3. Cardinality({s[j] : j \in J}) = TopK
    <3> HIDE DEF s
    <3> QED
      BY <1>0, <2>2, ImageCard
  <2>4. ASSUME NEW j \in J PROVE Qualifies(c, c.queries[n].ranges[1], s[j])
    <3>1. <<n, j>> \in N \X J /\ <<n, j>>[1] = n /\ <<n, j>>[2] = j
      OBVIOUS
    <3>2. ~Violation(n, j)
      BY <1>3, <3>1
    <3> QED
      BY <1>4, <3>2
  <2> HIDE DEF s
  <2>5. Cardinality(ToSet(s)) = TopK
          /\ \A x \in ToSet(s) : Qualifies(c, c.queries[n].ranges[1], x)
    BY <2>1, <2>3, <2>4
  <2> QED
    BY <2>5 DEF s
<1> DEFINE hits == UNION {{n} \X (ToSet(first[n]) \cap c.truth[n]) : n \in N}
           row == [p \in found |-> <<p[1], first[p[1]][p[2]]>>]
<1>6. hits = {row[p] : p \in found}
  <2>1. ASSUME NEW p \in found PROVE row[p] \in hits
    BY <1>4 DEF ToSet
  <2>2. ASSUME NEW h \in hits PROVE \E p \in found : h = row[p]
    <3>1. PICK n \in N : h \in {n} \X (ToSet(first[n]) \cap c.truth[n])
      OBVIOUS
    <3>2. h = <<n, h[2]>> /\ h[2] \in ToSet(first[n]) /\ h[2] \in c.truth[n]
      BY <3>1
    <3>3. PICK j \in J : h[2] = first[n][j]
      BY <1>4, <3>2 DEF ToSet
    <3>4. <<n, j>> \in found /\ row[<<n, j>>] = <<n, first[n][j]>>
      BY <1>4, <3>2, <3>3
    <3> HIDE DEF found, row
    <3> QED
      BY <3>2, <3>3, <3>4
  <2> HIDE DEF hits, found, row
  <2> QED
    BY <2>1, <2>2
<1>7. \A p, r \in found : row[p] = row[r] => p = r
  <2> SUFFICES ASSUME NEW p \in found, NEW r \in found, row[p] = row[r] PROVE p = r
    OBVIOUS
  <2>1. p = <<p[1], p[2]>> /\ r = <<r[1], r[2]>> /\ p[1] \in N /\ p[2] \in J
          /\ r[1] \in N /\ r[2] \in J
    OBVIOUS
  <2>2. p[1] = r[1] /\ first[p[1]][p[2]] = first[r[1]][r[2]]
    OBVIOUS
  <2>3. p[2] = r[2]
    BY <1>4, <2>1, <2>2 DEF IsInjective
  <2> HIDE DEF found, row
  <2> QED
    BY <2>1, <2>2, <2>3
<1>8. IsFiniteSet(found)
  <2>1. found \in SUBSET (N \X J)
    OBVIOUS
  <2> HIDE DEF found
  <2> QED
    BY <1>0, <2>1, FS_Subset
<1>9. Cardinality(hits) = Cardinality(found)
  <2> HIDE DEF found, row, hits
  <2> QED
    BY <1>6, <1>7, <1>8, ImageCard
<1>10. Cardinality(hits) >= GateHits
  <2> HIDE DEF found, hits
  <2> QED
    BY <1>2, <1>9
<1> QED
  BY <1>1, <1>5, <1>10 DEF first

(* Appending to one element gives two.                                     *)
LEMMA AppendPair ==
  ASSUME NEW x, NEW y
  PROVE  Append(<<x>>, y) = <<x, y>>
<1> DEFINE T == {x, y}
<1>1. x \in T /\ y \in T
  OBVIOUS
<1> HIDE DEF T
<1>2. <<x>> \in Seq(T) /\ Len(<<x>>) = 1 /\ <<x>>[1] = x
  BY <1>1
<1>3. Append(<<x>>, y) \in Seq(T) /\ Len(Append(<<x>>, y)) = 2
        /\ Append(<<x>>, y)[1] = x /\ Append(<<x>>, y)[2] = y
  BY <1>1, <1>2
<1>4. <<x, y>> \in Seq(T) /\ Len(<<x, y>>) = 2
        /\ <<x, y>>[1] = x /\ <<x, y>>[2] = y
  BY <1>1
<1> DEFINE s == Append(<<x>>, y)
           t == <<x, y>>
<1>5. s \in Seq(T) /\ t \in Seq(T) /\ Len(s) = Len(t) /\ Len(s) = 2
        /\ s[1] = t[1] /\ s[2] = t[2]
  BY <1>3, <1>4
<1> HIDE DEF s, t
<1>6. \A i \in 1 .. Len(s) : s[i] = t[i]
  BY <1>5
<1>7. s = t
  BY <1>5, <1>6, SeqEqual
<1> QED
  BY <1>7 DEF s, t

(* What the adapter publishes first is what passed its gate.               *)
LEMMA PublishedIs ==
  ASSUME NEW c, Len(FixedBlockAdapter(c).published) = 2
  PROVE  /\ PartitionAccepted(c)
         /\ GatePasses(AuditResults(c, ExecuteStage(c, GateQueries)))
         /\ FixedBlockAdapter(c).published[1] = ExecuteStage(c, GateQueries)
<1> DEFINE idle == [pc |-> "done", published |-> <<>>]
           first == ExecuteStage(c, GateQueries)
           rest == ExecuteStage(c, Len(c.queries))
           one == PersistStage(c, idle, 1, first)
           audited == GatePasses(AuditResults(c, first))
           a == FixedBlockAdapter(c)
           Refusals == {<<>>, <<first>>}
<1>1. /\ one.published \in Refusals
      /\ one.pc # "refused" => one = [pc |-> "done", published |-> <<first>>]
  <2>1. one = IF 1 \in c.kept THEN [pc |-> "refused", published |-> <<>>]
              ELSE [pc |-> "done", published |-> <<first>>]
    BY DEF PersistStage
  <2> HIDE DEF one, first
  <2> QED
    BY <2>1
<1>2. \/ a.published \in Refusals
      \/ /\ PartitionAccepted(c) /\ audited /\ one.pc # "refused"
         /\ a = PersistStage(c, one, 2, rest)
  <2> HIDE DEF one, audited, rest, first
  <2> QED
    BY <1>1 DEF FixedBlockAdapter, one, audited, rest, first
<1>3. \A x \in Refusals : Len(x) # 2
  OBVIOUS
<1>4. a = PersistStage(c, one, 2, rest) /\ one = [pc |-> "done", published |-> <<first>>]
  BY <1>1, <1>2, <1>3
<1>5. a.published \in {<<first>>, <<first, rest>>}
  <2>1. a = IF 2 \in c.kept THEN [pc |-> "refused", published |-> <<first>>]
            ELSE [pc |-> "done", published |-> <<first, rest>>]
    <3> HIDE DEF a, first, rest
    <3>1. Append(<<first>>, rest) = <<first, rest>>
      BY AppendPair
    <3> HIDE DEF one
    <3> QED
      BY <1>4, <3>1 DEF PersistStage
  <2> HIDE DEF a, first, rest
  <2> QED
    BY <2>1
<1> QED
  BY <1>2, <1>3, <1>5

-----------------------------------------------------------------------------
(* The ordered kernel answers once, with what its executors return.        *)
OrderedIsSound ==
  kernel = "ordered" =>
    /\ "ordered" \in DOMAIN Calls /\ call \in Calls["ordered"]
    /\ result # Unanswered => result.adapter = FixedBlockAdapter(call)

(* What the ordered kernel answers is what its executors return.           *)
THEOREM OrderedStaysSound == Spec => []OrderedIsSound
<1>1. Init => OrderedIsSound
  BY DEF Init, OrderedIsSound
<1>2. OrderedIsSound /\ [Next]_vars => OrderedIsSound'
  <2> SUFFICES ASSUME OrderedIsSound, Next, kernel' = "ordered"
               PROVE  OrderedIsSound'
    BY DEF OrderedIsSound, vars
  <2>1. kernel = "ordered" /\ UNCHANGED <<kernel, call>>
    BY StepsOfKernels
  <2>2. result'.adapter = FixedBlockAdapter(call)
    BY <2>1, StepsOfKernels DEF CallRanges
  <2> QED
    BY <2>1, <2>2 DEF OrderedIsSound
<1> QED
  BY <1>1, <1>2, PTL DEF Spec

(* A second stage is published only if the first one's answers have TopK   *)
(* different rows each, all in range, and enough of them true, over        *)
(* subsets of which each row is in one: whatever the graphs found, the     *)
(* queries ask and the files say (FixedBlockAdapter and its audit).        *)
THEOREM GateIsHeld == Spec => []GateHolds
<1>1. OrderedIsSound => GateHolds
  <2> SUFFICES ASSUME OrderedIsSound, Done, kernel = "ordered",
                      Len(result.adapter.published) = 2
               PROVE  GateHolds
    BY DEF GateHolds
  <2>1. result # Unanswered
    BY DEF Done, Unanswered
  <2>2. /\ "ordered" \in DOMAIN Calls /\ call \in Calls["ordered"]
        /\ result.adapter = FixedBlockAdapter(call)
    BY <2>1 DEF OrderedIsSound
  <2>3. /\ PartitionAccepted(call)
        /\ GatePasses(AuditResults(call, ExecuteStage(call, GateQueries)))
        /\ result.adapter.published[1] = ExecuteStage(call, GateQueries)
    BY <2>2, PublishedIs
  <2> DEFINE F == result.adapter.published[1]
             hits == UNION {{n} \X (ToSet(F[n]) \cap call.truth[n]) :
                              n \in DOMAIN F}
  <2>4. \A x \in DOMAIN call.value :
          Cardinality({b \in Blocks : x \in ToSet(call.subset[b])}) = 1
    BY <2>2, <2>3, PartitionIs
  <2>5. /\ Cardinality(hits) >= GateHits
        /\ \A n \in DOMAIN F :
             /\ Cardinality(ToSet(F[n])) = TopK
             /\ \A x \in ToSet(F[n]) : Qualifies(call, call.queries[n].ranges[1], x)
    BY <2>3, GateIs
  <2> QED
    BY <2>4, <2>5, Zenon DEF GateHolds
<1> QED
  BY <1>1, OrderedStaysSound, PTL

(* The gates of all three releases hold: of the stages of the 100k         *)
(* adapter, of the provider's stages and of the passes.                    *)
THEOREM StagesGated == Spec => []StagesAreGated
BY GateIsHeld, StagesAreReleased, PassesAreReleased, PTL DEF StagesAreGated

-----------------------------------------------------------------------------
(* Candidates and the heap of the nearest.                                 *)

(* A finite set of rows with a distance each.                              *)
Rated(c, S) == IsFiniteSet(S) /\ S \subseteq Int /\ \A x \in S : c.dist[x] \in Int

(* B holds the n nearest of S, or all of it.                               *)
KeptOf(c, B, S, n) ==
  /\ B \subseteq S /\ IsFiniteSet(B) /\ Cardinality(B) <= n
  /\ \/ B = S
     \/ /\ Cardinality(B) = n
        /\ \A x \in S \ B : \A y \in B : CandidateLess(c, y, x)

(* The farthest of B.                                                      *)
Top(c, B) == CHOOSE y \in B : \A z \in B : ~CandidateLess(c, y, z)

(* Candidates are strictly ordered: by distance, ties by row.              *)
LEMMA CandidateOrder ==
  ASSUME NEW c, NEW S, Rated(c, S), NEW x \in S, NEW y \in S, NEW z \in S
  PROVE  /\ ~CandidateLess(c, x, x)
         /\ CandidateLess(c, x, y) /\ CandidateLess(c, y, z) => CandidateLess(c, x, z)
         /\ x # y => CandidateLess(c, x, y) \/ CandidateLess(c, y, x)
         /\ ~ (CandidateLess(c, x, y) /\ CandidateLess(c, y, x))
<1>1. /\ x \in Int /\ y \in Int /\ z \in Int
      /\ c.dist[x] \in Int /\ c.dist[y] \in Int /\ c.dist[z] \in Int
  BY DEF Rated
<1> QED
  BY <1>1 DEF CandidateLess

(* The heap has a farthest member, and all its other members are nearer.   *)
LEMMA TopIs ==
  ASSUME NEW c, NEW S, Rated(c, S), S # {}
  PROVE  /\ Top(c, S) \in S
         /\ \A s \in S : s # Top(c, S) => CandidateLess(c, s, Top(c, S))
<1> DEFINE Above(x) == {y \in S : CandidateLess(c, x, y)}
           T == {Above(x) : x \in S}
<1>1. T \in SUBSET (SUBSET S) /\ T # {} /\ IsFiniteSet(S)
  BY DEF Rated
<1>2. PICK t \in T : \A y \in T : ~ (y \subseteq t /\ y # t)
  <2> HIDE DEF T
  <2> QED
    BY <1>1, LeastSet
<1>3. PICK w \in S : t = Above(w)
  OBVIOUS
<1>4. \A s \in S : ~CandidateLess(c, w, s)
  <2> SUFFICES ASSUME NEW s \in S, CandidateLess(c, w, s) PROVE FALSE
    OBVIOUS
  <2>1. Above(s) \subseteq Above(w)
    BY CandidateOrder
  <2>2. s \in Above(w) /\ s \notin Above(s)
    BY CandidateOrder
  <2> QED
    BY <1>2, <1>3, <2>1, <2>2
<1>5. Top(c, S) \in S /\ \A s \in S : ~CandidateLess(c, Top(c, S), s)
  BY <1>4 DEF Top
<1> QED
  BY <1>5, CandidateOrder

(* A heap of the nearest of S that retains x holds the nearest with x.     *)
LEMMA RetainKeeps ==
  ASSUME NEW c, NEW S, NEW x, Rated(c, S \cup {x}), x \notin S,
         NEW n \in Nat \ {0}, NEW B, KeptOf(c, B, S, n)
  PROVE  KeptOf(c, Retain(c, B, n, x), S \cup {x}, n)
<1> DEFINE U == S \cup {x}
<1>0. /\ B \subseteq S /\ IsFiniteSet(B) /\ Cardinality(B) \in Nat
      /\ Cardinality(B) <= n /\ x \notin B /\ Rated(c, B) /\ Rated(c, U)
  BY FS_CardinalityType DEF KeptOf, Rated
<1>1. CASE Cardinality(B) < n
  <2>1. B = S /\ Retain(c, B, n, x) = B \cup {x}
    BY <1>0, <1>1 DEF KeptOf, Retain
  <2>2. /\ IsFiniteSet(B \cup {x})
        /\ Cardinality(B \cup {x}) = Cardinality(B) + 1
    BY <1>0, FS_AddElement
  <2>3. Cardinality(B \cup {x}) <= n
    BY <1>0, <1>1, <2>2
  <2> QED
    BY <2>1, <2>2, <2>3 DEF KeptOf
<1>2. CASE ~ (Cardinality(B) < n)
  <2> DEFINE w == Top(c, B)
  <2>1. Cardinality(B) = n /\ B # {}
    BY <1>0, <1>2, FS_EmptySet
  <2>2. w \in B /\ \A s \in B : s # w => CandidateLess(c, s, w)
    BY <1>0, <2>1, TopIs
  <2>3. \A y \in S \ B : \A z \in B : CandidateLess(c, z, y)
    BY <2>1 DEF KeptOf
  <2>4. Retain(c, B, n, x) = IF CandidateLess(c, x, w) THEN (B \ {w}) \cup {x} ELSE B
    BY <1>2 DEF Retain, Top
  <2>5. \A a, b, d \in U : /\ CandidateLess(c, a, b) /\ CandidateLess(c, b, d)
                                => CandidateLess(c, a, d)
                           /\ a # b => CandidateLess(c, a, b) \/ CandidateLess(c, b, a)
    BY <1>0, CandidateOrder
  <2>6. w \in U /\ x \in U /\ B \subseteq U /\ S \subseteq U
    BY <1>0, <2>2
  <2> HIDE DEF w
  <2>7. CASE CandidateLess(c, x, w)
    <3> DEFINE C == (B \ {w}) \cup {x}
    <3>1. IsFiniteSet(B \ {w}) /\ Cardinality(B \ {w}) = Cardinality(B) - 1
      BY <1>0, <2>2, FS_RemoveElement
    <3>2. IsFiniteSet(C) /\ Cardinality(C) = n
      BY <1>0, <2>1, <3>1, FS_AddElement
    <3>3. ASSUME NEW a \in U \ C, NEW b \in C PROVE CandidateLess(c, b, a)
      <4>1. a \in U /\ b \in U
        BY <2>6
      <4>2. b = w \/ CandidateLess(c, b, w)
        BY <2>2, <2>7
      <4>3. a = w \/ a \in S \ B
        BY <3>3
      <4>4. a \in S \ B => CandidateLess(c, w, a)
        BY <2>2, <2>3
      <4>5. b # w
        BY <1>0, <2>2
      <4> HIDE DEF C, U
      <4> QED
        BY <2>5, <2>6, <4>1, <4>2, <4>3, <4>4, <4>5
    <3>4. C \subseteq U
      BY <1>0
    <3> HIDE DEF C
    <3> QED
      BY <2>4, <2>7, <3>2, <3>3, <3>4 DEF KeptOf, C
  <2>8. CASE ~CandidateLess(c, x, w)
    <3>1. Retain(c, B, n, x) = B
      BY <2>4, <2>8
    <3>2. CandidateLess(c, w, x)
      BY <1>0, <2>2, <2>5, <2>6, <2>8
    <3>3. ASSUME NEW a \in U \ B, NEW b \in B PROVE CandidateLess(c, b, a)
      <4>1. CASE a \in S
        BY <2>3, <4>1
      <4>2. CASE a = x
        <5>1. b = w \/ CandidateLess(c, b, w)
          BY <2>2
        <5>2. b \in U
          BY <2>6
        <5> HIDE DEF U
        <5> QED
          BY <2>5, <2>6, <3>2, <4>2, <5>1, <5>2
      <4> QED
        BY <4>1, <4>2
    <3> QED
      BY <1>0, <2>1, <2>6, <3>1, <3>3 DEF KeptOf
  <2> QED
    BY <2>7, <2>8
<1> QED
  BY <1>1, <1>2

(* What is kept is what is nearest.                                        *)
LEMMA KeptIsNearest ==
  ASSUME NEW c, NEW S, Rated(c, S), NEW n \in Nat, NEW B, KeptOf(c, B, S, n)
  PROVE  B = NearestIds(c, S, n)
<1> DEFINE Below(x) == {y \in S : CandidateLess(c, y, x)}
<1>0. /\ B \subseteq S /\ IsFiniteSet(B) /\ Cardinality(B) <= n /\ IsFiniteSet(S)
      /\ Cardinality(B) \in Nat
  BY FS_CardinalityType DEF KeptOf, Rated
<1>1. ASSUME NEW x \in B PROVE Cardinality(Below(x)) < n
  <2>1. Below(x) \subseteq B \ {x}
    <3> SUFFICES ASSUME NEW y \in S, CandidateLess(c, y, x) PROVE y \in B \ {x}
      OBVIOUS
    <3>1. x \in S
      BY <1>0
    <3>2. y # x /\ ~CandidateLess(c, x, y)
      BY <3>1, CandidateOrder
    <3> QED
      BY <3>2 DEF KeptOf
  <2>2. IsFiniteSet(B \ {x}) /\ Cardinality(B \ {x}) = Cardinality(B) - 1
    BY <1>0, FS_RemoveElement
  <2> DEFINE T == Below(x)
  <2> HIDE DEF T
  <2>3. IsFiniteSet(T) /\ Cardinality(T) <= Cardinality(B \ {x})
    BY <2>1, <2>2, FS_Subset DEF T
  <2>4. Cardinality(T) \in Nat
    BY <2>3, FS_CardinalityType
  <2>5. Cardinality(T) < n
    BY <1>0, <2>2, <2>3, <2>4
  <2> QED
    BY <2>5 DEF T
<1>2. ASSUME NEW x \in S \ B PROVE ~ (Cardinality(Below(x)) < n)
  <2>1. Cardinality(B) = n /\ B \subseteq Below(x)
    BY <1>0 DEF KeptOf
  <2> DEFINE T == Below(x)
  <2>2. T \subseteq S
    OBVIOUS
  <2> HIDE DEF T
  <2>3. IsFiniteSet(T)
    BY <1>0, <2>2, FS_Subset
  <2>4. Cardinality(B) <= Cardinality(T) /\ Cardinality(T) \in Nat
    BY <2>1, <2>3, FS_Subset, FS_CardinalityType DEF T
  <2>5. ~ (Cardinality(T) < n)
    BY <2>1, <2>4
  <2> QED
    BY <2>5 DEF T
<1>3. NearestIds(c, S, n) = {x \in S : Cardinality(Below(x)) < n}
  BY DEF NearestIds
<1> HIDE DEF Below
<1> QED
  BY <1>0, <1>1, <1>2, <1>3

(* The state of a scan that has scored the rows of S and found them good.  *)
ScoredAll(c, a, S, limit) ==
  a.status = 0 /\ KeptOf(c, a.best, S, limit) /\ a.unique = Cardinality(S)

(* Scoring a further row.                                                  *)
LEMMA ScoreKeeps ==
  ASSUME NEW c, NEW S, NEW x, Rated(c, S \cup {x}), x \notin S,
         NEW limit \in Nat \ {0}, NEW a, {"status", "best", "unique"} \subseteq DOMAIN a,
         ScoredAll(c, a, S, limit), c.dist[x] >= 0
  PROVE  ScoredAll(c, ScoreOne(c, limit, a, x), S \cup {x}, limit)
<1> DEFINE b == ScoreOne(c, limit, a, x)
<1>1. c.dist[x] \in Int /\ IsFiniteSet(S)
  BY FS_Subset DEF Rated
<1>2. b = [a EXCEPT !.best = Retain(c, @, limit, x), !.unique = @ + 1]
  BY <1>1 DEF ScoreOne, ScoredAll
<1>3. b.status = 0 /\ b.best = Retain(c, a.best, limit, x) /\ b.unique = a.unique + 1
  BY <1>2 DEF ScoredAll
<1> HIDE DEF b
<1>4. KeptOf(c, b.best, S \cup {x}, limit)
  BY <1>3, RetainKeeps DEF ScoredAll
<1>5. Cardinality(S \cup {x}) = Cardinality(S) + 1
  BY <1>1, FS_AddElement
<1>6. ScoredAll(c, b, S \cup {x}, limit)
  BY <1>3, <1>4, <1>5 DEF ScoredAll
<1> QED
  BY <1>6 DEF b

-----------------------------------------------------------------------------
(* Scans of one support.                                                   *)

(* The members of S that are less than x.                                  *)
Under(S, x) == {y \in S : y < x}

(* Some member of a finite set has no fewer members under it than another. *)
LEMMA LeastUnder ==
  ASSUME NEW S, IsFiniteSet(S), S # {}
  PROVE  \E m \in S : \A y \in S :
           Under(S, y) \subseteq Under(S, m) => Under(S, y) = Under(S, m)
<1> DEFINE T == {Under(S, x) : x \in S}
<1>1. T \in SUBSET (SUBSET S) /\ T # {} /\ IsFiniteSet(S)
  BY DEF Under
<1>2. PICK t \in T : \A y \in T : ~ (y \subseteq t /\ y # t)
  <2> HIDE DEF T
  <2> QED
    BY <1>1, LeastSet
<1>3. PICK m \in S : t = Under(S, m)
  OBVIOUS
<1> QED
  BY <1>2, <1>3

(* A finite set of integers that is not empty has a least member.          *)
LEMMA MinIs ==
  ASSUME NEW S, S \subseteq Int, IsFiniteSet(S), S # {}
  PROVE  Min(S) \in S /\ \A y \in S : Min(S) <= y
<1>1. PICK m \in S : \A y \in S :
        Under(S, y) \subseteq Under(S, m) => Under(S, y) = Under(S, m)
  BY LeastUnder
<1>2. \A y \in S : m <= y
  <2> SUFFICES ASSUME NEW y \in S, y < m PROVE FALSE
    OBVIOUS
  <2>1. y \in Under(S, m) /\ y \notin Under(S, y)
    BY DEF Under
  <2>2. Under(S, y) \subseteq Under(S, m)
    <3>1. \A z \in S : z < y => z < m
      OBVIOUS
    <3> QED
      BY <3>1 DEF Under
  <2> QED
    BY <1>1, <2>1, <2>2
<1> QED
  BY <1>2 DEF Min

(* A call of the kernels.                                                  *)
IsSupport(c) ==
  /\ c.rows \in Nat /\ c.ids \in Seq(Int) /\ c.offsets \in Seq(Int)
  /\ \A x \in 0 .. c.rows - 1 : c.dist[x] \in Int

(* The states of a scan.                                                   *)
Scores == [status : Int, best : SUBSET Int, unique : Int]

(* Scoring leads to a state of a scan.                                     *)
LEMMA ScoreIsTyped ==
  ASSUME NEW c, NEW limit \in Nat, NEW a \in Scores, NEW x \in Int
  PROVE  ScoreOne(c, limit, a, x) \in Scores
<1> DEFINE r == Retain(c, a.best, limit, x)
<1>1. r \subseteq Int
  BY DEF Retain, Scores
<1> HIDE DEF r
<1>2. [a EXCEPT !.best = r, !.unique = @ + 1] \in Scores
  <2>1. /\ a.status \in Int /\ a.unique + 1 \in Int
        /\ DOMAIN a = {"status", "best", "unique"}
    BY DEF Scores
  <2>2. [a EXCEPT !.best = r, !.unique = @ + 1]
          = [k \in {"status", "best", "unique"} |->
               IF k = "unique" THEN a.unique + 1 ELSE IF k = "best" THEN r ELSE a[k]]
    BY <2>1
  <2>3. [k \in {"status", "best", "unique"} |->
               IF k = "unique" THEN a.unique + 1 ELSE IF k = "best" THEN r ELSE a[k]]
          = [status |-> a.status, best |-> r, unique |-> a.unique + 1]
    BY <2>1
  <2> QED
    BY <1>1, <2>1, <2>2, <2>3 DEF Scores
<1>3. [a EXCEPT !.status = 6] \in Scores
  BY DEF Scores
<1>4. ScoreOne(c, limit, a, x) \in {a, [a EXCEPT !.status = 6],
                                    [a EXCEPT !.best = r, !.unique = @ + 1]}
  BY DEF ScoreOne, r
<1> QED
  BY <1>2, <1>3, <1>4

(* So does reading an id and scoring it.                                   *)
LEMMA ScanIsTyped ==
  ASSUME NEW c, IsSupport(c), NEW limit \in Nat, NEW a \in Scores,
         NEW k \in 1 .. Len(c.ids)
  PROVE  ScanOne(c, limit, a, k) \in Scores
<1>1. c.ids[k] \in Int /\ OrderStatus(c, c.ids, k) \in Int
  BY DEF IsSupport, OrderStatus
<1>2. ScoreOne(c, limit, a, c.ids[k]) \in Scores
  BY <1>1, ScoreIsTyped
<1>3. [a EXCEPT !.status = OrderStatus(c, c.ids, k)] \in Scores
  BY <1>1 DEF Scores
<1> QED
  BY <1>2, <1>3 DEF ScanOne

(* The states a of the scan after each of its ids.                         *)
IsScan(c, limit, a) ==
  /\ a \in [0 .. Len(c.ids) -> Scores]
  /\ a[0] = Out(Outer(c), {}, 0)
  /\ \A k \in 0 .. Len(c.ids) - 1 : a[k + 1] = ScanOne(c, limit, a[k], k + 1)

(* What ScanAsRead computes by recursion is the last of the states of a    *)
(* scan.                                                                   *)
LEMMA ScanIs ==
  ASSUME NEW c, IsSupport(c), NEW limit \in Nat
  PROVE  \E a : IsScan(c, limit, a) /\ ScanAsRead(c, limit) = a[Len(c.ids)]
<1> DEFINE n == Len(c.ids)
           b == Out(Outer(c), {}, 0)
           Eq(f) == f = [k \in 0 .. n |-> IF k = 0 THEN b
                                          ELSE ScanOne(c, limit, f[k - 1], k)]
           G == [p \in (0 .. n - 1) \X Scores |-> ScanOne(c, limit, p[2], p[1] + 1)]
<1>1. n \in Nat /\ b \in Scores
  BY DEF IsSupport, Out, Outer, Scores
<1>2. \A p \in (0 .. n - 1) \X Scores : ScanOne(c, limit, p[2], p[1] + 1) \in Scores
  <2> TAKE p \in (0 .. n - 1) \X Scores
  <2>1. p[2] \in Scores /\ p[1] + 1 \in 1 .. n
    BY <1>1
  <2> QED
    BY <2>1, ScanIsTyped
<1>3. PICK r \in [0 .. n -> Scores] :
        r[0] = b /\ \A k \in 0 .. n - 1 : r[k + 1] = ScanOne(c, limit, r[k], k + 1)
  <2>1. b \in Scores /\ n \in Nat /\ IsStep(G, n, Scores)
    BY <1>1, <1>2 DEF IsStep
  <2>2. \A k \in 0 .. n - 1, s \in Scores : G[<<k, s>>] = ScanOne(c, limit, s, k + 1)
    OBVIOUS
  <2> HIDE DEF G, b, n
  <2>3. PICK r \in [0 .. n -> Scores] : IsRun(r, n, b, G)
    BY <2>1, RunExists
  <2>4. r[0] = b /\ \A k \in 0 .. n - 1 : r[k + 1] = ScanOne(c, limit, r[k], k + 1)
    <3>1. \A k \in 0 .. n - 1 : r[k] \in Scores
      BY <1>1
    <3> QED
      BY <2>2, <2>3, <3>1 DEF IsRun
  <2> QED
    BY <2>4
<1>4. Eq(r)
  <2>1. ASSUME NEW k \in 0 .. n
        PROVE  r[k] = IF k = 0 THEN b ELSE ScanOne(c, limit, r[k - 1], k)
    <3>1. CASE k = 0
      BY <1>3, <3>1
    <3>2. CASE k # 0
      <4>1. k - 1 \in 0 .. n - 1 /\ k - 1 + 1 = k
        BY <1>1, <3>2
      <4> HIDE DEF b, n
      <4> QED
        BY <1>3, <3>2, <4>1
    <3> QED
      BY <3>1, <3>2
  <2> HIDE DEF b, n
  <2> QED
    BY <1>3, <2>1
<1>5. Eq(CHOOSE f : Eq(f))
  <2> HIDE DEF Eq
  <2> QED
    BY <1>4
<1> DEFINE f == CHOOSE g : Eq(g)
<1>6. ScanAsRead(c, limit) = f[n]
  BY DEF ScanAsRead
<1>7. f = [k \in 0 .. n |-> IF k = 0 THEN b ELSE ScanOne(c, limit, f[k - 1], k)]
  BY <1>5
<1> HIDE DEF f, b, n
<1>8. f[0] = b /\ \A k \in 0 .. n - 1 : f[k + 1] = ScanOne(c, limit, f[k], k + 1)
  <2>1. 0 \in 0 .. n
    BY <1>1
  <2>2. ASSUME NEW k \in 0 .. n - 1 PROVE f[k + 1] = ScanOne(c, limit, f[k], k + 1)
    <3> DEFINE h == k + 1
    <3>1. h \in 0 .. n /\ h # 0 /\ h - 1 = k
      BY <1>1
    <3> HIDE DEF h
    <3>2. f[h] = ScanOne(c, limit, f[h - 1], h)
      BY <1>7, <3>1
    <3> QED
      BY <3>1, <3>2 DEF h
  <2> QED
    BY <1>7, <2>1, <2>2
<1>9. f \in [0 .. n -> Scores]
  <2> DEFINE S == {k \in 0 .. n : f[k] \in Scores}
  <2>1. 0 \in S
    BY <1>1, <1>8
  <2>2. ASSUME NEW k \in 0 .. n - 1, k \in S PROVE k + 1 \in S
    <3>1. k + 1 \in 1 .. n /\ k + 1 \in 0 .. n
      BY <1>1
    <3>2. ScanOne(c, limit, f[k], k + 1) \in Scores
      BY <2>2, <3>1, ScanIsTyped DEF n
    <3> QED
      BY <1>8, <3>1, <3>2
  <2> HIDE DEF S
  <2>3. \A k \in 0 .. n : k \in S
    BY <1>1, <2>1, <2>2, CountUp
  <2>4. \A k \in 0 .. n : f[k] \in Scores
    BY <2>3 DEF S
  <2> QED
    BY <1>7, <2>4
<1> QED
  BY <1>6, <1>8, <1>9 DEF IsScan, b, n

-----------------------------------------------------------------------------
(* What the scans find.                                                    *)

(* The first k ids are in range and in order.                              *)
InOrder(c, k) == \A i \in 1 .. k : OrderStatus(c, c.ids, i) = 0

(* And every one of them has a finite distance.                            *)
Fine(c, k) == InOrder(c, k) /\ \A i \in 1 .. k : c.dist[c.ids[i]] >= 0

(* The first k ids.                                                        *)
FirstIds(c, k) == {c.ids[i] : i \in 1 .. k}

(* Checked against its neighbour each, the ids rise throughout.            *)
LEMMA OrderIs ==
  ASSUME NEW c, IsSupport(c), NEW k \in 0 .. Len(c.ids), InOrder(c, k)
  PROVE  /\ \A i \in 1 .. k : c.ids[i] \in 0 .. c.rows - 1
         /\ \A i, j \in 1 .. k : i < j => c.ids[i] < c.ids[j]
<1>0. Len(c.ids) \in Nat /\ \A i \in 1 .. Len(c.ids) : c.ids[i] \in Int
  BY DEF IsSupport
<1>1. \A i \in 1 .. k : c.ids[i] \in 0 .. c.rows - 1
  BY DEF InOrder, OrderStatus
<1>2. \A i \in 1 .. k : i > 1 => c.ids[i - 1] < c.ids[i]
  <2> SUFFICES ASSUME NEW i \in 1 .. k, i > 1 PROVE c.ids[i - 1] < c.ids[i]
    OBVIOUS
  <2>1. c.ids[i] \in Int /\ c.ids[i - 1] \in Int
    BY <1>0
  <2> QED
    BY <2>1 DEF InOrder, OrderStatus
<1> DEFINE S == {m \in 0 .. k : \A i, j \in 1 .. m : i < j => c.ids[i] < c.ids[j]}
<1>3. 0 \in S
  OBVIOUS
<1>4. ASSUME NEW m \in 0 .. k - 1, m \in S PROVE m + 1 \in S
  <2>1. m + 1 \in 0 .. k /\ m + 1 \in 1 .. k
    OBVIOUS
  <2>2. ASSUME NEW i \in 1 .. m + 1, NEW j \in 1 .. m + 1, i < j
        PROVE  c.ids[i] < c.ids[j]
    <3>1. CASE j \in 1 .. m
      BY <1>4, <2>2, <3>1
    <3>2. CASE j = m + 1
      <4>1. m \in 1 .. m /\ i \in 1 .. m /\ c.ids[m] < c.ids[j]
        <5>1. j \in 1 .. k /\ j > 1 /\ j - 1 = m
          BY <2>1, <2>2, <3>2
        <5> QED
          BY <1>2, <2>2, <3>2, <5>1
      <4>2. i = m \/ c.ids[i] < c.ids[m]
        BY <1>4, <4>1
      <4>3. c.ids[i] \in Int /\ c.ids[m] \in Int /\ c.ids[j] \in Int
        BY <1>0, <2>1, <4>1, <3>2
      <4> QED
        BY <4>1, <4>2, <4>3
    <3> QED
      BY <3>1, <3>2
  <2> QED
    BY <2>1, <2>2
<1>5. k \in S
  <2>1. k \in Nat /\ k \in 0 .. k
    OBVIOUS
  <2> HIDE DEF S
  <2> QED
    BY <1>3, <1>4, <2>1, CountUp
<1> QED
  BY <1>1, <1>5

(* The first k ids are k different rows.                                   *)
LEMMA FirstIdsAre ==
  ASSUME NEW c, IsSupport(c), NEW k \in 0 .. Len(c.ids), InOrder(c, k)
  PROVE  /\ Rated(c, FirstIds(c, k)) /\ FirstIds(c, k) \subseteq 0 .. c.rows - 1
         /\ Cardinality(FirstIds(c, k)) = k
<1> DEFINE N == 1 .. k
           f == [i \in N |-> c.ids[i]]
<1>1. FirstIds(c, k) \subseteq 0 .. c.rows - 1
  BY OrderIs DEF FirstIds
<1>2. IsFiniteSet(N) /\ Cardinality(N) = k
  BY FS_Interval
<1>3. \A x, y \in N : f[x] = f[y] => x = y
  <2> SUFFICES ASSUME NEW x \in N, NEW y \in N, f[x] = f[y], x # y PROVE FALSE
    OBVIOUS
  <2>1. c.ids[x] = c.ids[y] /\ c.ids[x] \in Int /\ (x < y \/ y < x)
    BY DEF IsSupport
  <2> QED
    BY <2>1, OrderIs
<1>4. FirstIds(c, k) = {f[i] : i \in N}
  BY DEF FirstIds
<1> HIDE DEF f, N
<1>5. IsFiniteSet(FirstIds(c, k)) /\ Cardinality(FirstIds(c, k)) = k
  BY <1>2, <1>3, <1>4, ImageCard
<1> QED
  BY <1>1, <1>5 DEF Rated, IsSupport

(* What the next id adds to the first k.                                   *)
LEMMA FirstIdsStep ==
  ASSUME NEW c, IsSupport(c), NEW k \in 0 .. Len(c.ids) - 1
  PROVE  /\ FirstIds(c, k + 1) = FirstIds(c, k) \cup {c.ids[k + 1]}
         /\ InOrder(c, k + 1) <=> InOrder(c, k) /\ OrderStatus(c, c.ids, k + 1) = 0
         /\ Fine(c, k + 1) <=> /\ Fine(c, k) /\ OrderStatus(c, c.ids, k + 1) = 0
                               /\ c.dist[c.ids[k + 1]] >= 0
         /\ InOrder(c, k + 1) => c.ids[k + 1] \notin FirstIds(c, k)
<1>1. 1 .. k + 1 = (1 .. k) \cup {k + 1}
  OBVIOUS
<1>2. ASSUME InOrder(c, k + 1) PROVE c.ids[k + 1] \notin FirstIds(c, k)
  <2>1. k + 1 \in 0 .. Len(c.ids)
    OBVIOUS
  <2>2. \A i \in 1 .. k : i \in 1 .. k + 1 /\ k + 1 \in 1 .. k + 1 /\ i < k + 1
    OBVIOUS
  <2>3. \A i \in 1 .. k : c.ids[i] < c.ids[k + 1]
    <3> DEFINE h == k + 1
    <3>1. h \in 0 .. Len(c.ids) /\ InOrder(c, h)
            /\ \A i \in 1 .. k : i \in 1 .. h /\ h \in 1 .. h /\ i < h
      BY <1>2, <2>1, <2>2
    <3> HIDE DEF h
    <3>2. \A i \in 1 .. k : c.ids[i] < c.ids[h]
      BY <3>1, OrderIs
    <3> QED
      BY <3>2 DEF h
  <2>4. \A i \in 1 .. k + 1 : c.ids[i] \in Int
    BY DEF IsSupport
  <2> QED
    BY <2>2, <2>3, <2>4 DEF FirstIds
<1> QED
  BY <1>1, <1>2 DEF FirstIds, InOrder, Fine

(* A scan goes on as long as its ids are fine, and keeps their nearest.    *)
LEMMA ScanFinds ==
  ASSUME NEW c, IsSupport(c), NEW limit \in Nat \ {0}, NEW a, IsScan(c, limit, a)
  PROVE  \A k \in 0 .. Len(c.ids) :
           /\ a[k].status = 0 <=> Outer(c) = 0 /\ Fine(c, k)
           /\ a[k].status = 0 => ScoredAll(c, a[k], FirstIds(c, k), limit)
<1> DEFINE n == Len(c.ids)
           P(k) == /\ a[k].status = 0 <=> Outer(c) = 0 /\ Fine(c, k)
                   /\ a[k].status = 0 => ScoredAll(c, a[k], FirstIds(c, k), limit)
           S == {k \in 0 .. n : P(k)}
<1>0. n \in Nat /\ \A k \in 0 .. n : a[k] \in Scores
  BY DEF IsSupport, IsScan
<1>1. 0 \in S
  <2>1. Fine(c, 0) /\ FirstIds(c, 0) = {}
    BY DEF Fine, InOrder, FirstIds
  <2>2. a[0].status = Outer(c) /\ a[0].best = {} /\ a[0].unique = 0
    BY DEF IsScan, Out
  <2>3. KeptOf(c, {}, {}, limit) /\ Cardinality({}) = 0
    BY FS_EmptySet DEF KeptOf
  <2>4. a[0].status = 0 => ScoredAll(c, a[0], FirstIds(c, 0), limit)
    BY <2>1, <2>2, <2>3 DEF ScoredAll
  <2>5. 0 \in 0 .. n
    BY <1>0
  <2> QED
    BY <2>1, <2>2, <2>4, <2>5
<1>2. ASSUME NEW k \in 0 .. n - 1, P(k) PROVE P(k + 1)
  <2> DEFINE x == c.ids[k + 1]
  <2>1. /\ a[k + 1] = ScanOne(c, limit, a[k], k + 1) /\ a[k] \in Scores
        /\ k \in 0 .. n /\ k + 1 \in 0 .. n /\ k + 1 \in 1 .. n /\ x \in Int
    BY <1>0 DEF IsScan, IsSupport
  <2>2. /\ FirstIds(c, k + 1) = FirstIds(c, k) \cup {x}
        /\ InOrder(c, k + 1) <=> InOrder(c, k) /\ OrderStatus(c, c.ids, k + 1) = 0
        /\ Fine(c, k + 1) <=> /\ Fine(c, k) /\ OrderStatus(c, c.ids, k + 1) = 0
                              /\ c.dist[x] >= 0
        /\ InOrder(c, k + 1) => x \notin FirstIds(c, k)
    BY FirstIdsStep
  <2> HIDE DEF x
  <2>3. CASE a[k].status # 0
    <3>1. a[k + 1] = a[k]
      BY <2>1, <2>3 DEF ScanOne
    <3> QED
      BY <1>2, <2>2, <2>3, <3>1
  <2>4. CASE a[k].status = 0 /\ OrderStatus(c, c.ids, k + 1) # 0
    <3>1. a[k + 1].status # 0
      BY <2>1, <2>4 DEF ScanOne, Scores
    <3> QED
      BY <2>2, <2>4, <3>1
  <2>5. CASE a[k].status = 0 /\ OrderStatus(c, c.ids, k + 1) = 0
    <3>0. /\ Outer(c) = 0 /\ Fine(c, k) /\ InOrder(c, k + 1)
          /\ ScoredAll(c, a[k], FirstIds(c, k), limit)
      BY <1>2, <2>2, <2>5 DEF Fine
    <3>1. a[k + 1] = ScoreOne(c, limit, a[k], x)
      BY <2>1, <2>5 DEF ScanOne, x
    <3>2. Rated(c, FirstIds(c, k) \cup {x}) /\ x \notin FirstIds(c, k)
      <4> DEFINE h == k + 1
      <4>1. h \in 0 .. Len(c.ids) /\ InOrder(c, h)
        BY <2>1, <3>0
      <4> HIDE DEF h
      <4>2. Rated(c, FirstIds(c, h))
        BY <4>1, FirstIdsAre
      <4> QED
        BY <2>2, <3>0, <4>2 DEF h
    <3>3. CASE c.dist[x] >= 0
      <4>1. {"status", "best", "unique"} \subseteq DOMAIN a[k]
        BY <2>1 DEF Scores
      <4> DEFINE b == a[k]
                 T == FirstIds(c, k)
      <4>2. /\ Rated(c, T \cup {x}) /\ x \notin T /\ ScoredAll(c, b, T, limit)
            /\ {"status", "best", "unique"} \subseteq DOMAIN b
        BY <3>0, <3>2, <4>1
      <4> HIDE DEF b, T
      <4>3. ScoredAll(c, ScoreOne(c, limit, b, x), T \cup {x}, limit)
        BY <3>3, <4>2, ScoreKeeps
      <4>4. ScoredAll(c, a[k + 1], FirstIds(c, k + 1), limit)
        BY <2>2, <3>1, <4>3 DEF b, T
      <4>5. a[k + 1].status = 0
        BY <4>4 DEF ScoredAll
      <4> QED
        BY <2>2, <2>5, <3>0, <3>3, <4>4, <4>5
    <3>4. CASE ~ (c.dist[x] >= 0)
      <4>1. c.dist[x] < 0
        BY <3>2, <3>4 DEF Rated
      <4>2. a[k + 1].status = 6
        BY <2>1, <2>5, <3>1, <4>1 DEF ScoreOne, Scores
      <4> QED
        BY <2>2, <3>4, <4>2
    <3> QED
      BY <3>3, <3>4
  <2> QED
    BY <2>3, <2>4, <2>5
<1>3. \A k \in 0 .. n - 1 : k \in S => k + 1 \in S
  <2> HIDE DEF P
  <2> QED
    BY <1>0, <1>2
<1>4. \A k \in 0 .. n : k \in S
  <2> HIDE DEF S, n
  <2> QED
    BY <1>0, <1>1, <1>3, CountUp
<1> QED
  BY <1>4

(* What a scan answers.                                                    *)
LEMMA ScanAnswers ==
  ASSUME NEW c, IsSupport(c), NEW limit \in Nat \ {0}
  PROVE  LET r == ScanAsRead(c, limit)
         IN /\ r \in Scores
            /\ r.status = 0 <=> Outer(c) = 0 /\ Fine(c, Len(c.ids))
            /\ r.status = 0 => /\ r.best = NearestIds(c, ToSet(c.ids), limit)
                               /\ r.unique = Cardinality(ToSet(c.ids))
<1> DEFINE n == Len(c.ids)
<1>1. PICK a : IsScan(c, limit, a) /\ ScanAsRead(c, limit) = a[n]
  BY ScanIs
<1>2. n \in 0 .. n /\ a[n] \in Scores
  BY <1>1 DEF IsSupport, IsScan
<1>3. /\ a[n].status = 0 <=> Outer(c) = 0 /\ Fine(c, n)
      /\ a[n].status = 0 => ScoredAll(c, a[n], FirstIds(c, n), limit)
  BY <1>1, <1>2, ScanFinds
<1>4. ToSet(c.ids) = FirstIds(c, n)
  BY DEF ToSet, FirstIds, IsSupport
<1>5. Fine(c, n) => Rated(c, FirstIds(c, n))
  BY <1>2, FirstIdsAre DEF Fine
<1> HIDE DEF n
<1>6. ASSUME a[n].status = 0
      PROVE  /\ a[n].best = NearestIds(c, ToSet(c.ids), limit)
             /\ a[n].unique = Cardinality(ToSet(c.ids))
  <2>1. /\ Rated(c, FirstIds(c, n)) /\ KeptOf(c, a[n].best, FirstIds(c, n), limit)
        /\ a[n].unique = Cardinality(FirstIds(c, n))
    BY <1>3, <1>5, <1>6 DEF ScoredAll
  <2>2. a[n].best = NearestIds(c, FirstIds(c, n), limit)
    BY <2>1, KeptIsNearest
  <2> QED
    BY <1>4, <2>1, <2>2
<1> QED
  BY <1>1, <1>2, <1>3, <1>6 DEF n

-----------------------------------------------------------------------------
(* The interleaved scorer and the sort.                                    *)

LEMMA ValidatedIs ==
  ASSUME NEW c, IsSupport(c), NEW limit \in Nat \ {0}, Outer(c) = 0,
         InOrder(c, Len(c.ids))
  PROVE  ScanValidated(c, c.ids, limit) = ScanAsRead(c, limit)
<1> DEFINE n == Len(c.ids)
           b == Out(0, {}, 0)
           Eq(f) == f = [k \in 0 .. n |-> IF k = 0 THEN b
                                          ELSE ScoreOne(c, limit, f[k - 1], c.ids[k])]
<1>0. n \in Nat
  BY DEF IsSupport
<1>1. PICK a : IsScan(c, limit, a) /\ ScanAsRead(c, limit) = a[n]
  BY ScanIs
<1>2. ASSUME NEW k \in 0 .. n - 1
      PROVE  a[k + 1] = ScoreOne(c, limit, a[k], c.ids[k + 1])
  <2>1. k + 1 \in 1 .. n
    BY <1>0
  <2>2. a[k + 1] = ScanOne(c, limit, a[k], k + 1) /\ OrderStatus(c, c.ids, k + 1) = 0
    BY <1>1, <2>1 DEF IsScan, InOrder
  <2> QED
    BY <2>2 DEF ScanOne, ScoreOne
<1>3. DOMAIN a = 0 .. n /\ a[0] = b /\ a = [k \in 0 .. n |-> a[k]]
  BY <1>1 DEF IsScan
<1>4. Eq(a)
  <2>1. ASSUME NEW k \in 0 .. n
        PROVE  a[k] = IF k = 0 THEN b ELSE ScoreOne(c, limit, a[k - 1], c.ids[k])
    <3>1. CASE k = 0
      BY <1>3, <3>1
    <3>2. CASE k # 0
      <4> DEFINE j == k - 1
      <4>1. j \in 0 .. n - 1 /\ j + 1 = k
        BY <1>0, <3>2
      <4> HIDE DEF j
      <4>2. a[k] = ScoreOne(c, limit, a[j], c.ids[k])
        BY <1>2, <4>1
      <4> QED
        BY <3>2, <4>2 DEF j
    <3> QED
      BY <3>1, <3>2
  <2> HIDE DEF b, n
  <2> QED
    BY <1>3, <2>1
<1>5. Eq(CHOOSE f : Eq(f))
  <2> HIDE DEF Eq
  <2> QED
    BY <1>4
<1> DEFINE f == CHOOSE g : Eq(g)
           wrong == {k \in 1 .. n : OrderStatus(c, c.ids, k) # 0}
<1>6. wrong = {}
  BY DEF InOrder
<1>7. ScanValidated(c, c.ids, limit) = f[n]
  BY <1>6 DEF ScanValidated
<1>8. f = [k \in 0 .. n |-> IF k = 0 THEN b ELSE ScoreOne(c, limit, f[k - 1], c.ids[k])]
  BY <1>5
<1> HIDE DEF f, b, n
<1> DEFINE S == {k \in 0 .. n : f[k] = a[k]}
<1>9. 0 \in S
  BY <1>0, <1>3, <1>8
<1>10. ASSUME NEW k \in 0 .. n - 1, k \in S PROVE k + 1 \in S
  <2> DEFINE h == k + 1
  <2>1. h \in 0 .. n /\ h # 0 /\ h - 1 = k
    BY <1>0
  <2> HIDE DEF h
  <2>2. f[h] = ScoreOne(c, limit, f[h - 1], c.ids[h])
    BY <1>8, <2>1
  <2>3. a[h] = ScoreOne(c, limit, a[k], c.ids[h])
    BY <1>2 DEF h
  <2>4. f[k] = a[k]
    BY <1>10
  <2>5. h \in S
    BY <2>1, <2>2, <2>3, <2>4
  <2> QED
    BY <2>5 DEF h
<1>11. n \in S
  <2> HIDE DEF S
  <2>1. n \in 0 .. n
    BY <1>0
  <2> QED
    BY <1>0, <1>9, <1>10, <2>1, CountUp
<1> QED
  BY <1>1, <1>7, <1>11

(* The two scorers answer for the same supports, and alike.                *)
LEMMA RetainedIs ==
  ASSUME NEW c, IsSupport(c)
  PROVE  LET r == RetainedTop11(c)
             l == RetainedTop11Legacy(c)
         IN /\ r.status = 0 => r = l
            /\ l.status = 0 => r.status = 0
            /\ r.status = 0 => Outer(c) = 0 /\ Fine(c, Len(c.ids))
<1> DEFINE n == Len(c.ids)
           wrong == {k \in 1 .. n : OrderStatus(c, c.ids, k) # 0}
           r == RetainedTop11(c)
           l == RetainedTop11Legacy(c)
<1>0. n \in Nat /\ TopK + 1 \in Nat \ {0}
  BY TopAssumption DEF IsSupport
<1>1. l.status = 0 <=> Outer(c) = 0 /\ Fine(c, n)
  BY <1>0, ScanAnswers DEF RetainedTop11Legacy
<1>2. CASE Outer(c) # 0
  <2>1. r.status # 0
    BY <1>2 DEF RetainedTop11, Out
  <2> QED
    BY <1>1, <1>2, <2>1
<1>3. CASE Outer(c) = 0 /\ wrong = {}
  <2>1. InOrder(c, n)
    BY <1>3 DEF InOrder
  <2>2. r = l
    BY <1>0, <1>3, <2>1, ValidatedIs DEF RetainedTop11, RetainedTop11Legacy
  <2> HIDE DEF r, l
  <2> QED
    BY <1>1, <2>2 DEF r, l
<1>4. CASE Outer(c) = 0 /\ wrong # {}
  <2>1. r = Out(OrderStatus(c, c.ids, Min(wrong)), {}, 0)
    BY <1>4 DEF RetainedTop11, ScanValidated
  <2>2. wrong \subseteq Int /\ IsFiniteSet(wrong)
    <3> DEFINE N == 1 .. n
    <3>1. IsFiniteSet(N) /\ wrong \subseteq N
      <4>1. wrong \subseteq N
        OBVIOUS
      <4> HIDE DEF wrong, n
      <4>2. IsFiniteSet(N)
        BY <1>0, FS_Interval
      <4> QED
        BY <4>1, <4>2
    <3> HIDE DEF N, wrong
    <3>2. IsFiniteSet(wrong)
      BY <3>1, FS_Subset
    <3> QED
      BY <3>1, <3>2 DEF N
  <2>3. Min(wrong) \in wrong
    <3> HIDE DEF wrong
    <3> QED
      BY <1>4, <2>2, MinIs
  <2>4. r.status # 0
    BY <2>1, <2>3 DEF Out
  <2>5. ~ Fine(c, n)
    BY <1>4 DEF Fine, InOrder
  <2> HIDE DEF r, l, wrong
  <2> QED
    BY <1>1, <2>4, <2>5 DEF r, l
<1> QED
  BY <1>2, <1>3, <1>4

(* Ids that are in order are sorted already.                               *)
LEMMA SortedAlready ==
  ASSUME NEW c, IsSupport(c), InOrder(c, Len(c.ids))
  PROVE  Ascending(ToSet(c.ids)) = c.ids
<1> DEFINE n == Len(c.ids)
           S == ToSet(c.ids)
<1>0. n \in Nat /\ n \in 0 .. n /\ InOrder(c, n)
  BY DEF IsSupport
<1>1. S = FirstIds(c, n)
  BY DEF ToSet, FirstIds, IsSupport
<1>2. Cardinality(S) = n
  BY <1>0, <1>1, FirstIdsAre
<1>3. ASSUME NEW m \in 1 .. n
      PROVE  c.ids[m] \in S /\ Cardinality({y \in S : y < c.ids[m]}) = m - 1
  <2>1. m - 1 \in 0 .. n /\ InOrder(c, m - 1)
    BY <1>0 DEF InOrder
  <2>2. {y \in S : y < c.ids[m]} = FirstIds(c, m - 1)
    <3>1. \A i \in 1 .. n : c.ids[i] \in Int
      BY DEF IsSupport
    <3>2. \A i \in 1 .. n : c.ids[i] < c.ids[m] <=> i \in 1 .. m - 1
      <4> SUFFICES ASSUME NEW i \in 1 .. n PROVE c.ids[i] < c.ids[m] <=> i \in 1 .. m - 1
        OBVIOUS
      <4>1. /\ i < m => c.ids[i] < c.ids[m]
            /\ m < i => c.ids[m] < c.ids[i]
        BY <1>0, OrderIs
      <4> QED
        BY <3>1, <4>1
    <3>3. 1 .. m - 1 \subseteq 1 .. n
      BY <1>0
    <3> QED
      BY <1>1, <3>2, <3>3 DEF FirstIds
  <2>3. Cardinality(FirstIds(c, m - 1)) = m - 1
    <3> DEFINE h == m - 1
    <3>1. h \in 0 .. Len(c.ids) /\ InOrder(c, h)
      BY <2>1
    <3> HIDE DEF h
    <3>2. Cardinality(FirstIds(c, h)) = h
      BY <3>1, FirstIdsAre
    <3> QED
      BY <3>2 DEF h
  <2>4. c.ids[m] \in S
    BY <1>1 DEF FirstIds
  <2> QED
    BY <2>2, <2>3, <2>4
<1>4. ASSUME NEW m \in 1 .. n
      PROVE  (CHOOSE x \in S : Cardinality({y \in S : y < x}) = m - 1) = c.ids[m]
  <2> DEFINE Count(x) == Cardinality({y \in S : y < x})
             x0 == CHOOSE x \in S : Count(x) = m - 1
  <2>1. c.ids[m] \in S /\ Count(c.ids[m]) = m - 1
    BY <1>3
  <2>2. x0 \in S /\ Count(x0) = m - 1
    <3> HIDE DEF Count, S
    <3> QED
      BY <2>1
  <2>3. PICK j \in 1 .. n : x0 = c.ids[j]
    BY <1>1, <2>2 DEF FirstIds
  <2>4. Count(x0) = j - 1
    BY <1>3, <2>3
  <2>5. j = m
    <3> HIDE DEF Count, x0
    <3> QED
      BY <1>0, <2>2, <2>4
  <2> QED
    BY <2>3, <2>5
<1>5. c.ids = [m \in 1 .. n |-> c.ids[m]]
  <2> DEFINE s == c.ids
  <2>1. s \in Seq(Int)
    BY DEF IsSupport
  <2> HIDE DEF s
  <2>2. s \in [1 .. Len(s) -> Int]
    BY <2>1, LenProperties
  <2>3. s = [m \in 1 .. Len(s) |-> s[m]]
    BY <2>2
  <2> QED
    BY <2>3 DEF s
<1> HIDE DEF S, n
<1>6. Ascending(S) = [m \in 1 .. n |-> CHOOSE x \in S : Cardinality({y \in S : y < x}) = m - 1]
  BY <1>2 DEF Ascending
<1>7. Ascending(S) = [m \in 1 .. n |-> c.ids[m]]
  <2> DEFINE Pick(m) == CHOOSE x \in S : Cardinality({y \in S : y < x}) = m - 1
  <2>1. \A m \in 1 .. n : Pick(m) = c.ids[m]
    BY <1>4
  <2>2. Ascending(S) = [m \in 1 .. n |-> Pick(m)]
    BY <1>6
  <2> HIDE DEF Pick
  <2> QED
    BY <2>1, <2>2
<1> QED
  BY <1>5, <1>7 DEF S

-----------------------------------------------------------------------------
(* Segments.                                                               *)

(* The places of segment s.                                                *)
Places(c, s) == {n \in 1 .. Len(c.ids) : c.offsets[s] < n /\ n <= c.offsets[s + 1]}

(* The offsets cut the ids into segments, and each is in order.            *)
WellCut(c) ==
  /\ c.offsets # <<>> /\ c.offsets[1] = 0 /\ c.offsets[Len(c.offsets)] = Len(c.ids)
  /\ \A s \in Segments(c) :
       /\ c.offsets[s] < c.offsets[s + 1] /\ c.offsets[s + 1] <= Len(c.ids)
       /\ \A n \in Places(c, s) :
            /\ c.ids[n] \in 0 .. c.rows - 1
            /\ n > c.offsets[s] + 1 => c.ids[n - 1] < c.ids[n]

(* Naturals up to n are few, however they are chosen.                      *)
LEMMA FewOf ==
  ASSUME NEW n \in Nat, NEW S, S \subseteq 1 .. n
  PROVE  S \subseteq Int /\ IsFiniteSet(S)
<1> DEFINE N == 1 .. n
<1>1. IsFiniteSet(N) /\ N \subseteq Int
  BY FS_Interval
<1>2. S \subseteq N
  OBVIOUS
<1> HIDE DEF N
<1> QED
  BY <1>1, <1>2, FS_Subset

(* The bounds of the segments are integers, and segments are few.          *)
LEMMA SegmentsAre ==
  ASSUME NEW c, IsSupport(c)
  PROVE  /\ Len(c.ids) \in Nat /\ Len(c.offsets) \in Nat
         /\ \A s \in Segments(c) : /\ s \in 1 .. Len(c.offsets) - 1
                                   /\ s \in 1 .. Len(c.offsets)
                                   /\ s + 1 \in 1 .. Len(c.offsets)
                                   /\ c.offsets[s] \in Int /\ c.offsets[s + 1] \in Int
         /\ \A n \in 1 .. Len(c.ids) : c.ids[n] \in Int
         /\ IsFiniteSet(Segments(c)) /\ Segments(c) \subseteq Int
<1>1. Len(c.ids) \in Nat /\ Len(c.offsets) \in Nat
  BY DEF IsSupport
<1>2. \A m \in 1 .. Len(c.offsets) : c.offsets[m] \in Int
  BY DEF IsSupport
<1>3. \A s \in Segments(c) : /\ s \in 1 .. Len(c.offsets) - 1
                             /\ s \in 1 .. Len(c.offsets)
                             /\ s + 1 \in 1 .. Len(c.offsets)
  BY <1>1 DEF Segments
<1>4. Segments(c) \subseteq 1 .. Len(c.offsets)
  BY <1>1 DEF Segments
<1> DEFINE m == Len(c.offsets)
<1>5. m \in Nat /\ Segments(c) \subseteq 1 .. m
  BY <1>1, <1>4
<1> HIDE DEF m
<1>6. Segments(c) \subseteq Int /\ IsFiniteSet(Segments(c))
  BY <1>5, FewOf
<1>7. \A n \in 1 .. Len(c.ids) : c.ids[n] \in Int
  BY DEF IsSupport
<1> QED
  BY <1>1, <1>2, <1>3, <1>6, <1>7

(* Offsets that rise are none below 0.                                     *)
LEMMA OffsetsRise ==
  ASSUME NEW c, IsSupport(c), c.offsets # <<>>, c.offsets[1] = 0,
         \A s \in Segments(c) : c.offsets[s] < c.offsets[s + 1]
  PROVE  \A m \in 1 .. Len(c.offsets) : c.offsets[m] >= 0
<1> DEFINE n == Len(c.offsets) - 1
           S == {m \in 0 .. n : c.offsets[m + 1] >= 0}
<1>1. n \in Nat /\ \A m \in 1 .. n + 1 : c.offsets[m] \in Int
  <2>1. Len(c.offsets) # 0
    BY DEF IsSupport
  <2> QED
    BY <2>1 DEF IsSupport
<1>2. 0 \in S
  BY <1>1
<1>3. ASSUME NEW m \in 0 .. n - 1, m \in S PROVE m + 1 \in S
  <2>1. m + 1 \in Segments(c) /\ m + 1 \in 1 .. n + 1 /\ m + 2 \in 1 .. n + 1
          /\ m + 1 + 1 = m + 2 /\ m + 1 \in 0 .. n
    BY <1>1 DEF Segments
  <2>2. c.offsets[m + 1] < c.offsets[m + 2]
    BY <2>1
  <2>3. c.offsets[m + 1] \in Int /\ c.offsets[m + 2] \in Int
    BY <1>1, <2>1
  <2> QED
    BY <1>3, <2>1, <2>2, <2>3
<1>4. \A m \in 0 .. n : m \in S
  <2> HIDE DEF S, n
  <2> QED
    BY <1>1, <1>2, <1>3, CountUp
<1>5. ASSUME NEW m \in 1 .. Len(c.offsets) PROVE c.offsets[m] >= 0
  <2> DEFINE k == m - 1
  <2>1. k \in 0 .. n /\ k + 1 = m
    BY <1>1
  <2> HIDE DEF k
  <2>2. k \in S
    BY <1>4, <2>1
  <2> QED
    BY <2>1, <2>2
<1> QED
  BY <1>5

(* Segments that are accepted are well cut.                                *)
LEMMA OuterIsCut ==
  ASSUME NEW c, IsSupport(c), SegmentedOuter(c) = 0
  PROVE  WellCut(c)
<1> DEFINE bad == {s \in Segments(c) : SegmentStatus(c, s) # 0}
<1>1. /\ Segments(c) # {} /\ c.offsets[1] = 0 /\ Last(c.offsets) = Len(c.ids)
      /\ bad # {} => SegmentStatus(c, Min(bad)) = 0
  BY DEF SegmentedOuter
<1>2. bad = {}
  <2> SUFFICES ASSUME bad # {} PROVE FALSE
    OBVIOUS
  <2>1. bad \subseteq Segments(c)
    OBVIOUS
  <2> HIDE DEF bad
  <2>2. IsFiniteSet(bad) /\ bad \subseteq Int
    BY <2>1, SegmentsAre, FS_Subset
  <2>3. Min(bad) \in bad
    BY <2>2, MinIs
  <2> QED
    BY <1>1, <2>3 DEF bad
<1>3. \A s \in Segments(c) :
        c.offsets[s] < c.offsets[s + 1] /\ c.offsets[s + 1] <= Len(c.ids)
  <2> TAKE s \in Segments(c)
  <2>1. SegmentStatus(c, s) = 0
    BY <1>2
  <2>2. ~ (c.offsets[s] >= c.offsets[s + 1] \/ c.offsets[s + 1] > Len(c.ids))
    BY <2>1 DEF SegmentStatus
  <2>3. c.offsets[s] \in Int /\ c.offsets[s + 1] \in Int /\ Len(c.ids) \in Nat
    BY SegmentsAre
  <2> QED
    BY <2>2, <2>3
<1>4. c.offsets # <<>> /\ c.offsets[Len(c.offsets)] = Len(c.ids)
  BY <1>1 DEF Segments, Last
<1>5. ASSUME NEW s \in Segments(c)
      PROVE  /\ c.offsets[s] < c.offsets[s + 1] /\ c.offsets[s + 1] <= Len(c.ids)
             /\ \A n \in Places(c, s) :
                  /\ c.ids[n] \in 0 .. c.rows - 1
                  /\ n > c.offsets[s] + 1 => c.ids[n - 1] < c.ids[n]
  <2> DEFINE wrong == {n \in Places(c, s) :
                  \/ c.ids[n] \notin 0 .. c.rows - 1
                  \/ n > c.offsets[s] + 1 /\ c.ids[n] <= c.ids[n - 1]}
  <2>1. SegmentStatus(c, s) = 0
    BY <1>2
  <2>2. SegmentStatus(c, s) =
          IF c.offsets[s] >= c.offsets[s + 1] \/ c.offsets[s + 1] > Len(c.ids) THEN 8
          ELSE IF wrong = {} THEN 0
          ELSE IF c.ids[Min(wrong)] \notin 0 .. c.rows - 1 THEN 4 ELSE 5
    BY DEF SegmentStatus, Places
  <2>3. wrong = {}
    <3> HIDE DEF wrong
    <3> QED
      BY <2>1, <2>2
  <2>4. c.offsets[s] \in Int /\ c.offsets[s + 1] \in Int /\ Len(c.ids) \in Nat
    BY SegmentsAre
  <2>5. ASSUME NEW n \in Places(c, s)
        PROVE  /\ c.ids[n] \in 0 .. c.rows - 1
               /\ n > c.offsets[s] + 1 => c.ids[n - 1] < c.ids[n]
    <3>1. n \notin wrong
      BY <2>3
    <3>2. n \in 1 .. Len(c.ids) /\ c.ids[n] \in Int
      BY SegmentsAre DEF Places
    <3>3. c.ids[n] \in 0 .. c.rows - 1
      BY <3>1
    <3>4. ASSUME n > c.offsets[s] + 1 PROVE c.ids[n - 1] < c.ids[n]
      <4>1. ~ (c.ids[n] <= c.ids[n - 1])
        BY <3>1, <3>4
      <4>2. c.offsets[s] >= 0
        BY <1>1, <1>3, <1>4, OffsetsRise, SegmentsAre
      <4>3. n - 1 \in 1 .. Len(c.ids)
        BY <2>4, <3>2, <3>4, <4>2
      <4>4. c.ids[n - 1] \in Int
        BY <4>3, SegmentsAre
      <4> QED
        BY <3>2, <4>1, <4>4
    <3> QED
      BY <3>3, <3>4
  <2> QED
    BY <1>3, <2>5
<1> QED
  BY <1>1, <1>4, <1>5 DEF WellCut

-----------------------------------------------------------------------------
(* The merge of the segments.                                              *)

LEMMA CutIs ==
  ASSUME NEW c, IsSupport(c), WellCut(c)
  PROVE  /\ \A s \in Segments(c) :
              /\ c.offsets[s] \in Nat /\ c.offsets[s + 1] \in Nat
              /\ c.offsets[s] < c.offsets[s + 1] /\ c.offsets[s + 1] <= Len(c.ids)
         /\ \A n \in 1 .. Len(c.ids) : \E s \in Segments(c) : n \in Places(c, s)
<1>1. \A m \in 1 .. Len(c.offsets) : c.offsets[m] >= 0
  BY OffsetsRise DEF WellCut
<1>2. \A s \in Segments(c) :
        /\ c.offsets[s] \in Nat /\ c.offsets[s + 1] \in Nat
        /\ c.offsets[s] < c.offsets[s + 1] /\ c.offsets[s + 1] <= Len(c.ids)
  BY <1>1, SegmentsAre DEF WellCut
<1>3. ASSUME NEW n \in 1 .. Len(c.ids), \A s \in Segments(c) : n \notin Places(c, s)
      PROVE  FALSE
  <2> DEFINE m == Len(c.offsets) - 1
             S == {k \in 0 .. m : c.offsets[k + 1] < n}
  <2>1. m \in Nat /\ c.offsets[1] = 0 /\ c.offsets[m + 1] = Len(c.ids)
    BY DEF WellCut, IsSupport
  <2>2. 0 \in S
    BY <2>1
  <2>3. ASSUME NEW k \in 0 .. m - 1, k \in S PROVE k + 1 \in S
    <3>1. k + 1 \in Segments(c) /\ k + 1 \in 0 .. m
      BY <2>1 DEF Segments
    <3>2. c.offsets[k + 1 + 1] \in Nat /\ ~ (n <= c.offsets[k + 1 + 1])
      BY <1>2, <1>3, <2>3, <3>1 DEF Places
    <3>3. c.offsets[k + 1 + 1] < n
      BY <3>2
    <3> QED
      BY <3>1, <3>3
  <2>4. m \in 0 .. m
    BY <2>1
  <2>5. m \in S
    <3> HIDE DEF S, m
    <3> QED
      BY <2>1, <2>2, <2>3, <2>4, CountUp
  <2>6. Len(c.ids) < n
    BY <2>1, <2>5
  <2> QED
    BY <2>6, SegmentsAre
<1> QED
  BY <1>2, <1>3

(* The states of a merge.                                                  *)
Merges(c) ==
  [status : Int, best : SUBSET Int, unique : Int, at : [Segments(c) -> Nat]]

(* The least head of the open segments.                                    *)
LeastHead(c, a) == Min({Head1(c, a, s) : s \in Open(c, a)})

(* While a segment is open there is a least head, and a segment shows it.  *)
LEMMA HeadsAre ==
  ASSUME NEW c, IsSupport(c), WellCut(c), NEW a, a.at \in [Segments(c) -> Nat],
         Open(c, a) # {}
  PROVE  /\ LeastHead(c, a) \in Int
         /\ \A s \in Open(c, a) : /\ a.at[s] + 1 \in 1 .. Len(c.ids)
                                  /\ Head1(c, a, s) \in Int
                                  /\ LeastHead(c, a) <= Head1(c, a, s)
         /\ \E s \in Open(c, a) : Head1(c, a, s) = LeastHead(c, a)
<1> DEFINE S == Open(c, a)
           H == {Head1(c, a, s) : s \in S}
<1>1. \A s \in S : a.at[s] + 1 \in 1 .. Len(c.ids) /\ Head1(c, a, s) \in Int
  <2> TAKE s \in S
  <2>1. s \in Segments(c) /\ a.at[s] < c.offsets[s + 1] /\ a.at[s] \in Nat
    BY DEF Open
  <2>2. a.at[s] + 1 \in 1 .. Len(c.ids)
    <3>1. c.offsets[s + 1] \in Nat /\ c.offsets[s + 1] <= Len(c.ids)
      BY <2>1, CutIs
    <3>2. Len(c.ids) \in Nat
      BY SegmentsAre
    <3> DEFINE at == a.at[s]
               next == c.offsets[s + 1]
               l == Len(c.ids)
    <3>3. at \in Nat /\ next \in Nat /\ l \in Nat /\ at < next /\ next <= l
      BY <2>1, <3>1, <3>2
    <3> HIDE DEF at, next, l
    <3>4. at + 1 \in 1 .. l
      BY <3>3
    <3> QED
      BY <3>4 DEF at, l
  <2> QED
    BY <2>2, SegmentsAre DEF Head1
<1>2. IsFiniteSet(S)
  <2>1. S \subseteq Segments(c)
    BY DEF Open
  <2> HIDE DEF S
  <2> QED
    BY <2>1, SegmentsAre, FS_Subset
<1>3. IsFiniteSet(H) /\ H \subseteq Int /\ H # {}
  <2> DEFINE f == [s \in S |-> Head1(c, a, s)]
  <2>1. f \in Surjection(S, H)
    BY DEF Surjection
  <2>2. H \subseteq Int /\ H # {}
    BY <1>1
  <2> HIDE DEF f, H, S
  <2> QED
    BY <1>2, <2>1, <2>2, FS_Surjection
<1>4. Min(H) \in H /\ \A y \in H : Min(H) <= y
  <2> HIDE DEF H
  <2> QED
    BY <1>3, MinIs
<1>5. LeastHead(c, a) = Min(H)
  BY DEF LeastHead
<1> QED
  BY <1>1, <1>3, <1>4, <1>5

(* A step of the merge takes the least head and scores it.                 *)
LEMMA StepIs ==
  ASSUME NEW c, NEW a, a.status = 0, Open(c, a) # {}
  PROVE  SegmentStep(c, a) = ScoreOne(c, TopK + 1,
           [a EXCEPT !.at = Past(c, a, LeastHead(c, a))], LeastHead(c, a))
BY DEF SegmentStep, LeastHead

(* A step of the merge leads to a state of a merge.                        *)
LEMMA MergeIsTyped ==
  ASSUME NEW c, IsSupport(c), WellCut(c), NEW a \in Merges(c)
  PROVE  SegmentStep(c, a) \in Merges(c)
<1>1. CASE a.status # 0 \/ Open(c, a) = {}
  BY <1>1 DEF SegmentStep
<1>2. CASE a.status = 0 /\ Open(c, a) # {}
  <2> DEFINE x == LeastHead(c, a)
             p == Past(c, a, x)
             b == [a EXCEPT !.at = p]
             r == Retain(c, b.best, TopK + 1, x)
  <2>1. x \in Int
    BY <1>2, HeadsAre DEF Merges
  <2>2. p \in [Segments(c) -> Nat]
    <3> HIDE DEF x
    <3> QED
      BY DEF Past, Merges
  <2> HIDE DEF p, x
  <2>3. b \in Merges(c)
    BY <2>2 DEF Merges
  <2> HIDE DEF b
  <2>4. r \subseteq Int
    BY <2>1, <2>3 DEF Retain, Merges
  <2> HIDE DEF r
  <2>5. [b EXCEPT !.status = 6] \in Merges(c)
    BY <2>3 DEF Merges
  <2>6. [b EXCEPT !.best = r, !.unique = @ + 1] \in Merges(c)
    <3> DEFINE F == {"status", "best", "unique", "at"}
    <3>1. /\ b.status \in Int /\ b.unique + 1 \in Int /\ b.at \in [Segments(c) -> Nat]
          /\ DOMAIN b = F
      BY <2>3 DEF Merges
    <3>2. [b EXCEPT !.best = r, !.unique = @ + 1]
            = [k \in F |->
                 IF k = "unique" THEN b.unique + 1 ELSE IF k = "best" THEN r ELSE b[k]]
      BY <3>1
    <3>3. [k \in F |->
             IF k = "unique" THEN b.unique + 1 ELSE IF k = "best" THEN r ELSE b[k]]
            = [status |-> b.status, best |-> r, unique |-> b.unique + 1, at |-> b.at]
      BY <3>1
    <3> QED
      BY <2>4, <3>1, <3>2, <3>3 DEF Merges
  <2>7. SegmentStep(c, a) = ScoreOne(c, TopK + 1, b, x)
    BY <1>2, StepIs DEF b, p, x
  <2>8. ScoreOne(c, TopK + 1, b, x) \in
          {b, [b EXCEPT !.status = 6], [b EXCEPT !.best = r, !.unique = @ + 1]}
    BY DEF ScoreOne, r
  <2> QED
    BY <2>3, <2>5, <2>6, <2>7, <2>8
<1> QED
  BY <1>1, <1>2

(* The states a of the merge after each of its steps.                      *)
IsMerge(c, a) ==
  /\ a \in [0 .. Len(c.ids) -> Merges(c)]
  /\ a[0] = [status |-> 0, best |-> {}, unique |-> 0,
             at |-> [s \in Segments(c) |-> c.offsets[s]]]
  /\ \A k \in 0 .. Len(c.ids) - 1 : a[k + 1] = SegmentStep(c, a[k])

(* What SegmentedTop11 computes by recursion is the last of the states of  *)
(* a merge.                                                                *)
LEMMA MergeIs ==
  ASSUME NEW c, IsSupport(c), WellCut(c)
  PROVE  \E a : /\ IsMerge(c, a)
                /\ LET end == a[Len(c.ids)]
                   IN SegmentedTop11(c) =
                        IF SegmentedOuter(c) # 0 THEN Out(SegmentedOuter(c), {}, 0)
                        ELSE IF end.status # 0 THEN Out(end.status, {}, 0)
                        ELSE IF end.unique < TopK THEN Out(3, {}, 0)
                        ELSE Out(0, end.best, end.unique)
<1> DEFINE n == Len(c.ids)
           T == Merges(c)
           b == [status |-> 0, best |-> {}, unique |-> 0,
                 at |-> [s \in Segments(c) |-> c.offsets[s]]]
           Eq(f) == f = [k \in 0 .. n |-> IF k = 0 THEN b
                                          ELSE SegmentStep(c, f[k - 1])]
           G == [p \in (0 .. n - 1) \X T |-> SegmentStep(c, p[2])]
<1>1. n \in Nat /\ b \in T
  BY SegmentsAre, CutIs DEF Merges
<1>2. \A p \in (0 .. n - 1) \X T : SegmentStep(c, p[2]) \in T
  BY MergeIsTyped
<1>3. PICK r \in [0 .. n -> T] :
        r[0] = b /\ \A k \in 0 .. n - 1 : r[k + 1] = SegmentStep(c, r[k])
  <2>2. \A k \in 0 .. n - 1, s \in T : G[<<k, s>>] = SegmentStep(c, s)
    OBVIOUS
  <2> HIDE DEF b, n, T
  <2>1. b \in T /\ n \in Nat /\ IsStep(G, n, T)
    BY <1>1, <1>2 DEF IsStep
  <2> HIDE DEF G
  <2>3. PICK r \in [0 .. n -> T] : IsRun(r, n, b, G)
    BY <2>1, RunExists
  <2>4. r[0] = b /\ \A k \in 0 .. n - 1 : r[k + 1] = SegmentStep(c, r[k])
    <3>1. \A k \in 0 .. n - 1 : r[k] \in T
      BY <1>1
    <3> QED
      BY <2>2, <2>3, <3>1 DEF IsRun
  <2> QED
    BY <2>4
<1> HIDE DEF b, n, T, G
<1>4. Eq(r)
  <2>1. ASSUME NEW k \in 0 .. n
        PROVE  r[k] = IF k = 0 THEN b ELSE SegmentStep(c, r[k - 1])
    <3>1. CASE k = 0
      BY <1>3, <3>1
    <3>2. CASE k # 0
      <4>1. k - 1 \in 0 .. n - 1 /\ k - 1 + 1 = k
        BY <1>1, <3>2
      <4> QED
        BY <1>3, <3>2, <4>1
    <3> QED
      BY <3>1, <3>2
  <2> QED
    BY <1>3, <2>1
<1>5. Eq(CHOOSE f : Eq(f))
  <2> HIDE DEF Eq
  <2> QED
    BY <1>4
<1> DEFINE f == CHOOSE g : Eq(g)
           end == f[n]
<1>6. SegmentedTop11(c) =
        IF SegmentedOuter(c) # 0 THEN Out(SegmentedOuter(c), {}, 0)
        ELSE IF end.status # 0 THEN Out(end.status, {}, 0)
        ELSE IF end.unique < TopK THEN Out(3, {}, 0)
        ELSE Out(0, end.best, end.unique)
  BY DEF SegmentedTop11, b, n
<1>7. f = [k \in 0 .. n |-> IF k = 0 THEN b ELSE SegmentStep(c, f[k - 1])]
  BY <1>5
<1> HIDE DEF f
<1>8. f[0] = b /\ \A k \in 0 .. n - 1 : f[k + 1] = SegmentStep(c, f[k])
  <2>1. 0 \in 0 .. n
    BY <1>1
  <2>2. ASSUME NEW k \in 0 .. n - 1 PROVE f[k + 1] = SegmentStep(c, f[k])
    <3> DEFINE h == k + 1
    <3>1. h \in 0 .. n /\ h # 0 /\ h - 1 = k
      BY <1>1
    <3> HIDE DEF h
    <3>2. f[h] = SegmentStep(c, f[h - 1])
      BY <1>7, <3>1
    <3> QED
      BY <3>1, <3>2 DEF h
  <2> QED
    BY <1>7, <2>1, <2>2
<1>9. f \in [0 .. n -> T]
  <2> DEFINE S == {k \in 0 .. n : f[k] \in T}
  <2>1. 0 \in S
    BY <1>1, <1>8
  <2>2. ASSUME NEW k \in 0 .. n - 1, k \in S PROVE k + 1 \in S
    <3>1. k + 1 \in 0 .. n
      BY <1>1
    <3>2. SegmentStep(c, f[k]) \in T
      BY <2>2, MergeIsTyped DEF T
    <3> QED
      BY <1>8, <3>1, <3>2
  <2> HIDE DEF S
  <2>3. \A k \in 0 .. n : k \in S
    BY <1>1, <2>1, <2>2, CountUp
  <2>4. \A k \in 0 .. n : f[k] \in T
    BY <2>3 DEF S
  <2> QED
    BY <1>7, <2>4
<1>10. IsMerge(c, f)
  BY <1>8, <1>9 DEF IsMerge, b, n, T
<1> QED
  BY <1>6, <1>10 DEF n

-----------------------------------------------------------------------------
(* What the merge has taken.                                               *)

(* The places that are behind the merge, and the ids that are there.       *)
Taken(c, at) ==
  {n \in 1 .. Len(c.ids) : \E s \in Segments(c) : c.offsets[s] < n /\ n <= at[s]}

(* The ids that are taken.                                                 *)
Vals(c, at) == {c.ids[n] : n \in Taken(c, at)}

(* The merge stands within its segments, and all it took is behind their   *)
(* heads.                                                                  *)
Ahead(c, a) ==
  /\ \A s \in Segments(c) : c.offsets[s] <= a.at[s] /\ a.at[s] <= c.offsets[s + 1]
  /\ \A v \in Vals(c, a.at) : \A s \in Open(c, a) : v < Head1(c, a, s)

(* After k steps: it has scored what it took, an id for each step, or has  *)
(* met a distance that is not finite.                                      *)
Merged(c, a, k) ==
  /\ a \in Merges(c)
  /\ a.status = 0 => /\ Ahead(c, a)
                     /\ ScoredAll(c, a, Vals(c, a.at), TopK + 1)
                     /\ Open(c, a) = {} \/ Cardinality(Vals(c, a.at)) >= k
                     /\ \A v \in Vals(c, a.at) : c.dist[v] >= 0
  /\ a.status # 0 => \E n \in 1 .. Len(c.ids) : c.dist[c.ids[n]] < 0

(* The ids of a support that is well cut are rows.                         *)
LEMMA RowsOfCut ==
  ASSUME NEW c, IsSupport(c), WellCut(c)
  PROVE  /\ \A n \in 1 .. Len(c.ids) : /\ c.ids[n] \in 0 .. c.rows - 1
                                       /\ c.ids[n] \in Int
                                       /\ c.dist[c.ids[n]] \in Int
         /\ Rated(c, ToSet(c.ids)) /\ ToSet(c.ids) = {c.ids[n] : n \in 1 .. Len(c.ids)}
         /\ Cardinality(ToSet(c.ids)) <= Len(c.ids)
<1> DEFINE N == 1 .. Len(c.ids)
           f == [n \in N |-> c.ids[n]]
           S == {c.ids[n] : n \in N}
<1>1. ASSUME NEW n \in N
      PROVE  c.ids[n] \in 0 .. c.rows - 1 /\ c.ids[n] \in Int /\ c.dist[c.ids[n]] \in Int
  <2>1. PICK s \in Segments(c) : n \in Places(c, s)
    BY CutIs
  <2>2. c.ids[n] \in 0 .. c.rows - 1
    BY <2>1 DEF WellCut
  <2> QED
    BY <2>2, SegmentsAre DEF IsSupport
<1>2. ToSet(c.ids) = S
  BY DEF ToSet, IsSupport
<1>3. IsFiniteSet(N) /\ Cardinality(N) = Len(c.ids)
  <2> DEFINE m == Len(c.ids)
  <2>1. m \in Nat
    BY SegmentsAre
  <2> HIDE DEF m
  <2>2. IsFiniteSet(1 .. m) /\ Cardinality(1 .. m) = m
    BY <2>1, FS_Interval
  <2> QED
    BY <2>2 DEF m
<1>4. f \in Surjection(N, S)
  BY DEF Surjection
<1>5. S \subseteq Int /\ \A x \in S : c.dist[x] \in Int
  BY <1>1
<1> HIDE DEF f, S, N
<1>6. IsFiniteSet(S) /\ Cardinality(S) <= Len(c.ids)
  BY <1>3, <1>4, FS_Surjection
<1> QED
  BY <1>1, <1>2, <1>5, <1>6 DEF Rated, N, S

(* What is taken is of the support.                                        *)
LEMMA ValsAre ==
  ASSUME NEW c, IsSupport(c), WellCut(c), NEW at
  PROVE  Vals(c, at) \subseteq ToSet(c.ids) /\ Rated(c, Vals(c, at))
<1>1. Vals(c, at) \subseteq ToSet(c.ids)
  BY RowsOfCut DEF Vals, Taken
<1>2. IsFiniteSet(Vals(c, at))
  BY <1>1, RowsOfCut, FS_Subset DEF Rated
<1> QED
  BY <1>1, <1>2, RowsOfCut DEF Rated

(* Taking the least head adds one id, which no segment shows any more.     *)
LEMMA PastIs ==
  ASSUME NEW c, IsSupport(c), WellCut(c), NEW a \in Merges(c), Ahead(c, a),
         Open(c, a) # {}, NEW b, b.at = Past(c, a, LeastHead(c, a))
  PROVE  /\ Ahead(c, b) /\ LeastHead(c, a) \notin Vals(c, a.at)
         /\ Vals(c, b.at) = Vals(c, a.at) \cup {LeastHead(c, a)}
         /\ \E n \in 1 .. Len(c.ids) : c.ids[n] = LeastHead(c, a)
<1> DEFINE x == LeastHead(c, a)
           p == Past(c, a, x)
           Moved(s) == s \in Open(c, a) /\ Head1(c, a, s) = x
<1>1. /\ x \in Int
      /\ \A s \in Open(c, a) : /\ a.at[s] + 1 \in 1 .. Len(c.ids)
                               /\ Head1(c, a, s) \in Int
                               /\ x <= Head1(c, a, s)
  BY HeadsAre DEF Merges
<1>2. PICK s0 \in Open(c, a) : Head1(c, a, s0) = x
  BY HeadsAre DEF Merges
<1>3. \A s \in Segments(c) : p[s] = IF Moved(s) THEN a.at[s] + 1 ELSE a.at[s]
  BY DEF Past
<1>4. \A s \in Segments(c) :
        /\ a.at[s] \in Nat /\ c.offsets[s] \in Nat /\ c.offsets[s + 1] \in Nat
        /\ c.offsets[s] <= a.at[s] /\ a.at[s] <= c.offsets[s + 1]
        /\ c.offsets[s + 1] <= Len(c.ids)
  BY CutIs DEF Merges, Ahead
<1>5. \A s \in Open(c, a) : s \in Segments(c) /\ a.at[s] < c.offsets[s + 1]
  BY DEF Open
<1>6. \A v \in Vals(c, a.at) : v \in Int /\ v < x
  BY <1>2, ValsAre DEF Ahead, Rated
<1>7. x \notin Vals(c, a.at)
  BY <1>1, <1>6
<1>8. a.at[s0] + 1 \in 1 .. Len(c.ids) /\ c.ids[a.at[s0] + 1] = x
  BY <1>1, <1>2 DEF Head1
<1>9. Len(c.ids) \in Nat
  BY SegmentsAre
<1> HIDE DEF x, p
<1>10. Vals(c, p) = Vals(c, a.at) \cup {x}
  <2>1. ASSUME NEW n \in Taken(c, p) PROVE c.ids[n] \in Vals(c, a.at) \cup {x}
    <3>1. PICK s \in Segments(c) : c.offsets[s] < n /\ n <= p[s]
      BY DEF Taken
    <3>2. n \in 1 .. Len(c.ids)
      BY DEF Taken
    <3>3. CASE n <= a.at[s]
      <4>1. n \in Taken(c, a.at)
        BY <3>1, <3>2, <3>3 DEF Taken
      <4> QED
        BY <4>1 DEF Vals
    <3>4. CASE ~ (n <= a.at[s])
      <4>1. Moved(s) /\ n = a.at[s] + 1
        BY <1>3, <1>4, <3>1, <3>2, <3>4
      <4> QED
        BY <4>1 DEF Head1
    <3> QED
      BY <3>3, <3>4
  <2>2. ASSUME NEW n \in Taken(c, a.at) PROVE n \in Taken(c, p)
    <3>1. PICK s \in Segments(c) : c.offsets[s] < n /\ n <= a.at[s]
      BY DEF Taken
    <3>2. n \in 1 .. Len(c.ids) /\ n <= p[s]
      BY <1>3, <1>4, <3>1 DEF Taken
    <3> QED
      BY <3>1, <3>2 DEF Taken
  <2>3. a.at[s0] + 1 \in Taken(c, p)
    <3>1. c.offsets[s0] < a.at[s0] + 1 /\ a.at[s0] + 1 <= p[s0]
      BY <1>2, <1>3, <1>4, <1>5
    <3> QED
      BY <1>5, <1>8, <3>1 DEF Taken
  <2> QED
    BY <1>8, <2>1, <2>2, <2>3 DEF Vals
<1>11. ASSUME NEW s \in Segments(c)
       PROVE  c.offsets[s] <= p[s] /\ p[s] <= c.offsets[s + 1]
  BY <1>3, <1>4, <1>5
<1>12. ASSUME NEW s \in Segments(c), p[s] < c.offsets[s + 1]
       PROVE  c.ids[p[s] + 1] \in Int /\ x < c.ids[p[s] + 1]
  <2>1. CASE Moved(s)
    <3> DEFINE m == a.at[s] + 1
    <3>1. m \in Int /\ p[s] = m /\ m + 1 \in 1 .. Len(c.ids)
            /\ c.offsets[s] < m + 1 /\ m + 1 <= c.offsets[s + 1]
            /\ m + 1 > c.offsets[s] + 1
      BY <1>3, <1>4, <1>9, <1>12, <2>1
    <3>2. c.ids[m] = x
      BY <2>1 DEF Head1
    <3> HIDE DEF m
    <3>3. m + 1 \in Places(c, s) /\ m + 1 - 1 = m
      BY <3>1 DEF Places
    <3> DEFINE h == m + 1
    <3>4. h \in Places(c, s) /\ h - 1 = m /\ h > c.offsets[s] + 1
      BY <3>1, <3>3
    <3> HIDE DEF h
    <3>5. c.ids[h - 1] < c.ids[h]
      BY <3>4 DEF WellCut
    <3>6. c.ids[m] < c.ids[m + 1]
      BY <3>4, <3>5 DEF h
    <3> QED
      BY <3>1, <3>2, <3>6, RowsOfCut
  <2>2. CASE ~Moved(s)
    <3>1. p[s] = a.at[s] /\ s \in Open(c, a)
      BY <1>3, <1>12, <2>2 DEF Open
    <3>2. Head1(c, a, s) \in Int /\ x <= Head1(c, a, s) /\ Head1(c, a, s) # x
      BY <1>1, <2>2, <3>1
    <3>3. Head1(c, a, s) = c.ids[p[s] + 1]
      BY <3>1 DEF Head1
    <3> QED
      BY <1>1, <3>2, <3>3
  <2> QED
    BY <2>1, <2>2
<1>13. b.at = p
  BY DEF p, x
<1>14. Ahead(c, b)
  <2>1. ASSUME NEW v \in Vals(c, p), NEW s \in Open(c, b) PROVE v < Head1(c, b, s)
    <3>1. s \in Segments(c) /\ p[s] < c.offsets[s + 1]
      BY <1>13 DEF Open
    <3>2. Head1(c, b, s) = c.ids[p[s] + 1]
      BY <1>13 DEF Head1
    <3>3. v = x \/ (v \in Int /\ v < x)
      BY <1>6, <1>10
    <3> QED
      BY <1>1, <1>12, <3>1, <3>2, <3>3
  <2> QED
    BY <1>11, <1>13, <2>1 DEF Ahead
<1>15. Vals(c, b.at) = Vals(c, a.at) \cup {x}
  BY <1>10, <1>13
<1> QED
  BY <1>7, <1>8, <1>14, <1>15 DEF x

-----------------------------------------------------------------------------

(* The merge starts with nothing taken.                                    *)
LEMMA MergeStarts ==
  ASSUME NEW c, IsSupport(c), WellCut(c), NEW a, IsMerge(c, a)
  PROVE  Merged(c, a[0], 0)
<1> DEFINE b == a[0]
<1>1. /\ b.status = 0 /\ b.best = {} /\ b.unique = 0
      /\ b.at = [s \in Segments(c) |-> c.offsets[s]]
  BY DEF IsMerge
<1>2. b \in Merges(c)
  BY SegmentsAre DEF IsMerge
<1> HIDE DEF b
<1>3. \A s \in Segments(c) : b.at[s] = c.offsets[s]
  BY <1>1
<1>4. Taken(c, b.at) = {}
  <2> SUFFICES ASSUME NEW n \in 1 .. Len(c.ids), NEW s \in Segments(c),
                      c.offsets[s] < n, n <= c.offsets[s]
               PROVE  FALSE
    BY <1>3 DEF Taken
  <2> QED
    BY CutIs
<1>5. Vals(c, b.at) = {}
  BY <1>4 DEF Vals
<1>6. KeptOf(c, {}, {}, TopK + 1) /\ Cardinality({}) = 0
  BY FS_EmptySet, TopAssumption DEF KeptOf
<1>7. Ahead(c, b)
  BY <1>3, <1>5, CutIs DEF Ahead
<1>8. ScoredAll(c, b, Vals(c, b.at), TopK + 1)
  BY <1>1, <1>5, <1>6 DEF ScoredAll
<1>9. Merged(c, b, 0)
  BY <1>1, <1>2, <1>5, <1>6, <1>7, <1>8 DEF Merged
<1> QED
  BY <1>9 DEF b

(* Every step of the merge takes one id, unless it is at the end or has    *)
(* met a distance that is not finite.                                      *)
LEMMA MergeGoesOn ==
  ASSUME NEW c, IsSupport(c), WellCut(c), NEW k \in Nat, NEW a, Merged(c, a, k)
  PROVE  Merged(c, SegmentStep(c, a), k + 1)
<1>0. a \in Merges(c) /\ SegmentStep(c, a) \in Merges(c) /\ a.status \in Int
  BY MergeIsTyped DEF Merged, Merges
<1>1. CASE a.status # 0 \/ Open(c, a) = {}
  <2>1. SegmentStep(c, a) = a
    BY <1>1 DEF SegmentStep
  <2> QED
    BY <1>1, <2>1 DEF Merged
<1>2. CASE a.status = 0 /\ Open(c, a) # {}
  <2> DEFINE x == LeastHead(c, a)
             b == [a EXCEPT !.at = Past(c, a, x)]
             e == ScoreOne(c, TopK + 1, b, x)
             V == Vals(c, a.at)
  <2>1. /\ Ahead(c, a) /\ ScoredAll(c, a, V, TopK + 1) /\ Cardinality(V) >= k
        /\ \A v \in V : c.dist[v] >= 0
    BY <1>2 DEF Merged
  <2>2. /\ b.at = Past(c, a, x) /\ b.status = a.status /\ b.best = a.best
        /\ b.unique = a.unique /\ {"status", "best", "unique"} \subseteq DOMAIN b
    <3> HIDE DEF x
    <3> QED
      BY <1>0 DEF Merges
  <2>3. /\ Ahead(c, b) /\ x \notin V /\ Vals(c, b.at) = V \cup {x}
        /\ \E n \in 1 .. Len(c.ids) : c.ids[n] = x
    <3> HIDE DEF b, e
    <3> QED
      BY <1>0, <1>2, <2>1, <2>2, PastIs
  <2>4. e.at = b.at
    <3> HIDE DEF x
    <3> QED
      BY <1>0, <2>2 DEF ScoreOne, Merges
  <2>5. SegmentStep(c, a) = e
    BY <1>2, StepIs
  <2>6. c.dist[x] \in Int /\ Rated(c, V \cup {x})
    <3> HIDE DEF x, b, e, V
    <3>1. c.dist[x] \in Int
      BY <2>3, RowsOfCut
    <3>2. Rated(c, Vals(c, b.at))
      BY ValsAre
    <3> QED
      BY <2>3, <3>1, <3>2
  <2>7. ScoredAll(c, b, V, TopK + 1)
    BY <2>1, <2>2 DEF ScoredAll
  <2>8. b.status = 0 /\ \A y : c.dist[y] < 0 => ScoreOne(c, TopK + 1, b, y).status = 6
                                                \/ y # x
    BY <1>0, <1>2, <2>2 DEF ScoreOne, Merges
  <2> HIDE DEF b, V, x
  <2>9. CASE c.dist[x] < 0
    <3>1. e.status = 6
      BY <2>8, <2>9
    <3> QED
      BY <1>0, <2>3, <2>5, <2>9, <3>1 DEF Merged
  <2>10. CASE ~ (c.dist[x] < 0)
    <3>1. c.dist[x] >= 0
      BY <2>6, <2>10
    <3>2. ScoredAll(c, e, V \cup {x}, TopK + 1)
      BY <2>2, <2>3, <2>6, <2>7, <3>1, ScoreKeeps, TopAssumption
    <3>3. IsFiniteSet(V) /\ Cardinality(V) \in Nat
      BY <2>6, FS_Subset, FS_CardinalityType DEF Rated
    <3>4. Cardinality(V \cup {x}) >= k + 1
      <4>1. Cardinality(V \cup {x}) = Cardinality(V) + 1
        BY <2>3, <3>3, FS_AddElement
      <4> QED
        BY <2>1, <3>3, <4>1
    <3> HIDE DEF e
    <3>5. Vals(c, e.at) = V \cup {x} /\ Ahead(c, e)
      BY <2>3, <2>4 DEF Ahead, Open, Head1
    <3>6. e.status = 0
      BY <3>2 DEF ScoredAll
    <3>7. \A v \in V \cup {x} : c.dist[v] >= 0
      BY <2>1, <3>1
    <3> QED
      BY <1>0, <2>5, <3>2, <3>4, <3>5, <3>6, <3>7 DEF Merged
  <2> QED
    BY <2>9, <2>10
<1> QED
  BY <1>0, <1>1, <1>2

(* The merge is at its end after as many steps as there are ids, each of   *)
(* which it has scored once however many segments hold it.                 *)
LEMMA MergeEnds ==
  ASSUME NEW c, IsSupport(c), WellCut(c), NEW a, IsMerge(c, a)
  PROVE  LET end == a[Len(c.ids)]
         IN /\ end \in Merges(c)
            /\ end.status = 0 => /\ ScoredAll(c, end, ToSet(c.ids), TopK + 1)
                                 /\ \A x \in ToSet(c.ids) : c.dist[x] >= 0
            /\ end.status # 0 => \E n \in 1 .. Len(c.ids) : c.dist[c.ids[n]] < 0
<1> DEFINE n == Len(c.ids)
           S == {k \in 0 .. n : Merged(c, a[k], k)}
           end == a[n]
           V == Vals(c, end.at)
<1>0. n \in Nat /\ n \in 0 .. n /\ 0 \in 0 .. n
  BY SegmentsAre
<1>1. 0 \in S
  BY <1>0, MergeStarts
<1>2. ASSUME NEW k \in 0 .. n - 1, k \in S PROVE k + 1 \in S
  <2>1. a[k + 1] = SegmentStep(c, a[k]) /\ Merged(c, a[k], k) /\ k \in Nat
          /\ k + 1 \in 0 .. n
    BY <1>0, <1>2 DEF IsMerge
  <2>2. Merged(c, SegmentStep(c, a[k]), k + 1)
    BY <2>1, MergeGoesOn
  <2> QED
    BY <2>1, <2>2
<1>3. n \in S
  <2> HIDE DEF S, n
  <2> QED
    BY <1>0, <1>1, <1>2, CountUp
<1>4. Merged(c, end, n)
  BY <1>3
<1>5. ASSUME end.status = 0
      PROVE  /\ ScoredAll(c, end, ToSet(c.ids), TopK + 1)
             /\ \A x \in ToSet(c.ids) : c.dist[x] >= 0
  <2>1. /\ Ahead(c, end) /\ ScoredAll(c, end, V, TopK + 1)
        /\ \A v \in V : c.dist[v] >= 0
        /\ Open(c, end) = {} \/ Cardinality(V) >= n
        /\ end.at \in [Segments(c) -> Nat]
    BY <1>4, <1>5 DEF Merged, Merges
  <2>2. V \subseteq ToSet(c.ids) /\ Rated(c, V)
    BY ValsAre
  <2> HIDE DEF end, V
  <2>3. ASSUME NEW s \in Open(c, end) PROVE FALSE
    <3> DEFINE x == Head1(c, end, s)
    <3>1. x \in ToSet(c.ids) /\ x \in Int
      BY <2>1, <2>3, HeadsAre, RowsOfCut DEF Head1
    <3>2. \A v \in V : v < x
      BY <2>1 DEF Ahead, V
    <3>3. x \notin V
      BY <3>1, <3>2
    <3> HIDE DEF x
    <3>4. IsFiniteSet(V) /\ V \cup {x} \subseteq ToSet(c.ids)
      BY <2>2, <3>1 DEF Rated
    <3>5. /\ Cardinality(V \cup {x}) = Cardinality(V) + 1
          /\ Cardinality(V \cup {x}) <= Cardinality(ToSet(c.ids))
          /\ Cardinality(ToSet(c.ids)) <= n
      BY <3>3, <3>4, FS_AddElement, FS_Subset, RowsOfCut DEF Rated
    <3>6. Cardinality(V) \in Nat /\ Cardinality(V) >= n
            /\ Cardinality(ToSet(c.ids)) \in Nat
      BY <2>1, <2>3, <3>4, RowsOfCut, FS_CardinalityType DEF Rated
    <3> HIDE DEF n
    <3> QED
      BY <1>0, <3>5, <3>6
  <2>4. ASSUME NEW m \in 1 .. n PROVE c.ids[m] \in V
    <3>1. PICK s \in Segments(c) : m \in Places(c, s)
      BY CutIs
    <3>2. s \notin Open(c, end)
      BY <2>3
    <3>3. c.offsets[s] < m /\ m <= end.at[s]
      BY <2>1, <3>1, <3>2, CutIs DEF Places, Open
    <3>4. m \in Taken(c, end.at)
      BY <3>3 DEF Taken
    <3> QED
      BY <3>4 DEF V, Vals
  <2>5. V = ToSet(c.ids)
    BY <2>2, <2>4, RowsOfCut
  <2> QED
    BY <2>1, <2>5
<1> QED
  BY <1>4, <1>5 DEF Merged

(* What the segmented merge answers.                                       *)
LEMMA SegmentedAnswers ==
  ASSUME NEW c, IsSupport(c)
  PROVE  LET r == SegmentedTop11(c)
             S == ToSet(c.ids)
         IN /\ r.status = 0 => /\ r.best = NearestIds(c, S, TopK + 1)
                               /\ r.unique = Cardinality(S)
                               /\ SegmentedOuter(c) = 0 /\ Cardinality(S) >= TopK
                               /\ \A x \in S : c.dist[x] >= 0
            /\ /\ SegmentedOuter(c) = 0 /\ Cardinality(S) >= TopK
               /\ \A n \in 1 .. Len(c.ids) : c.dist[c.ids[n]] >= 0
               => r = Out(0, NearestIds(c, S, TopK + 1), Cardinality(S))
<1> DEFINE r == SegmentedTop11(c)
           S == ToSet(c.ids)
<1>1. CASE SegmentedOuter(c) # 0
  <2>1. r = Out(SegmentedOuter(c), {}, 0)
    BY <1>1 DEF SegmentedTop11
  <2> QED
    BY <1>1, <2>1 DEF Out
<1>2. CASE SegmentedOuter(c) = 0
  <2>1. WellCut(c)
    BY <1>2, OuterIsCut
  <2>2. PICK a : /\ IsMerge(c, a)
                 /\ r = IF a[Len(c.ids)].status # 0
                        THEN Out(a[Len(c.ids)].status, {}, 0)
                        ELSE IF a[Len(c.ids)].unique < TopK THEN Out(3, {}, 0)
                        ELSE Out(0, a[Len(c.ids)].best, a[Len(c.ids)].unique)
    BY <1>2, <2>1, MergeIs
  <2> DEFINE end == a[Len(c.ids)]
  <2>3. /\ end \in Merges(c)
        /\ end.status = 0 => /\ ScoredAll(c, end, S, TopK + 1)
                             /\ \A x \in S : c.dist[x] >= 0
        /\ end.status # 0 => \E n \in 1 .. Len(c.ids) : c.dist[c.ids[n]] < 0
    BY <2>1, <2>2, MergeEnds
  <2>4. r = IF end.status # 0 THEN Out(end.status, {}, 0)
            ELSE IF end.unique < TopK THEN Out(3, {}, 0)
            ELSE Out(0, end.best, end.unique)
    BY <2>2
  <2>5. Rated(c, S) /\ \A n \in 1 .. Len(c.ids) : c.dist[c.ids[n]] \in Int
    BY <2>1, RowsOfCut
  <2> HIDE DEF end, S, r
  <2>6. end.status = 0 => end.best = NearestIds(c, S, TopK + 1)
                          /\ end.unique = Cardinality(S)
    BY <2>3, <2>5, KeptIsNearest, TopAssumption DEF ScoredAll
  <2>7. r.status = 0 => /\ r.best = NearestIds(c, S, TopK + 1) /\ r.unique = Cardinality(S)
                        /\ Cardinality(S) >= TopK /\ \A x \in S : c.dist[x] >= 0
    <3>1. CASE end.status # 0
      <4>1. r.status = end.status
        BY <2>4, <3>1 DEF Out
      <4> QED
        BY <3>1, <4>1
    <3>2. CASE end.status = 0 /\ end.unique < TopK
      <4>1. r.status = 3
        BY <2>4, <3>2 DEF Out
      <4> QED
        BY <4>1
    <3>3. CASE end.status = 0 /\ ~ (end.unique < TopK)
      <4>1. r.best = end.best /\ r.unique = end.unique
        BY <2>4, <3>3 DEF Out
      <4>2. Cardinality(S) \in Nat
        BY <2>5, FS_CardinalityType DEF Rated
      <4>3. Cardinality(S) >= TopK
        BY <2>6, <3>3, <4>2, TopAssumption
      <4> QED
        BY <2>3, <2>6, <3>3, <4>1, <4>3
    <3> QED
      BY <3>1, <3>2, <3>3
  <2>8. ASSUME Cardinality(S) >= TopK, \A n \in 1 .. Len(c.ids) : c.dist[c.ids[n]] >= 0
        PROVE  r = Out(0, NearestIds(c, S, TopK + 1), Cardinality(S))
    <3>1. end.status = 0
      <4> SUFFICES ASSUME end.status # 0 PROVE FALSE
        OBVIOUS
      <4>1. PICK n \in 1 .. Len(c.ids) : c.dist[c.ids[n]] < 0
        BY <2>3
      <4> QED
        BY <2>5, <2>8, <4>1
    <3>2. end.unique = Cardinality(S) /\ end.best = NearestIds(c, S, TopK + 1)
      BY <2>6, <3>1
    <3>3. ~ (end.unique < TopK)
      <4>1. Cardinality(S) \in Nat
        BY <2>5, FS_CardinalityType DEF Rated
      <4> QED
        BY <2>8, <3>2, <4>1, TopAssumption
    <3> QED
      BY <2>4, <3>1, <3>2, <3>3
  <2> QED
    BY <1>2, <2>7, <2>8 DEF r, S
<1> QED
  BY <1>1, <1>2

-----------------------------------------------------------------------------

(* A scan accepts the supports it should.                                  *)
LEMMA GoodIsFine ==
  ASSUME NEW c, IsSupport(c)
  PROVE  GoodSupport(c) <=> Outer(c) = 0 /\ Fine(c, Len(c.ids))
<1> DEFINE n == Len(c.ids)
<1>0. /\ n \in Nat /\ n \in 0 .. n /\ c.rows \in Nat /\ TopK \in Nat
      /\ \A i \in 1 .. n : c.ids[i] \in Int
      /\ ToSet(c.ids) = {c.ids[i] : i \in 1 .. n}
  BY TopAssumption DEF IsSupport, ToSet
<1>1. Outer(c) = 0 <=> n \in TopK .. c.rows
  BY <1>0 DEF Outer
<1>2. ASSUME Fine(c, n) PROVE IdsRise(c, 1, n) /\ AreScored(c)
  <2>1. /\ \A i \in 1 .. n : c.ids[i] \in 0 .. c.rows - 1
        /\ \A i, j \in 1 .. n : i < j => c.ids[i] < c.ids[j]
    BY <1>0, <1>2, OrderIs DEF Fine
  <2>2. \A i \in 1 .. n : c.dist[c.ids[i]] >= 0
    BY <1>2 DEF Fine
  <2> QED
    BY <1>0, <2>1, <2>2 DEF IdsRise, AreScored
<1>3. ASSUME IdsRise(c, 1, n), AreScored(c) PROVE Fine(c, n)
  <2>1. \A i \in 1 .. n : c.ids[i] \in 0 .. c.rows - 1 /\ c.dist[c.ids[i]] >= 0
    BY <1>0, <1>3 DEF AreScored
  <2>2. ASSUME NEW i \in 1 .. n, i > 1 PROVE c.ids[i - 1] < c.ids[i]
    <3>1. i - 1 \in 1 .. n /\ i - 1 < i
      BY <1>0, <2>2
    <3> QED
      BY <1>3, <3>1 DEF IdsRise
  <2>3. ASSUME NEW i \in 1 .. n PROVE OrderStatus(c, c.ids, i) = 0
    <3>1. ~ (i > 1 /\ c.ids[i] <= c.ids[i - 1])
      <4> SUFFICES ASSUME i > 1 PROVE ~ (c.ids[i] <= c.ids[i - 1])
        OBVIOUS
      <4>1. c.ids[i - 1] \in Int /\ c.ids[i] \in Int
        BY <1>0
      <4> QED
        BY <2>2, <4>1
    <3> QED
      BY <2>1, <3>1 DEF OrderStatus
  <2> QED
    BY <2>1, <2>3 DEF Fine, InOrder
<1> QED
  BY <1>1, <1>2, <1>3 DEF GoodSupport

(* What rises from each place to the next rises throughout.                *)
LEMMA NeighboursRise ==
  ASSUME NEW f, NEW from \in Nat, NEW len \in Nat,
         \A i \in from + 1 .. from + len : f[i] \in Int,
         \A i \in from + 2 .. from + len : f[i - 1] < f[i]
  PROVE  \A i, j \in from + 1 .. from + len : i < j => f[i] < f[j]
<1> DEFINE S == {m \in 0 .. len : \A i, j \in from + 1 .. from + m :
                                    i < j => f[i] < f[j]}
<1>1. 0 \in S
  OBVIOUS
<1>2. ASSUME NEW m \in 0 .. len - 1, m \in S PROVE m + 1 \in S
  <2> DEFINE last == from + m + 1
  <2>1. /\ m + 1 \in 0 .. len /\ m \in Nat /\ last \in from + 1 .. from + len
        /\ last - 1 = from + m /\ from + (m + 1) = last
        /\ from + 1 .. last = (from + 1 .. from + m) \cup {last}
    OBVIOUS
  <2>2. \A i, j \in from + 1 .. from + m : i < j => f[i] < f[j]
    BY <1>2
  <2>3. ASSUME NEW i \in from + 1 .. from + m PROVE f[i] < f[last]
    <3>1. /\ last \in from + 2 .. from + len /\ from + m \in from + 1 .. from + m
          /\ from + m \in from + 1 .. from + len /\ i \in from + 1 .. from + len
          /\ (i = from + m \/ i < from + m)
      BY <2>1
    <3>2. f[from + m] < f[last]
      BY <2>1, <3>1
    <3>3. i = from + m \/ f[i] < f[from + m]
      BY <2>2, <3>1
    <3>4. f[i] \in Int /\ f[from + m] \in Int /\ f[last] \in Int
      BY <2>1, <3>1
    <3> QED
      BY <3>2, <3>3, <3>4
  <2>4. \A i, j \in from + 1 .. last : i < j => f[i] < f[j]
    <3> SUFFICES ASSUME NEW i \in from + 1 .. last, NEW j \in from + 1 .. last, i < j
                 PROVE  f[i] < f[j]
      OBVIOUS
    <3>1. i \in from + 1 .. from + m
      OBVIOUS
    <3>2. j \in from + 1 .. from + m \/ j = last
      BY <2>1
    <3> QED
      BY <2>2, <2>3, <3>1, <3>2
  <2> QED
    BY <2>1, <2>4
<1>3. len \in S
  <2> HIDE DEF S
  <2> QED
    BY <1>1, <1>2, CountUp
<1> QED
  BY <1>3

(* Segment by segment, the neighbours checked rise throughout.             *)
LEMMA PlacesRise ==
  ASSUME NEW c, IsSupport(c), WellCut(c), NEW s \in Segments(c)
  PROVE  IdsRise(c, c.offsets[s] + 1, c.offsets[s + 1])
<1> DEFINE from == c.offsets[s]
           to == c.offsets[s + 1]
           len == to - from
           N == from + 1 .. from + len
<1>1. /\ from \in Nat /\ to \in Nat /\ from < to /\ to <= Len(c.ids)
      /\ Len(c.ids) \in Nat /\ \A n \in 1 .. Len(c.ids) : c.ids[n] \in Int
  BY CutIs, SegmentsAre
<1>2. \A i \in from + 1 .. to : i \in Places(c, s) /\ c.ids[i] \in Int
  <2> SUFFICES ASSUME NEW i \in from + 1 .. to PROVE i \in Places(c, s) /\ c.ids[i] \in Int
    OBVIOUS
  <2>1. i \in 1 .. Len(c.ids) /\ from < i /\ i <= to
    <3> HIDE DEF from, to
    <3> QED
      BY <1>1
  <2> QED
    BY <1>1, <2>1 DEF Places
<1>3. \A i \in from + 2 .. to : c.ids[i - 1] < c.ids[i]
  <2> SUFFICES ASSUME NEW i \in from + 2 .. to PROVE c.ids[i - 1] < c.ids[i]
    OBVIOUS
  <2>1. i \in from + 1 .. to /\ i > from + 1
    <3> HIDE DEF from, to
    <3> QED
      BY <1>1
  <2> QED
    BY <1>2, <2>1 DEF WellCut
<1>4. len \in Nat /\ from + len = to
  <2> HIDE DEF from, to
  <2> QED
    BY <1>1
<1> HIDE DEF from, to, len
<1>5. \A i, j \in from + 1 .. to : i < j => c.ids[i] < c.ids[j]
  BY <1>1, <1>2, <1>3, <1>4, NeighboursRise
<1> QED
  BY <1>5 DEF IdsRise, from, to

(* The merge accepts the cuts it should.                                   *)
LEMMA GoodIsCut ==
  ASSUME NEW c, IsSupport(c)
  PROVE  GoodSegments(c) <=>
           /\ SegmentedOuter(c) = 0 /\ Cardinality(ToSet(c.ids)) >= TopK
           /\ \A x \in ToSet(c.ids) : c.dist[x] >= 0
<1> DEFINE n == Len(c.ids)
           h == Len(c.offsets) - 1
           bad == {s \in Segments(c) : SegmentStatus(c, s) # 0}
<1>0. /\ n \in Nat /\ Len(c.offsets) \in Nat /\ c.rows \in Nat /\ h \in Int
      /\ \A m \in 1 .. n : c.ids[m] \in Int
      /\ ToSet(c.ids) = {c.ids[m] : m \in 1 .. n}
      /\ \A s \in Segments(c) : c.offsets[s] \in Int /\ c.offsets[s + 1] \in Int
  BY SegmentsAre DEF IsSupport, ToSet
<1>1. Segments(c) = 1 .. h /\ (h >= 0 => Cardinality(Segments(c)) = h)
  BY <1>0, FS_Interval DEF Segments
<1>2. MaxSegments \in Nat \ {0} /\ TopK \in Nat \ {0}
  BY TopAssumption
<1>3. ASSUME SegmentedOuter(c) = 0, Cardinality(ToSet(c.ids)) >= TopK,
             \A x \in ToSet(c.ids) : c.dist[x] >= 0
      PROVE  GoodSegments(c)
  <2>1. WellCut(c)
    BY <1>3, OuterIsCut
  <2>2. /\ ~ (n > c.rows) /\ Segments(c) # {} /\ ~ (Cardinality(Segments(c)) > MaxSegments)
        /\ c.offsets[1] = 0 /\ Last(c.offsets) = n
    BY <1>3 DEF SegmentedOuter
  <2>3. h \in 1 .. MaxSegments
    BY <1>0, <1>1, <1>2, <2>2
  <2>4. AreScored(c)
    BY <1>0, <1>3, <2>1, RowsOfCut DEF AreScored
  <2>5. \A s \in Segments(c) :
          /\ c.offsets[s] < c.offsets[s + 1] /\ c.offsets[s + 1] <= n
          /\ IdsRise(c, c.offsets[s] + 1, c.offsets[s + 1])
    BY <2>1, CutIs, PlacesRise
  <2>6. n <= c.rows
    BY <1>0, <2>2
  <2> QED
    BY <1>3, <2>2, <2>3, <2>4, <2>5, <2>6 DEF GoodSegments
<1>4. ASSUME GoodSegments(c)
      PROVE  /\ SegmentedOuter(c) = 0 /\ Cardinality(ToSet(c.ids)) >= TopK
             /\ \A x \in ToSet(c.ids) : c.dist[x] >= 0
  <2>1. /\ n <= c.rows /\ h \in 1 .. MaxSegments
        /\ c.offsets[1] = 0 /\ Last(c.offsets) = n /\ AreScored(c)
        /\ Cardinality(ToSet(c.ids)) >= TopK
        /\ \A s \in Segments(c) :
             /\ c.offsets[s] < c.offsets[s + 1] /\ c.offsets[s + 1] <= n
             /\ IdsRise(c, c.offsets[s] + 1, c.offsets[s + 1])
    BY <1>4 DEF GoodSegments
  <2>2. c.ids # <<>>
    <3> SUFFICES ASSUME c.ids = <<>> PROVE FALSE
      OBVIOUS
    <3>1. n = 0
      OBVIOUS
    <3>2. ToSet(c.ids) = {}
      <4> HIDE DEF n
      <4> QED
        BY <1>0, <3>1
    <3>3. Cardinality(ToSet(c.ids)) = 0
      BY <3>2, FS_EmptySet
    <3>4. 0 >= TopK
      BY <2>1, <3>3
    <3> HIDE DEF n, h
    <3> QED
      BY <3>4, TopAssumption
  <2>3. Segments(c) # {} /\ ~ (Cardinality(Segments(c)) > MaxSegments) /\ ~ (n > c.rows)
    BY <1>0, <1>1, <1>2, <2>1
  <2>4. ASSUME NEW s \in Segments(c) PROVE SegmentStatus(c, s) = 0
    <3> DEFINE from == c.offsets[s]
               to == c.offsets[s + 1]
               wrong == {m \in {i \in 1 .. n : from < i /\ i <= to} :
                           \/ c.ids[m] \notin 0 .. c.rows - 1
                           \/ m > from + 1 /\ c.ids[m] <= c.ids[m - 1]}
    <3>1. from \in Int /\ to \in Int /\ from < to /\ to <= n /\ IdsRise(c, from + 1, to)
      BY <1>0, <2>1
    <3>2. ASSUME NEW m \in wrong PROVE FALSE
      <4>0. m \in 1 .. n /\ from < m /\ m <= to
        OBVIOUS
      <4>1. m \in 1 .. n /\ m \in from + 1 .. to /\ c.ids[m] \in 0 .. c.rows - 1
        <5>1. m \in from + 1 .. to
          <6> HIDE DEF from, to, wrong, n
          <6> QED
            BY <1>0, <3>1, <4>0
        <5>2. c.ids[m] \in ToSet(c.ids)
          <6> HIDE DEF wrong
          <6> QED
            BY <1>0, <4>0
        <5> QED
          BY <2>1, <4>0, <5>1, <5>2 DEF AreScored
      <4>2. m > from + 1 /\ c.ids[m] <= c.ids[m - 1]
        BY <4>1
      <4>3. m - 1 \in from + 1 .. to /\ m - 1 < m /\ m - 1 \in Int
        BY <3>1, <4>1, <4>2
      <4>4. c.ids[m - 1] < c.ids[m]
        BY <3>1, <4>1, <4>3 DEF IdsRise
      <4>5. c.ids[m - 1] \in 0 .. c.rows - 1
        <5>1. from >= 0
          <6>1. s \in 1 .. Len(c.offsets) /\ c.offsets # <<>>
            BY <1>0, <1>1, <2>1
          <6> QED
            BY <2>1, <6>1, OffsetsRise
        <5>2. m - 1 \in 1 .. n
          BY <1>0, <3>1, <4>1, <4>2, <5>1
        <5> QED
          BY <1>0, <2>1, <5>2 DEF AreScored
      <4>6. c.ids[m] \in Int /\ c.ids[m - 1] \in Int
        BY <1>0, <4>1, <4>5
      <4> QED
        BY <4>2, <4>4, <4>6
    <3>3. wrong = {}
      BY <3>2
    <3>4. ~ (from >= to \/ to > Len(c.ids))
      <4>1. n = Len(c.ids)
        OBVIOUS
      <4> HIDE DEF from, to, wrong, n
      <4> QED
        BY <1>0, <3>1, <4>1
    <3> QED
      BY <3>3, <3>4 DEF SegmentStatus
  <2>5. SegmentedOuter(c) = 0
    BY <2>1, <2>2, <2>3, <2>4 DEF SegmentedOuter
  <2> QED
    BY <2>1, <2>5 DEF AreScored
<1> QED
  BY <1>3, <1>4

(* A support that is fine is accepted as a single segment.                 *)
LEMMA OneSegment ==
  ASSUME NEW c, IsSupport(c), Outer(c) = 0, InOrder(c, Len(c.ids)),
         c.offsets = <<0, Len(c.ids)>>
  PROVE  SegmentedOuter(c) = 0
<1> DEFINE n == Len(c.ids)
           bad == {s \in Segments(c) : SegmentStatus(c, s) # 0}
<1>0. n \in Nat /\ c.rows \in Nat /\ \A m \in 1 .. n : c.ids[m] \in Int
  BY DEF IsSupport
<1>1. ~ (n > c.rows) /\ n >= TopK /\ n > 0
  BY <1>0, TopAssumption DEF Outer
<1>2. c.ids # <<>>
  <2>1. Len(<<>>) = 0
    OBVIOUS
  <2> QED
    BY <1>1, <2>1
<1>3. /\ Segments(c) = {1} /\ c.offsets[1] = 0 /\ c.offsets[2] = n
      /\ Last(c.offsets) = n
  <2>1. Len(c.offsets) = 2 /\ c.offsets[1] = 0 /\ c.offsets[2] = n
    OBVIOUS
  <2>2. Segments(c) = {1}
    BY <2>1 DEF Segments
  <2> QED
    BY <2>1, <2>2 DEF Last
<1>4. Cardinality(Segments(c)) = 1
  BY <1>3, FS_Singleton
<1>5. \A m \in 1 .. n : /\ c.ids[m] \in 0 .. c.rows - 1
                        /\ m > 1 => c.ids[m - 1] < c.ids[m]
  <2>1. n \in 0 .. n
    BY <1>0
  <2>2. /\ \A m \in 1 .. n : c.ids[m] \in 0 .. c.rows - 1
        /\ \A i, j \in 1 .. n : i < j => c.ids[i] < c.ids[j]
    BY <2>1, OrderIs
  <2>3. \A m \in 1 .. n : m > 1 => m - 1 \in 1 .. n /\ m - 1 < m
    BY <1>0
  <2> HIDE DEF n
  <2> QED
    BY <2>2, <2>3
<1>6. SegmentStatus(c, 1) = 0
  <2> DEFINE wrong == {m \in {q \in 1 .. n : c.offsets[1] < q /\ q <= c.offsets[1 + 1]} :
                  \/ c.ids[m] \notin 0 .. c.rows - 1
                  \/ m > c.offsets[1] + 1 /\ c.ids[m] <= c.ids[m - 1]}
  <2>1. SegmentStatus(c, 1) =
          IF c.offsets[1] >= c.offsets[1 + 1] \/ c.offsets[1 + 1] > n THEN 8
          ELSE IF wrong = {} THEN 0
          ELSE IF c.ids[Min(wrong)] \notin 0 .. c.rows - 1 THEN 4 ELSE 5
    BY DEF SegmentStatus
  <2>2. wrong = {}
    <3> SUFFICES ASSUME NEW m \in 1 .. n,
                        \/ c.ids[m] \notin 0 .. c.rows - 1
                        \/ m > 1 /\ c.ids[m] <= c.ids[m - 1]
                 PROVE  FALSE
      BY <1>3
    <3>1. m > 1 => m - 1 \in 1 .. n
      BY <1>0
    <3> HIDE DEF n, wrong
    <3>2. c.ids[m] \in 0 .. c.rows - 1 /\ (m > 1 => c.ids[m - 1] < c.ids[m])
      BY <1>5
    <3>3. m > 1 => c.ids[m] \in Int /\ c.ids[m - 1] \in Int
      BY <1>0, <3>1
    <3> QED
      BY <3>2, <3>3
  <2>3. c.offsets[1 + 1] = n /\ ~ (0 >= n) /\ ~ (n > n)
    BY <1>0, <1>1, <1>3
  <2> HIDE DEF wrong, n
  <2> QED
    BY <1>3, <2>1, <2>2, <2>3
<1>7. bad = {}
  BY <1>3, <1>6
<1>8. ~ (1 > MaxSegments) /\ Segments(c) # {}
  BY <1>3, TopAssumption
<1> HIDE DEF bad
<1> QED
  BY <1>1, <1>2, <1>3, <1>4, <1>7, <1>8 DEF SegmentedOuter, bad

(* Over one segment the merge answers what the scan does.                  *)
LEMMA OneSegmentAgrees ==
  ASSUME NEW c, IsSupport(c), RetainedTop11(c).status = 0,
         c.offsets = <<0, Len(c.ids)>>
  PROVE  SegmentedTop11(c) = RetainedTop11(c)
<1> DEFINE l == RetainedTop11Legacy(c)
           n == Len(c.ids)
           S == ToSet(c.ids)
           near == NearestIds(c, S, TopK + 1)
<1>0. n \in Nat /\ TopK + 1 \in Nat \ {0} /\ TopK \in Nat
  BY TopAssumption DEF IsSupport
<1>1. RetainedTop11(c) = l /\ Outer(c) = 0 /\ Fine(c, n)
  BY RetainedIs
<1>2. l \in Scores /\ l.status = 0 /\ l.best = near /\ l.unique = Cardinality(S)
  <2>1. l = ScanAsRead(c, TopK + 1) /\ l.status = 0
    BY <1>1 DEF RetainedTop11Legacy
  <2> QED
    BY <1>0, <2>1, ScanAnswers
<1>3. l = Out(0, near, Cardinality(S))
  <2> HIDE DEF l, near, S
  <2> QED
    BY <1>2 DEF Scores, Out
<1>4. SegmentedOuter(c) = 0
  BY <1>1, OneSegment DEF Fine
<1>5. Cardinality(S) >= TopK
  <2>1. S = FirstIds(c, n)
    BY DEF ToSet, FirstIds, IsSupport
  <2>2. n \in 0 .. n /\ InOrder(c, n)
    BY <1>0, <1>1 DEF Fine
  <2>3. Cardinality(S) = n
    BY <2>1, <2>2, FirstIdsAre
  <2>4. n >= TopK
    BY <1>0, <1>1 DEF Outer
  <2> QED
    BY <2>3, <2>4
<1>6. SegmentedTop11(c) = Out(0, near, Cardinality(S))
  BY <1>1, <1>4, <1>5, SegmentedAnswers DEF Fine
<1> QED
  BY <1>1, <1>3, <1>6

-----------------------------------------------------------------------------
(* The kernel of the tops answers once, with what its executors return.    *)
TopsAreSound ==
  kernel = "tops" =>
    /\ "tops" \in DOMAIN Calls /\ call \in Calls["tops"]
    /\ result # Unanswered =>
         result = [pc |-> "done",
                   top64 |-> Top64(call),
                   legacy |-> RetainedTop11Legacy(call),
                   retained |-> RetainedTop11(call),
                   segmented |-> SegmentedTop11(call),
                   unique |-> SortUnique(call)]

(* What the kernel of the tops answers is what its executors return.       *)
THEOREM TopsStaySound == Spec => []TopsAreSound
<1>1. Init => TopsAreSound
  BY DEF Init, TopsAreSound
<1>2. TopsAreSound /\ [Next]_vars => TopsAreSound'
  <2> SUFFICES ASSUME TopsAreSound, Next, kernel' = "tops"
               PROVE  TopsAreSound'
    BY DEF TopsAreSound, vars
  <2>1. kernel = "tops" /\ UNCHANGED <<kernel, call>> /\ CallTops
    BY StepsOfKernels
  <2> QED
    BY <2>1 DEF TopsAreSound, CallTops
<1> QED
  BY <1>1, <1>2, PTL DEF Spec

(* Whatever the support, its distances and its segments: a scan that       *)
(* succeeds has retained the nearest of all rows, each counted once        *)
(* however many segments hold it (Top64, RetainedTop11, its Legacy form    *)
(* and SegmentedTop11, the kernels of exact_topk_avx2.cpp); the            *)
(* interleaved scorer answers when the legacy one does and answers alike;  *)
(* over one segment the merge answers like the scan; sorting a support     *)
(* that is accepted changes nothing; and each kernel accepts exactly the   *)
(* supports it should.                                                     *)
THEOREM TopsExact == Spec => []TopsAreExact
<1>1. TopsAreSound => TopsAreExact
  <2> SUFFICES ASSUME TopsAreSound, Done, kernel = "tops" PROVE TopsAreExact
    BY DEF TopsAreExact
  <2> DEFINE n == Len(call.ids)
             S == ToSet(call.ids)
             Good(r, limit) == r.status = 0 => /\ r.best = NearestIds(call, S, limit)
                                               /\ r.unique = Cardinality(S)
  <2>1. result # Unanswered
    BY DEF Done, Unanswered
  <2>2. /\ "tops" \in DOMAIN Calls /\ call \in Calls["tops"]
        /\ result.top64 = Top64(call) /\ result.legacy = RetainedTop11Legacy(call)
        /\ result.retained = RetainedTop11(call)
        /\ result.segmented = SegmentedTop11(call)
        /\ result.unique = SortUnique(call)
    BY <2>1 DEF TopsAreSound
  <2>3. IsSupport(call)
    BY <2>2, SupportAssumption DEF IsSupport
  <2>4. Shortlist \in Nat \ {0} /\ TopK + 1 \in Nat \ {0}
    BY TopAssumption
  <2>5. Good(Top64(call), Shortlist) /\ Good(RetainedTop11Legacy(call), TopK + 1)
    BY <2>3, <2>4, ScanAnswers DEF Top64, RetainedTop11Legacy
  <2>6. Good(SegmentedTop11(call), TopK + 1)
    BY <2>3, SegmentedAnswers
  <2>7. /\ RetainedTop11(call).status = 0 => RetainedTop11(call) = RetainedTop11Legacy(call)
        /\ RetainedTop11Legacy(call).status = 0 => RetainedTop11(call).status = 0
        /\ RetainedTop11(call).status = 0 => Fine(call, n)
    BY <2>3, RetainedIs
  <2>8. /\ RetainedTop11(call).status = 0 /\ call.offsets = <<0, n>>
             => SegmentedTop11(call) = RetainedTop11(call)
        /\ RetainedTop11(call).status = 0 => SortUnique(call) = call.ids
    BY <2>3, <2>7, OneSegmentAgrees, SortedAlready DEF SortUnique, Fine
  <2>9. /\ Top64(call).status = 0 <=> GoodSupport(call)
        /\ RetainedTop11Legacy(call).status = 0 <=> GoodSupport(call)
        /\ RetainedTop11(call).status = 0 <=> GoodSupport(call)
    <3>1. /\ Top64(call).status = 0 <=> Outer(call) = 0 /\ Fine(call, n)
          /\ RetainedTop11Legacy(call).status = 0 <=> Outer(call) = 0 /\ Fine(call, n)
      BY <2>3, <2>4, ScanAnswers DEF Top64, RetainedTop11Legacy
    <3>2. GoodSupport(call) <=> Outer(call) = 0 /\ Fine(call, n)
      BY <2>3, GoodIsFine
    <3>3. RetainedTop11(call).status = 0 <=> RetainedTop11Legacy(call).status = 0
      BY <2>7
    <3> QED
      BY <3>1, <3>2, <3>3
  <2>10. SegmentedTop11(call).status = 0 <=> GoodSegments(call)
    <3>1. GoodSegments(call) <=>
            /\ SegmentedOuter(call) = 0 /\ Cardinality(S) >= TopK
            /\ \A x \in S : call.dist[x] >= 0
      BY <2>3, GoodIsCut
    <3>2. ASSUME GoodSegments(call) PROVE SegmentedTop11(call).status = 0
      <4>1. \A m \in 1 .. n : call.ids[m] \in S
        BY <2>3 DEF IsSupport, ToSet
      <4>2. SegmentedTop11(call) = Out(0, NearestIds(call, S, TopK + 1), Cardinality(S))
        BY <2>3, <3>1, <3>2, <4>1, SegmentedAnswers
      <4> QED
        BY <4>2 DEF Out
    <3>3. ASSUME SegmentedTop11(call).status = 0 PROVE GoodSegments(call)
      BY <2>3, <3>1, <3>3, SegmentedAnswers
    <3> QED
      BY <3>2, <3>3
  <2> QED
    BY <2>2, <2>5, <2>6, <2>7, <2>8, <2>9, <2>10, Zenon DEF TopsAreExact
<1> QED
  BY <1>1, TopsStaySound, PTL

-----------------------------------------------------------------------------
(* The draws.                                                              *)

(* Quotient and remainder,                                                 *)
LEMMA QuotientIs ==
  ASSUME NEW a \in Nat, NEW w \in Nat \ {0}, NEW c, NEW d, c = a \div w, d = a % w
  PROVE  c \in Int /\ d \in 0 .. w - 1 /\ a = w * c + d
<1>1. c \in Int
  BY SMT
<1>2. d \in 0 .. w - 1
  BY SMT
<1>3. d \in Int
  BY <1>2
<1> QED
  BY <1>1, <1>2, <1>3, SMT

(* which no other pair is.                                                 *)
LEMMA RemainderIs ==
  ASSUME NEW w \in Nat \ {0}, NEW n \in Int, NEW r \in 0 .. w - 1
  PROVE  (w * n + r) % w = r
BY SMT

(* The words accepted are those from the remainder of WordSize on.         *)
LEMMA AcceptedIs ==
  ASSUME NEW w \in 1 .. WordSize, NEW v \in Int
  PROVE  DrawAccepted(v, w) <=> v >= WordSize % w
<1> DEFINE c == WordSize \div w
           m == WordSize % w
<1>1. w \in Nat \ {0} /\ WordSize \in Nat
  BY ResidentBlocksAssumption
<1>2. c \in Nat /\ m \in 0 .. w - 1 /\ WordSize = w * c + m
  <2>1. c = WordSize \div w /\ m = WordSize % w
    OBVIOUS
  <2> HIDE DEF c, m
  <2>2. c >= 0
    BY <1>1, <2>1, SMT
  <2> QED
    BY <1>1, <2>1, <2>2, QuotientIs
<1> HIDE DEF c, m
<1>3. WordSize - w = w * (c - 1) + m
  BY <1>1, <1>2
<1>4. (WordSize - w) % w = m
  BY <1>1, <1>2, <1>3, RemainderIs
<1> QED
  BY <1>4 DEF DrawAccepted, m

(* As many of them lead to a place as to any other: one for each multiple  *)
(* of the number of places that WordSize holds.                            *)
LEMMA WordsOfPlace ==
  ASSUME NEW w \in 1 .. WordSize, NEW r \in 0 .. w - 1
  PROVE  LET S == {v \in 0 .. WordSize - 1 : DrawAccepted(v, w) /\ v % w = r}
         IN Cardinality(S) = WordSize \div w
<1> DEFINE c == WordSize \div w
           m == WordSize % w
           S == {v \in 0 .. WordSize - 1 : DrawAccepted(v, w) /\ v % w = r}
           t == IF r >= m THEN r - m ELSE r - m + w
           f == [n \in 1 .. c |-> m + t + w * (n - 1)]
<1>1. w \in Nat \ {0} /\ WordSize \in Nat
  BY ResidentBlocksAssumption
<1>2. c \in Nat /\ m \in 0 .. w - 1 /\ WordSize = w * c + m
  <2>1. c = WordSize \div w /\ m = WordSize % w
    OBVIOUS
  <2> HIDE DEF c, m
  <2>2. c >= 0
    BY <1>1, <2>1, SMT
  <2> QED
    BY <1>1, <2>1, <2>2, QuotientIs
<1>3. \A v \in Int : DrawAccepted(v, w) <=> v >= m
  BY AcceptedIs
<1> HIDE DEF c, m
<1>4. t \in 0 .. w - 1 /\ \/ m + t = r \/ m + t = r + w
  BY <1>1, <1>2
<1> HIDE DEF t
<1>5. ASSUME NEW n \in 1 .. c
      PROVE  f[n] \in S
  <2> DEFINE v == m + t + w * (n - 1)
  <2>1. f[n] = v
    OBVIOUS
  <2>2. w * (n - 1) \in Nat /\ w * (n - 1) <= w * c - w
    <3> DEFINE e == n - 1
               g == c - n
    <3>1. e \in Nat /\ g \in Nat /\ c = e + g + 1
      BY <1>2
    <3> HIDE DEF e, g
    <3>2. w * e \in Nat /\ w * g \in Nat /\ w * c = w * e + w * g + w
      BY <1>1, <3>1, SMT
    <3> QED
      BY <1>1, <3>2 DEF e
  <2>3. v \in 0 .. WordSize - 1 /\ v >= m
    BY <1>1, <1>2, <1>4, <2>2
  <2>4. v % w = r
    <3>1. ASSUME NEW e \in Int, v = w * e + r
          PROVE  v % w = r
      <4> HIDE DEF v
      <4>1. (w * e + r) % w = r
        BY <1>1, RemainderIs
      <4> QED
        BY <3>1, <4>1
    <3>2. m + t = r => v = w * (n - 1) + r
      BY <1>1, <1>2, <1>4, <2>2
    <3>3. m + t = r + w => v = w * n + r
      BY <1>1, <1>2, <1>4, <2>2
    <3> HIDE DEF v
    <3> QED
      BY <1>2, <1>4, <3>1, <3>2, <3>3
  <2> HIDE DEF v
  <2> QED
    BY <1>3, <2>1, <2>3, <2>4
<1>6. ASSUME NEW n \in 1 .. c, NEW k \in 1 .. c, f[n] = f[k]
      PROVE  n = k
  <2> DEFINE a == w * (n - 1)
             b == w * (k - 1)
  <2>1. a \in Int /\ b \in Int /\ m + t + a = m + t + b
    BY <1>1, <1>6
  <2> HIDE DEF a, b
  <2>2. a = b
    BY <1>2, <1>4, <2>1
  <2>3. w * (n - k) = 0
    BY <1>1, <2>2, SMT DEF a, b
  <2> DEFINE e == n - k
  <2>4. e \in Int /\ w * e = 0
    BY <2>3
  <2> HIDE DEF e
  <2>5. e = 0
    BY <1>1, <2>4, SMT
  <2> QED
    BY <2>5 DEF e
<1>7. ASSUME NEW v \in S
      PROVE  \E n \in 1 .. c : f[n] = v
  <2> DEFINE q == v \div w
  <2>1. v \in Nat /\ v < WordSize /\ v >= m /\ v % w = r
    BY <1>1, <1>3
  <2>2. q \in Nat /\ v = w * q + r
    <3> DEFINE d == v % w
    <3>1. q = v \div w /\ d = v % w
      OBVIOUS
    <3> HIDE DEF q, d, S
    <3>2. q \in Int /\ v = w * q + d
      BY <1>1, <2>1, <3>1, QuotientIs
    <3>3. q >= 0
      BY <1>1, <2>1, <3>1, SMT
    <3> QED
      BY <2>1, <3>1, <3>2, <3>3
  <2> HIDE DEF q, S
  <2>3. CASE m + t = r
    <3>1. w * q < w * c
      BY <1>1, <1>2, <1>4, <2>1, <2>2, <2>3
    <3>2. q < c
      BY <1>1, <1>2, <2>2, <3>1, SMT
    <3>3. f[q + 1] = v
      BY <1>1, <1>2, <2>2, <2>3, <3>2
    <3>4. q + 1 \in 1 .. c
      BY <1>2, <2>2, <3>2
    <3> HIDE DEF f
    <3> QED
      BY <3>3, <3>4
  <2>4. CASE m + t = r + w
    <3>1. w * q >= 1 /\ w * q < w * c + w
      BY <1>1, <1>2, <1>4, <2>1, <2>2, <2>4
    <3>2. q >= 1 /\ q <= c
      BY <1>1, <1>2, <2>2, <3>1, SMT
    <3>3. w * (q - 1) = w * q - w
      BY <1>1, <2>2, SMT
    <3>4. f[q] = v
      BY <1>1, <1>2, <1>4, <2>2, <2>4, <3>2, <3>3
    <3>5. q \in 1 .. c
      BY <1>2, <2>2, <3>2
    <3> HIDE DEF f
    <3> QED
      BY <3>4, <3>5
  <2> QED
    BY <1>4, <2>3, <2>4
<1>8. f \in [1 .. c -> S]
  <2> HIDE DEF S
  <2> QED
    BY <1>5
<1>9. f \in Bijection(1 .. c, S)
  <2> HIDE DEF f, S
  <2> QED
    BY <1>6, <1>7, <1>8 DEF Bijection, Injection, Surjection, IsInjective
<1>10. IsFiniteSet(1 .. c) /\ Cardinality(1 .. c) = c
  BY <1>2, FS_Interval
<1>11. Cardinality(S) = c
  <2> HIDE DEF f, S
  <2> QED
    BY <1>9, <1>10, FS_Bijection DEF ExistsBijection
<1> QED
  BY <1>11 DEF c

(* No place is likelier than another, as long as the queries to order are  *)
(* not more than the words there are; and for each some words are accepted,*)
(* so that no turn of the shuffle has to wait for ever.                    *)
THEOREM DrawsAreUniform ==
  ASSUME NEW n \in 0 .. WordSize
  PROVE  /\ DrawsAreFair(n)
         /\ \A w \in 1 .. n : \A r \in 0 .. w - 1 :
              \E v \in 0 .. WordSize - 1 : DrawAccepted(v, w) /\ v % w = r
<1> DEFINE Words(w, r) == {v \in 0 .. WordSize - 1 : DrawAccepted(v, w) /\ v % w = r}
<1>1. ASSUME NEW w \in 1 .. n, NEW r \in 0 .. w - 1
      PROVE  w \in 1 .. WordSize /\ Cardinality(Words(w, r)) = WordSize \div w
  <2>1. w \in 1 .. WordSize
    BY ResidentBlocksAssumption
  <2> QED
    BY <2>1, WordsOfPlace
<1>2. DrawsAreFair(n)
  BY <1>1 DEF DrawsAreFair
<1>3. ASSUME NEW w \in 1 .. n, NEW r \in 0 .. w - 1
      PROVE  Words(w, r) # {}
  <2>1. w \in 1 .. WordSize /\ Cardinality(Words(w, r)) = WordSize \div w
    BY <1>1
  <2>2. WordSize \div w # 0
    <3> DEFINE c == WordSize \div w
               m == WordSize % w
    <3>1. c = WordSize \div w /\ m = WordSize % w
      OBVIOUS
    <3> HIDE DEF c, m
    <3>2. w \in Nat \ {0} /\ WordSize \in Nat
      BY <2>1, ResidentBlocksAssumption
    <3>3. c \in Int /\ m \in 0 .. w - 1 /\ WordSize = w * c + m
      BY <3>1, <3>2, QuotientIs
    <3>4. c # 0
      BY <2>1, <3>3, ResidentBlocksAssumption, SMT
    <3> QED
      BY <3>4 DEF c
  <2> HIDE DEF Words
  <2> QED
    BY <2>1, <2>2, FS_EmptySet
<1> QED
  BY <1>2, <1>3

-----------------------------------------------------------------------------
(* A run, from the data to its last block.                                 *)

(* What a run r over the call c has decided so far: it was closed for the  *)
(* reason there is, and each block that was timed has the arm of its place *)
(* and was let pass, but for one that ended the run.                       *)
RunInv(c, r) ==
  /\ r = [pc |-> r.pc, why |-> r.why, queries |-> r.queries,
          outcomes |-> r.outcomes]
  /\ r.why = WhyClosed(c) \/ WhyClosed(c) = "open"
  /\ r.pc # "refused" => WhyClosed(c) = "open"
  /\ r.pc \in {"open", "ready", "done", "stopped", "refused"}
  /\ \E S : r.outcomes \in Seq(S)
  /\ Len(r.outcomes) <= LastResidentBlock(c) + 1
  /\ r.pc = "open" => r.outcomes = <<>>
  /\ r.pc = "ready" => Len(r.outcomes) <= LastResidentBlock(c)
  /\ r.pc = "done" => Len(r.outcomes) = LastResidentBlock(c) + 1
  /\ \A b \in 1 .. Len(r.outcomes) :
       /\ r.outcomes[b].arm = ArmOf(c, b - 1)
       /\ ~r.outcomes[b].gate => b = Len(r.outcomes) /\ r.pc = "stopped"

BlocksAreInOrder ==
  kernel = "block" =>
    /\ "block" \in DOMAIN Calls /\ call \in Calls["block"]
    /\ result # Unanswered => RunInv(call, result)

(* Only three steps are a run's; the call stays.                           *)
LEMMA StepsOfRuns ==
  ASSUME Next, kernel' = "block"
  PROVE  /\ kernel = "block" /\ call' = call
         /\ OpenResident \/ OpenQueries \/ TimeBlock
BY DEF Next, CallPair, CallTops, CallCodec, OpenCompositors, Compose,
       LoadWorkloads, SelectStaged, Improve, Settle, TimeFamily, ValidateRun,
       CallChecks, CallRanges, StartProvider, RunStage, Release, StartPasses,
       StepPass, EndPasses, StartAgain, SupervisePass, Crash, OpenResident,
       OpenQueries, TimeBlock

LEMMA LastBlockIs ==
  ASSUME NEW c
  PROVE  LastResidentBlock(c) \in Nat
BY ResidentBlocksAssumption DEF LastResidentBlock

(* Before its queries are open, a run has no block.                        *)
LEMMA OpenStarts ==
  ASSUME OpenResident
  PROVE  RunInv(call, result')
<1> DEFINE c == call
           r == result'
<1>1. r = [pc |-> IF WhyClosed(c) = "open" THEN "open" ELSE "refused",
           why |-> WhyClosed(c), queries |-> <<>>, outcomes |-> <<>>]
  BY DEF OpenResident
<1> HIDE DEF c, r
<1>2. /\ r.pc = IF WhyClosed(c) = "open" THEN "open" ELSE "refused"
      /\ r.why = WhyClosed(c) /\ r.queries = <<>> /\ r.outcomes = <<>>
  BY <1>1
<1>3. r = [pc |-> r.pc, why |-> r.why, queries |-> r.queries,
           outcomes |-> r.outcomes]
  BY <1>1, <1>2
<1>4. r.outcomes \in Seq({}) /\ Len(r.outcomes) = 0
  BY <1>2
<1>5. LastResidentBlock(c) \in Nat
  BY LastBlockIs
<1>6. RunInv(c, r)
  BY <1>2, <1>3, <1>4, <1>5 DEF RunInv
<1> QED
  BY <1>6 DEF c, r

(* The queries are opened only if nothing kept them closed.                *)
LEMMA QueriesOpen ==
  ASSUME OpenQueries, RunInv(call, result)
  PROVE  RunInv(call, result')
<1> DEFINE c == call
           r == result
           s == result'
           p == IF WhyUnasked(c) = "ready" THEN "ready" ELSE "refused"
           w == WhyUnasked(c)
           asked == IF WhyUnasked(c) = "ready" THEN Asked(c) ELSE r.queries
<1>1. r.pc = "open" /\ RunInv(c, r)
  BY DEF OpenQueries
<1>2. r = [pc |-> r.pc, why |-> r.why, queries |-> r.queries,
           outcomes |-> r.outcomes]
      /\ WhyClosed(c) = "open" /\ r.outcomes = <<>>
  BY <1>1 DEF RunInv
<1>3. s = [r EXCEPT !.pc = p, !.why = w, !.queries = asked]
  BY DEF OpenQueries
<1>4. p = "ready" \/ p = "refused"
  OBVIOUS
<1> HIDE DEF c, r, s, p, w, asked
<1>5. s = [pc |-> p, why |-> w, queries |-> asked, outcomes |-> r.outcomes]
  BY <1>2, <1>3
<1>6. /\ s.pc = p /\ s.why = w /\ s.queries = asked /\ s.outcomes = <<>>
      /\ s = [pc |-> s.pc, why |-> s.why, queries |-> s.queries,
              outcomes |-> s.outcomes]
  BY <1>2, <1>5
<1>7. s.outcomes \in Seq({}) /\ Len(s.outcomes) = 0
  BY <1>6
<1>8. LastResidentBlock(c) \in Nat
  BY LastBlockIs
<1>9. RunInv(c, s)
  BY <1>2, <1>4, <1>6, <1>7, <1>8 DEF RunInv
<1> QED
  BY <1>9 DEF c, s

(* A block is the next of its run, and one that fails is the last.         *)
LEMMA BlockIsTimed ==
  ASSUME TimeBlock, RunInv(call, result)
  PROVE  RunInv(call, result')
<1> DEFINE c == call
           r == result
           s == result'
           n == Len(r.outcomes)
           last == LastResidentBlock(c)
<1>1. r.pc = "ready" /\ RunInv(c, r)
  BY DEF TimeBlock
<1>2. /\ r = [pc |-> r.pc, why |-> r.why, queries |-> r.queries,
              outcomes |-> r.outcomes]
      /\ WhyClosed(c) = "open" /\ n <= last
      /\ \A b \in 1 .. n : r.outcomes[b].arm = ArmOf(c, b - 1) /\ r.outcomes[b].gate
  BY <1>1 DEF RunInv
<1>3. last \in Nat
  BY LastBlockIs
<1>4. PICK S : r.outcomes \in Seq(S)
  BY <1>1 DEF RunInv
<1>5. n \in Nat
  BY <1>4
<1>6. CASE s = [r EXCEPT !.pc = "refused", !.why = "prewarm"]
  <2> HIDE DEF c, r, s, last, n
  <2>1. s = [pc |-> "refused", why |-> "prewarm", queries |-> r.queries,
             outcomes |-> r.outcomes]
    BY <1>2, <1>6
  <2>2. /\ s.pc = "refused" /\ s.why = "prewarm" /\ s.outcomes = r.outcomes
        /\ s = [pc |-> s.pc, why |-> s.why, queries |-> s.queries,
                outcomes |-> s.outcomes]
    BY <2>1
  <2>3. n = Len(s.outcomes)
    BY <2>2 DEF n
  <2>4. LastResidentBlock(c) = last
    BY DEF last
  <2>5. (\E S1 : s.outcomes \in Seq(S1)) /\ Len(s.outcomes) <= last + 1
    BY <1>2, <1>3, <1>4, <1>5, <2>2, <2>3
  <2>6. \A b \in 1 .. Len(s.outcomes) :
          s.outcomes[b].arm = ArmOf(c, b - 1) /\ s.outcomes[b].gate
    BY <1>2, <2>2, <2>3
  <2>7. WhyClosed(c) = "open"
    BY <1>2
  <2>8. RunInv(c, s)
    BY <2>2, <2>4, <2>5, <2>6, <2>7 DEF RunInv
  <2> QED
    BY <2>8 DEF c, s
<1>7. ASSUME NEW o, NEW p, o.arm = ArmOf(c, n),
             s = [r EXCEPT !.outcomes = Append(@, o), !.pc = p],
             p = IF ~o.gate THEN "stopped" ELSE IF n = last THEN "done" ELSE r.pc
      PROVE  RunInv(c, s)
  <2> HIDE DEF c, r, s, last, n
  <2>1. s = [pc |-> p, why |-> r.why, queries |-> r.queries,
             outcomes |-> Append(r.outcomes, o)]
    BY <1>2, <1>7
  <2> DEFINE t == Append(r.outcomes, o)
  <2>2. /\ s.pc = p /\ s.outcomes = t
        /\ s = [pc |-> s.pc, why |-> s.why, queries |-> s.queries,
                outcomes |-> s.outcomes]
    BY <2>1
  <2>3. t \in Seq(S \cup {o}) /\ Len(t) = n + 1 /\ t[n + 1] = o
        /\ \A b \in 1 .. n : t[b] = r.outcomes[b]
    <3>1. r.outcomes \in Seq(S \cup {o}) /\ o \in S \cup {o}
      BY <1>4
    <3> QED
      BY <3>1 DEF n
  <2> HIDE DEF t
  <2>4. LastResidentBlock(c) = last
    BY DEF last
  <2>5. p \in {"ready", "done", "stopped"} /\ (p = "ready" => n < last)
        /\ (p = "done" => n = last) /\ (p # "stopped" => o.gate)
    BY <1>1, <1>2, <1>3, <1>5, <1>7
  <2>6. ASSUME NEW b \in 1 .. n + 1
        PROVE  /\ t[b].arm = ArmOf(c, b - 1)
               /\ ~t[b].gate => b = n + 1 /\ p = "stopped"
    <3>1. CASE b \in 1 .. n
      <4>1. t[b] = r.outcomes[b]
        BY <2>3, <3>1
      <4> QED
        BY <1>2, <3>1, <4>1
    <3>2. CASE b = n + 1
      <4>1. t[b] = o /\ b - 1 = n
        BY <1>5, <2>3, <3>2
      <4> QED
        BY <1>7, <2>5, <3>2, <4>1
    <3> QED
      BY <1>5, <3>1, <3>2
  <2> QED
    BY <1>2, <1>3, <1>5, <2>2, <2>3, <2>4, <2>5, <2>6 DEF RunInv
<1>8. \/ s = [r EXCEPT !.pc = "refused", !.why = "prewarm"]
      \/ \E e \in call.engines, again \in call.engines :
           LET o == RunBlock(call, result.queries, n, e, again)
           IN s = [r EXCEPT !.outcomes = Append(@, o),
                            !.pc = IF ~o.gate THEN "stopped"
                                   ELSE IF n = last THEN "done" ELSE @]
  BY DEF TimeBlock
<1>9. ASSUME NEW e, NEW again
      PROVE  RunBlock(call, result.queries, n, e, again).arm = ArmOf(c, n)
  BY DEF RunBlock
<1>10. ASSUME NEW e \in call.engines, NEW again \in call.engines,
              LET o == RunBlock(call, result.queries, n, e, again)
              IN s = [r EXCEPT !.outcomes = Append(@, o),
                               !.pc = IF ~o.gate THEN "stopped"
                                      ELSE IF n = last THEN "done" ELSE @]
       PROVE  RunInv(c, s)
  <2> DEFINE o == RunBlock(call, result.queries, n, e, again)
             p == IF ~o.gate THEN "stopped" ELSE IF n = last THEN "done" ELSE r.pc
  <2>1. s = [r EXCEPT !.outcomes = Append(@, o), !.pc = p]
    BY <1>10
  <2>2. o.arm = ArmOf(c, n)
    BY <1>9
  <2>3. p = IF ~o.gate THEN "stopped" ELSE IF n = last THEN "done" ELSE r.pc
    OBVIOUS
  <2> HIDE DEF o, p, c, s, n, last, r
  <2> QED
    BY <1>7, <2>1, <2>2, <2>3
<1> QED
  BY <1>6, <1>8, <1>10

(* The inductive invariant of the runs.                                    *)
THEOREM BlocksStayInOrder == Spec => []BlocksAreInOrder
<1>1. Init => BlocksAreInOrder
  BY DEF Init, BlocksAreInOrder
<1>2. BlocksAreInOrder /\ [Next]_vars => BlocksAreInOrder'
  <2>1. CASE UNCHANGED vars
    BY <2>1 DEF vars, BlocksAreInOrder
  <2>2. ASSUME BlocksAreInOrder, Next, kernel' = "block"
        PROVE  /\ "block" \in DOMAIN Calls /\ call' \in Calls["block"]
               /\ result' # Unanswered => RunInv(call', result')
    <3>1. /\ kernel = "block" /\ call' = call
          /\ OpenResident \/ OpenQueries \/ TimeBlock
      BY <2>2, StepsOfRuns
    <3>2. /\ "block" \in DOMAIN Calls /\ call \in Calls["block"]
          /\ result # Unanswered => RunInv(call, result)
      BY <2>2, <3>1 DEF BlocksAreInOrder
    <3>3. Unanswered.pc = "called"
      BY DEF Unanswered
    <3>4. CASE OpenQueries
      <4>1. result # Unanswered
        BY <3>3, <3>4 DEF OpenQueries
      <4> QED
        BY <3>1, <3>2, <3>4, <4>1, QueriesOpen
    <3>5. CASE TimeBlock
      <4>1. result # Unanswered
        BY <3>3, <3>5 DEF TimeBlock
      <4> QED
        BY <3>1, <3>2, <3>5, <4>1, BlockIsTimed
    <3> QED
      BY <3>1, <3>2, <3>4, <3>5, OpenStarts
  <2> QED
    BY <2>1, <2>2 DEF BlocksAreInOrder
<1> QED
  BY <1>1, <1>2, PTL DEF Spec

(* A run reaches its queries only if SIEVE's side is no larger than the    *)
(* rest, although the sums that tell may wrap.                             *)
THEOREM SystemsComparable ==
  Spec => [](kernel = "block" /\ result # Unanswered => SystemsAreComparable(call))
<1>1. BlocksAreInOrder =>
        (kernel = "block" /\ result # Unanswered => SystemsAreComparable(call))
  <2> DEFINE c == call
             p == c.persistent
             d == Deltas(c.rss)
  <2> SUFFICES ASSUME BlocksAreInOrder, kernel = "block", result # Unanswered,
                      c.program = "formal",
                      result.why \notin {"data", "history", "metadata", "inventory",
                                         "resources"}
               PROVE  /\ p.saturated <= p.reference + p.graph
                      /\ c.rss[4] - c.rss[3] <= c.rss[3] - c.rss[1]
    BY DEF SystemsAreComparable
  <2>1. WhyClosed(c) = "open"
    <3>1. result.why = WhyClosed(c) \/ WhyClosed(c) = "open"
      BY DEF BlocksAreInOrder, RunInv
    <3>2. WhyClosed(c) \in {"data", "history", "metadata", "inventory", "resources",
                            "open"}
      BY DEF WhyClosed
    <3> QED
      BY <3>1, <3>2
  <2>2. ResourceGate(c)
    BY <2>1 DEF WhyClosed
  <2>3. c \in Calls["block"] /\ "block" \in DOMAIN Calls
    BY DEF BlocksAreInOrder
  <2>4. /\ c.rss[1] \in 0 .. WordSize - 1 /\ c.rss[2] \in 0 .. WordSize - 1
        /\ c.rss[3] \in 0 .. WordSize - 1 /\ c.rss[4] \in 0 .. WordSize - 1
        /\ p.saturated \in 0 .. WordSize - 1 /\ p.reference \in 0 .. WordSize - 1
        /\ p.graph \in 0 .. WordSize - 1
    BY <2>3, SizeAssumption
  <2>5. /\ d[1] = c.rss[2] - c.rss[1] /\ d[2] = c.rss[3] - c.rss[2]
        /\ d[3] = c.rss[4] - c.rss[3]
    BY DEF Deltas
  <2>6. /\ d[1] >= 0 /\ d[2] >= 0 /\ d[3] >= 0
        /\ FitsIn(p.saturated, p.reference, p.graph) /\ FitsIn(d[3], d[1], d[2])
    <3> DEFINE m == [saturated |-> p.saturated, reference |-> p.reference,
                     graph |-> p.graph, referenceRun |-> d[1], graphRun |-> d[2],
                     saturatedRun |-> d[3]]
    <3>1. ResourceDecision(m) = "pass" /\ \A n \in 1 .. 3 : d[n] >= 0
      BY <2>2 DEF ResourceGate
    <3>2. /\ FitsIn(m.saturated, m.reference, m.graph)
          /\ FitsIn(m.saturatedRun, m.referenceRun, m.graphRun)
      <4> HIDE DEF m
      <4> QED
        BY <3>1 DEF ResourceDecision
    <3> QED
      BY <3>1, <3>2
  <2>7. ASSUME NEW a \in 0 .. WordSize - 1, NEW b \in 0 .. WordSize - 1,
               NEW e \in 0 .. WordSize - 1, FitsIn(a, b, e)
        PROVE  a <= b + e
    <3>1. b + e \in 0 .. WordSize - 1 /\ a <= (b + e) % WordSize
      BY <2>7, ResidentBlocksAssumption DEF FitsIn
    <3>2. (b + e) % WordSize = b + e
      BY <3>1, ResidentBlocksAssumption
    <3> QED
      BY <3>1, <3>2
  <2> HIDE DEF c, p, d
  <2>8. d[1] \in 0 .. WordSize - 1 /\ d[2] \in 0 .. WordSize - 1
        /\ d[3] \in 0 .. WordSize - 1
    BY <2>4, <2>5, <2>6, ResidentBlocksAssumption
  <2>9. d[3] <= d[1] + d[2] /\ p.saturated <= p.reference + p.graph
    BY <2>4, <2>6, <2>7, <2>8
  <2> QED
    BY <2>4, <2>5, <2>9
<1> QED
  BY <1>1, BlocksStayInOrder, PTL

(* A run ends with the first block that does not count, or has them all,   *)
(* and each pair of its blocks has one of either system.                   *)
THEOREM RunsAreInOrder ==
  Spec => [](kernel = "block" /\ result # Unanswered => RunIsInOrder(call))
<1>1. BlocksAreInOrder =>
        (kernel = "block" /\ result # Unanswered => RunIsInOrder(call))
  <2> SUFFICES ASSUME BlocksAreInOrder, kernel = "block", result # Unanswered
               PROVE  RunIsInOrder(call)
    OBVIOUS
  <2>1. RunInv(call, result)
    BY DEF BlocksAreInOrder
  <2>2. DOMAIN result.outcomes = 1 .. Len(result.outcomes)
        /\ Len(result.outcomes) \in Nat
    <3>1. PICK S : result.outcomes \in Seq(S)
      BY <2>1 DEF RunInv
    <3> QED
      BY <3>1
  <2>3. ASSUME NEW b \in 1 .. Len(result.outcomes), call.program = "formal",
               b % 2 = 0
        PROVE  {result.outcomes[b].arm, result.outcomes[b - 1].arm} = {"S", "H"}
    <3>1. b - 1 \in 1 .. Len(result.outcomes)
      BY <2>2, <2>3
    <3>2. /\ result.outcomes[b].arm = ArmOf(call, b - 1)
          /\ result.outcomes[b - 1].arm = ArmOf(call, b - 1 - 1)
      BY <2>1, <2>3, <3>1 DEF RunInv
    <3>3. /\ result.outcomes[b].arm = ScheduledArm(b - 1)
          /\ result.outcomes[b - 1].arm = ScheduledArm(b - 2)
      <4>1. b - 1 - 1 = b - 2
        BY <2>2
      <4> QED
        BY <2>3, <3>2, <4>1 DEF ArmOf
    <3>4. /\ (b - 1) \div 2 = (b - 2) \div 2
          /\ (b - 1) % 2 = 1 /\ (b - 2) % 2 = 0
      BY <2>2, <2>3, SMT
    <3>5. {ScheduledArm(b - 1), ScheduledArm(b - 2)} = {"S", "H"}
      BY <3>4 DEF ScheduledArm
    <3> QED
      BY <3>3, <3>5
  <2>4. \A b \in 1 .. Len(result.outcomes) : ~result.outcomes[b].gate =>
          b = Len(result.outcomes) /\ result.pc = "stopped"
    BY <2>1 DEF RunInv
  <2>5. result.pc = "done" => Len(result.outcomes) = LastResidentBlock(call) + 1
    BY <2>1 DEF RunInv
  <2> QED
    BY <2>2, <2>3, <2>4, <2>5 DEF RunIsInOrder
<1> QED
  BY <1>1, BlocksStayInOrder, PTL

-----------------------------------------------------------------------------
(* Sums.                                                                   *)

(* Partial sums are sums.                                                  *)
LEMMA PartialIs ==
  ASSUME NEW g \in Nat, NEW v \in [1 .. g -> Int]
  PROVE  /\ Partial(v, 0) = 0
         /\ \A n \in 0 .. g : Partial(v, n) \in Int
         /\ \A n \in 0 .. g - 1 : Partial(v, n + 1) = Partial(v, n) + v[n + 1]
<1> DEFINE G == [p \in (0 .. g - 1) \X Int |-> p[2] + v[p[1] + 1]]
<1>1. 0 \in Int /\ IsStep(G, g, Int)
  <2>1. \A p \in (0 .. g - 1) \X Int : p[2] + v[p[1] + 1] \in Int
    OBVIOUS
  <2> QED
    BY <2>1 DEF IsStep
<1>2. \A k \in 0 .. g - 1, s \in Int : G[<<k, s>>] = s + v[k + 1]
  OBVIOUS
<1> HIDE DEF G
<1>3. PICK r \in [0 .. g -> Int] : IsRun(r, g, 0, G)
  BY <1>1, RunExists
<1>4. r[0] = 0 /\ \A k \in 0 .. g - 1 : r[k + 1] = r[k] + v[k + 1]
  <2>1. \A k \in 0 .. g - 1 : r[k] \in Int
    OBVIOUS
  <2> QED
    BY <1>2, <1>3, <2>1 DEF IsRun
<1>5. ASSUME NEW n \in 0 .. g PROVE Partial(v, n) = r[n]
  <2> DEFINE Eq(f) == f = [k \in 0 .. n |-> IF k = 0 THEN 0 ELSE f[k - 1] + v[k]]
             f == CHOOSE h : Eq(h)
             t == [k \in 0 .. n |-> r[k]]
  <2>1. Eq(t)
    <3>1. ASSUME NEW k \in 0 .. n
          PROVE  t[k] = IF k = 0 THEN 0 ELSE t[k - 1] + v[k]
      <4>1. CASE k = 0
        BY <1>4, <4>1
      <4>2. CASE k # 0
        <5> DEFINE h == k - 1
        <5>1. h \in 0 .. g - 1 /\ h + 1 = k /\ h \in 0 .. n
          BY <4>2
        <5> HIDE DEF h
        <5>2. t[k] = r[k] /\ t[h] = r[h] /\ r[h + 1] = r[h] + v[h + 1]
          BY <1>4, <5>1
        <5>3. t[k] = t[h] + v[k]
          BY <5>1, <5>2
        <5> QED
          BY <4>2, <5>3 DEF h
      <4> QED
        BY <4>1, <4>2
    <3> HIDE DEF t
    <3>2. t = [k \in 0 .. n |-> t[k]]
      BY DEF t
    <3> QED
      BY <3>1, <3>2
  <2>2. Eq(f)
    <3> HIDE DEF Eq, t
    <3> QED
      BY <2>1
  <2>3. Partial(v, n) = f[n]
    BY DEF Partial
  <2>4. f = [k \in 0 .. n |-> IF k = 0 THEN 0 ELSE f[k - 1] + v[k]]
    BY <2>2
  <2> HIDE DEF f, t, Eq
  <2> DEFINE S == {k \in 0 .. n : f[k] = r[k]}
  <2>5. 0 \in S
    BY <1>4, <2>4
  <2>6. ASSUME NEW k \in 0 .. n - 1, k \in S PROVE k + 1 \in S
    <3> DEFINE h == k + 1
    <3>1. h \in 0 .. n /\ h # 0 /\ h - 1 = k
      OBVIOUS
    <3> HIDE DEF h
    <3>2. f[h] = f[k] + v[h]
      BY <2>4, <3>1
    <3>3. r[h] = r[k] + v[h]
      BY <1>4 DEF h
    <3> QED
      BY <2>6, <3>1, <3>2, <3>3 DEF h
  <2>7. \A k \in 0 .. n : k \in S
    <3>1. n \in Nat
      OBVIOUS
    <3> HIDE DEF S
    <3> QED
      BY <2>5, <2>6, <3>1, CountUp
  <2> QED
    BY <2>3, <2>7
<1>6. \A n \in 0 .. g - 1 : n \in 0 .. g /\ n + 1 \in 0 .. g
  OBVIOUS
<1> QED
  BY <1>4, <1>5, <1>6

(* And they grow, if nothing is below zero.                                *)
LEMMA PartialGrows ==
  ASSUME NEW g \in Nat, NEW v \in [1 .. g -> Nat], NEW n \in 0 .. g
  PROVE  /\ Partial(v, n) \in Int /\ Partial(v, n) >= 0
         /\ Partial(v, n) <= Partial(v, g)
<1>1. /\ v \in [1 .. g -> Int] /\ Partial(v, 0) = 0
      /\ \A k \in 0 .. g : Partial(v, k) \in Int
      /\ \A k \in 0 .. g - 1 : Partial(v, k + 1) = Partial(v, k) + v[k + 1]
  BY PartialIs
<1> DEFINE S == {m \in 0 .. g : \A k \in 0 .. m : Partial(v, k) >= 0
                                                  /\ Partial(v, k) <= Partial(v, m)}
<1>2. 0 \in S
  BY <1>1
<1>3. ASSUME NEW m \in 0 .. g - 1, m \in S PROVE m + 1 \in S
  <2>1. /\ v[m + 1] >= 0 /\ v[m + 1] \in Int /\ m + 1 \in 0 .. g
        /\ Partial(v, m + 1) = Partial(v, m) + v[m + 1]
        /\ Partial(v, m) \in Int /\ Partial(v, m) >= 0
    BY <1>1, <1>3
  <2>2. ASSUME NEW k \in 0 .. m + 1
        PROVE  Partial(v, k) >= 0 /\ Partial(v, k) <= Partial(v, m + 1)
    <3>1. CASE k = m + 1
      BY <2>1, <3>1
    <3>2. CASE k # m + 1
      <4>1. k \in 0 .. m /\ Partial(v, k) \in Int
        BY <1>1, <3>2
      <4> QED
        BY <1>3, <2>1, <4>1
    <3> QED
      BY <3>1, <3>2
  <2> QED
    BY <2>1, <2>2
<1>4. g \in S
  <2> HIDE DEF S
  <2>1. \A k \in 0 .. g : k \in S
    BY <1>2, <1>3, CountUp
  <2> QED
    BY <2>1
<1> QED
  BY <1>1, <1>4

(* What v has at the places T, and nothing elsewhere.                      *)
Only(v, g, T) == [i \in 1 .. g |-> IF i \in T THEN v[i] ELSE 0]

(* A further place adds what it has.                                       *)
LEMMA OnlyAdds ==
  ASSUME NEW g \in Nat, NEW v \in [1 .. g -> Int], NEW T, NEW p \in 1 .. g, p \notin T
  PROVE  Partial(Only(v, g, T \cup {p}), g) = Partial(Only(v, g, T), g) + v[p]
<1> DEFINE a == Only(v, g, T)
           b == Only(v, g, T \cup {p})
<1>1. /\ a \in [1 .. g -> Int] /\ b \in [1 .. g -> Int]
      /\ \A i \in 1 .. g : i # p => b[i] = a[i]
      /\ b[p] = v[p] /\ a[p] = 0 /\ v[p] \in Int
  BY DEF Only
<1> HIDE DEF a, b
<1>2. /\ Partial(a, 0) = 0
      /\ \A k \in 0 .. g : Partial(a, k) \in Int
      /\ \A k \in 0 .. g - 1 : Partial(a, k + 1) = Partial(a, k) + a[k + 1]
  BY <1>1, PartialIs
<1>3. /\ Partial(b, 0) = 0
      /\ \A k \in 0 .. g : Partial(b, k) \in Int
      /\ \A k \in 0 .. g - 1 : Partial(b, k + 1) = Partial(b, k) + b[k + 1]
  BY <1>1, PartialIs
<1> DEFINE S == {k \in 0 .. g : Partial(b, k) = Partial(a, k) + IF k < p THEN 0 ELSE v[p]}
<1>4. 0 \in S
  BY <1>2, <1>3
<1>5. ASSUME NEW k \in 0 .. g - 1, k \in S PROVE k + 1 \in S
  <2>1. k + 1 \in 1 .. g /\ k + 1 \in 0 .. g /\ k \in 0 .. g
        /\ Partial(a, k) \in Int /\ Partial(b, k) \in Int
        /\ Partial(b, k + 1) = Partial(b, k) + b[k + 1]
        /\ Partial(a, k + 1) = Partial(a, k) + a[k + 1]
        /\ a[k + 1] \in Int
    <3>1. k + 1 \in 1 .. g /\ k + 1 \in 0 .. g /\ k \in 0 .. g
      OBVIOUS
    <3>2. Partial(a, k) \in Int /\ Partial(a, k + 1) = Partial(a, k) + a[k + 1]
      BY <1>2, <3>1, Zenon
    <3>3. Partial(b, k) \in Int /\ Partial(b, k + 1) = Partial(b, k) + b[k + 1]
      BY <1>3, <3>1, Zenon
    <3>4. a[k + 1] \in Int
      BY <1>1, <3>1
    <3> QED
      BY <3>1, <3>2, <3>3, <3>4, Zenon
  <2>2. CASE k + 1 < p
    BY <1>1, <1>5, <2>1, <2>2
  <2>3. CASE k + 1 = p
    <3>1. k < p /\ ~ (k + 1 < p)
      BY <2>3
    <3>2. Partial(b, k) = Partial(a, k) + 0
      BY <1>5, <3>1
    <3>3. b[k + 1] = v[p] /\ a[k + 1] = 0
      BY <1>1, <2>3, Zenon
    <3>4. Partial(b, k + 1) = Partial(a, k + 1) + v[p]
      BY <1>1, <2>1, <3>2, <3>3
    <3> QED
      BY <2>1, <3>1, <3>4
  <2>4. CASE k + 1 > p
    BY <1>1, <1>5, <2>1, <2>4
  <2> QED
    BY <2>1, <2>2, <2>3, <2>4
<1>6. g \in S
  <2> HIDE DEF S
  <2>1. \A k \in 0 .. g : k \in S
    BY <1>4, <1>5, CountUp
  <2> QED
    BY <2>1
<1> QED
  BY <1>6 DEF a, b

(* An order of the places of a vector.                                     *)
IsOrder(order, g) ==
  /\ order \in [1 .. g -> 1 .. g]
  /\ \A i, j \in 1 .. g : order[i] = order[j] => i = j
  /\ \A p \in 1 .. g : \E i \in 1 .. g : order[i] = p

(* The groups of a row add up alike in any order.                          *)
LEMMA PermutedSum ==
  ASSUME NEW g \in Nat, NEW v \in [1 .. g -> Int], NEW order, IsOrder(order, g)
  PROVE  Partial([i \in 1 .. g |-> v[order[i]]], g) = Partial(v, g)
<1> DEFINE w == [i \in 1 .. g |-> v[order[i]]]
           First(n) == {order[i] : i \in 1 .. n}
<1>1. /\ w \in [1 .. g -> Int] /\ \A i \in 1 .. g : w[i] = v[order[i]]
      /\ \A i \in 1 .. g : order[i] \in 1 .. g
  BY DEF IsOrder
<1> HIDE DEF w
<1>2. /\ Partial(w, 0) = 0
      /\ \A k \in 0 .. g : Partial(w, k) \in Int
      /\ \A k \in 0 .. g - 1 : Partial(w, k + 1) = Partial(w, k) + w[k + 1]
  BY <1>1, PartialIs
<1> DEFINE S == {k \in 0 .. g : Partial(w, k) = Partial(Only(v, g, First(k)), g)}
<1>3. 0 \in S
  <2> DEFINE z == Only(v, g, First(0))
  <2>1. z \in [1 .. g -> Int] /\ \A i \in 1 .. g : z[i] = 0
    BY DEF Only
  <2> HIDE DEF z
  <2>2. /\ Partial(z, 0) = 0
        /\ \A k \in 0 .. g : Partial(z, k) \in Int
        /\ \A k \in 0 .. g - 1 : Partial(z, k + 1) = Partial(z, k) + z[k + 1]
    BY <2>1, PartialIs
  <2> DEFINE R == {k \in 0 .. g : Partial(z, k) = 0}
  <2>3. 0 \in R
    BY <2>2
  <2>4. ASSUME NEW k \in 0 .. g - 1, k \in R PROVE k + 1 \in R
    <3>1. k + 1 \in 1 .. g /\ k + 1 \in 0 .. g
      OBVIOUS
    <3> QED
      BY <2>1, <2>2, <2>4, <3>1
  <2>5. g \in R
    <3> HIDE DEF R
    <3>1. \A k \in 0 .. g : k \in R
      BY <2>3, <2>4, CountUp
    <3> QED
      BY <3>1
  <2> QED
    BY <1>2, <2>5 DEF z
<1>4. ASSUME NEW k \in 0 .. g - 1, k \in S PROVE k + 1 \in S
  <2> DEFINE p == order[k + 1]
  <2>1. k + 1 \in 1 .. g /\ k + 1 \in 0 .. g /\ p \in 1 .. g
    BY <1>1
  <2>2. p \notin First(k)
    <3> SUFFICES ASSUME NEW i \in 1 .. k, order[i] = order[k + 1] PROVE FALSE
      OBVIOUS
    <3>1. i \in 1 .. g
      OBVIOUS
    <3>2. i = k + 1
      BY <2>1, <3>1 DEF IsOrder
    <3> QED
      BY <3>2
  <2>3. First(k + 1) = First(k) \cup {p}
    <3>1. 1 .. k + 1 = (1 .. k) \cup {k + 1}
      OBVIOUS
    <3> QED
      BY <3>1
  <2>4. w[k + 1] = v[p]
    BY <1>1, <2>1
  <2> HIDE DEF p, First
  <2>5. Partial(Only(v, g, First(k + 1)), g) = Partial(Only(v, g, First(k)), g) + v[p]
    BY <2>1, <2>2, <2>3, OnlyAdds
  <2> QED
    BY <1>2, <1>4, <2>1, <2>4, <2>5
<1>5. g \in S
  <2> HIDE DEF S
  <2>1. \A k \in 0 .. g : k \in S
    BY <1>3, <1>4, CountUp
  <2> QED
    BY <2>1
<1>6. Only(v, g, First(g)) = v
  <2>1. \A i \in 1 .. g : i \in First(g)
    BY DEF IsOrder
  <2> HIDE DEF First
  <2>2. Only(v, g, First(g)) = [i \in 1 .. g |-> v[i]]
    BY <2>1 DEF Only
  <2> QED
    BY <2>2
<1> QED
  BY <1>5, <1>6 DEF w

-----------------------------------------------------------------------------
(* The frontier of a pair.                                                 *)

(* A call of the pair scans.                                               *)
IsPosting(c) ==
  /\ c.primary \in Seq(Int) /\ Strict(c.primary)
  /\ c.secondary \in Seq(Int) /\ Strict(c.secondary)
  /\ c.order \in Seq(Int) /\ Len(c.order) > 4
  /\ ToSet(c.order) = 1 .. Len(c.order) /\ IsInjective(c.order)
  /\ \A x \in ToSet(c.primary) :
       x \in DOMAIN c.base /\ c.base[x] \in [1 .. Len(c.order) -> Nat]
  /\ c.k \in Nat \ {0}

(* What a frontier holds.                                                  *)
Entries == [distance : Int, id : Int]

(* The order of the packed copy is one.                                    *)
LEMMA PostingIs ==
  ASSUME NEW c, IsPosting(c)
  PROVE  /\ Len(c.order) \in Nat /\ IsOrder(c.order, Len(c.order))
         /\ ToSet(c.primary) \subseteq Int
         /\ \A x \in ToSet(c.primary) : c.base[x] \in [1 .. Len(c.order) -> Nat]
<1>1. c.order \in Seq(Int) /\ ToSet(c.order) = 1 .. Len(c.order)
      /\ IsInjective(c.order)
  BY DEF IsPosting
<1>2. Len(c.order) \in Nat /\ DOMAIN c.order = 1 .. Len(c.order)
      /\ c.order = [i \in 1 .. Len(c.order) |-> c.order[i]]
  BY <1>1
<1>3. \A i \in 1 .. Len(c.order) : c.order[i] \in 1 .. Len(c.order)
  BY <1>1, <1>2 DEF ToSet
<1>4. \A p \in 1 .. Len(c.order) : \E i \in 1 .. Len(c.order) : c.order[i] = p
  BY <1>1, <1>2 DEF ToSet
<1>5. \A i, j \in 1 .. Len(c.order) : c.order[i] = c.order[j] => i = j
  BY <1>1, <1>2 DEF IsInjective
<1>6. IsOrder(c.order, Len(c.order))
  BY <1>2, <1>3, <1>4, <1>5 DEF IsOrder
<1>7. ToSet(c.primary) \subseteq Int
  BY DEF IsPosting, ToSet
<1> QED
  BY <1>2, <1>6, <1>7 DEF IsPosting

(* A row costs the same packed or not, and no less than any part of it.    *)
LEMMA RowIs ==
  ASSUME NEW c, IsPosting(c), NEW x \in ToSet(c.primary), NEW packed \in BOOLEAN
  PROVE  LET v == Row(c, packed, x)
         IN /\ SquaredL2(v) = Entry(c, x).distance
            /\ Entry(c, x) \in Entries /\ Entry(c, x).id = x
            /\ \A n \in 0 .. Len(c.order) :
                 Partial(v, n) \in Int /\ Partial(v, n) <= Entry(c, x).distance
<1> DEFINE g == Len(c.order)
           b == c.base[x]
           v == Row(c, packed, x)
           w == [i \in 1 .. g |-> b[c.order[i]]]
<1>1. g \in Nat /\ IsOrder(c.order, g) /\ x \in Int /\ b \in [1 .. g -> Nat]
  BY PostingIs
<1> HIDE DEF g, b
<1>2. /\ \A i \in 1 .. g : c.order[i] \in 1 .. g
      /\ b \in [1 .. g -> Int]
  <2>1. \A i \in 1 .. g : c.order[i] \in 1 .. g
    BY <1>1 DEF IsOrder
  <2>2. b \in [1 .. g -> Int]
    BY <1>1
  <2> QED
    BY <2>1, <2>2
<1>3. w \in [1 .. g -> Nat]
  BY <1>1, <1>2
<1>4. Len(b) = g /\ Len(w) = g
  BY <1>1, <1>3
<1>5. Partial(w, g) = Partial(b, g)
  BY <1>1, <1>2, PermutedSum
<1>6. v = IF packed THEN w ELSE b
  BY <1>4 DEF Row, Permute, b, g
<1> HIDE DEF w, v
<1>7. v \in [1 .. g -> Nat] /\ Len(v) = g /\ Partial(v, g) = Partial(b, g)
  BY <1>1, <1>3, <1>4, <1>5, <1>6
<1>8. SquaredL2(v) = Partial(b, g) /\ SquaredL2(b) = Partial(b, g)
  BY <1>4, <1>7 DEF SquaredL2
<1>9. \A n \in 0 .. g : Partial(v, n) \in Int /\ Partial(v, n) <= Partial(v, g)
  BY <1>1, <1>7, PartialGrows
<1>10. Entry(c, x) = [distance |-> Partial(b, g), id |-> x]
  BY <1>8 DEF Entry, b
<1>11. Partial(b, g) \in Int
  BY <1>1, <1>7, <1>9
<1> QED
  BY <1>1, <1>7, <1>8, <1>9, <1>10, <1>11 DEF Entries, v, g

(* Entries are ordered by distance, ties by row.                           *)
LEMMA CloserOrder ==
  ASSUME NEW e \in Entries, NEW f \in Entries, NEW h \in Entries
  PROVE  /\ ~Closer(e, e)
         /\ ~ (Closer(e, f) /\ Closer(f, e))
         /\ Closer(e, f) /\ Closer(f, h) => Closer(e, h)
         /\ e.id # f.id => Closer(e, f) \/ Closer(f, e)
BY DEF Entries, Closer

(* The frontier holds the nearest of S, in order.                          *)
IsTop(c, f, S) ==
  /\ f \in Seq(Entries) /\ Len(f) <= c.k
  /\ \A m \in 1 .. Len(f) : f[m].id \in S /\ f[m] = Entry(c, f[m].id)
  /\ \A m, n \in 1 .. Len(f) : m < n => Closer(f[m], f[n])
  /\ \A x \in S : \/ \E m \in 1 .. Len(f) : f[m].id = x
                  \/ Len(f) = c.k /\ Closer(f[c.k], Entry(c, x))

(* The lesser of two.                                                      *)
LEMMA MinOfTwo ==
  ASSUME NEW a \in Int, NEW b \in Int
  PROVE  Min({a, b}) = IF a <= b THEN a ELSE b
<1> DEFINE P == {a, b}
           l == Min(P)
<1>1. P \subseteq Int /\ IsFiniteSet(P) /\ P # {}
  <2>1. IsFiniteSet({b}) /\ P = {b} \cup {a}
    BY FS_Singleton
  <2> QED
    BY <2>1, FS_AddElement
<1>2. (l \in P => l = a \/ l = b) /\ a \in P /\ b \in P
  OBVIOUS
<1> HIDE DEF P
<1>3. l \in P /\ \A x \in P : l <= x
  BY <1>1, MinIs
<1> HIDE DEF l
<1>4. l = IF a <= b THEN a ELSE b
  BY <1>2, <1>3
<1> QED
  BY <1>4 DEF l, P

(* The place where an entry is inserted: all before it are as close, and   *)
(* the rest is farther.                                                    *)
LEMMA InsertPlace ==
  ASSUME NEW f \in Seq(Entries), NEW k \in Nat \ {0}, NEW e \in Entries
  PROVE  \E n \in 1 .. Len(f) + 1, L \in Nat :
           /\ \A j \in n .. Len(f) : Closer(e, f[j])
           /\ n > 1 => ~Closer(e, f[n - 1])
           /\ L = (IF Len(f) + 1 <= k THEN Len(f) + 1 ELSE k)
           /\ InsertTopK(f, k, e) =
                [m \in 1 .. L |-> IF m < n THEN f[m]
                                  ELSE IF m = n THEN e ELSE f[m - 1]]
           /\ Len(InsertTopK(f, k, e)) = L /\ InsertTopK(f, k, e) \in Seq(Entries)
<1> DEFINE M == {m \in 1 .. Len(f) + 1 : \A j \in m .. Len(f) : Closer(e, f[j])}
           n == Min(M)
           L == Min({Len(f) + 1, k})
           t == [m \in 1 .. L |-> IF m < n THEN f[m]
                                  ELSE IF m = n THEN e ELSE f[m - 1]]
<1>1. Len(f) \in Nat /\ Len(f) + 1 \in Nat /\ \A j \in 1 .. Len(f) : f[j] \in Entries
  OBVIOUS
<1>2. Len(f) + 1 \in M
  <2>1. \A j \in Len(f) + 1 .. Len(f) : FALSE
    BY <1>1
  <2> QED
    BY <1>1, <2>1
<1>3. n \in M /\ \A m \in M : n <= m
  <2>1. M \subseteq 1 .. Len(f) + 1
    OBVIOUS
  <2>2. M \subseteq Int /\ IsFiniteSet(M)
    <3> HIDE DEF M
    <3> QED
      BY <1>1, <2>1, FewOf
  <2> HIDE DEF M
  <2> QED
    BY <1>2, <2>2, MinIs
<1>4. L \in Nat /\ L = (IF Len(f) + 1 <= k THEN Len(f) + 1 ELSE k)
  <2>1. L = IF Len(f) + 1 <= k THEN Len(f) + 1 ELSE k
    BY <1>1, MinOfTwo
  <2> HIDE DEF L
  <2> QED
    BY <1>1, <2>1
<1>5. n \in 1 .. Len(f) + 1 /\ \A j \in n .. Len(f) : Closer(e, f[j])
  <2> HIDE DEF n
  <2> QED
    BY <1>3
<1>6. n > 1 => ~Closer(e, f[n - 1])
  <2> HIDE DEF n
  <2> SUFFICES ASSUME n > 1, Closer(e, f[n - 1]) PROVE FALSE
    OBVIOUS
  <2>1. n - 1 \in 1 .. Len(f) + 1 /\ n \in Int /\ ~ (n <= n - 1)
    BY <1>5
  <2>2. \A j \in n - 1 .. Len(f) : j = n - 1 \/ j \in n .. Len(f)
    BY <1>1, <1>5
  <2>3. \A j \in n - 1 .. Len(f) : Closer(e, f[j])
    BY <1>5, <2>2
  <2>4. n - 1 \in M
    BY <2>1, <2>3
  <2> QED
    BY <1>3, <2>1, <2>4
<1>7. InsertTopK(f, k, e) = t
  BY DEF InsertTopK
<1> HIDE DEF n, L
<1>8. t \in [1 .. L -> Entries]
  <2> SUFFICES ASSUME NEW m \in 1 .. L PROVE t[m] \in Entries
    OBVIOUS
  <2>1. m \in Int /\ 1 <= m /\ m <= Len(f) + 1 /\ n \in Int /\ 1 <= n /\ n <= Len(f) + 1
    BY <1>1, <1>4, <1>5
  <2>2. CASE m < n
    BY <1>1, <2>1, <2>2
  <2>3. CASE m = n
    BY <2>3
  <2>4. CASE m > n
    <3>1. m - 1 \in 1 .. Len(f)
      BY <1>1, <2>1, <2>4
    <3>2. t[m] = f[m - 1]
      BY <2>1, <2>4
    <3> QED
      BY <1>1, <3>1, <3>2
  <2> QED
    BY <2>1, <2>2, <2>3, <2>4
<1>9. Len(t) = L /\ t \in Seq(Entries)
  <2> HIDE DEF t
  <2> QED
    BY <1>4, <1>8
<1> QED
  BY <1>4, <1>5, <1>6, <1>7, <1>9

(* A frontier gets no farther at its end, and no shorter.                  *)
Advances(c, f, t) ==
  Len(f) = c.k => Len(t) = c.k /\ (t[c.k] = f[c.k] \/ Closer(t[c.k], f[c.k]))

(* Inserting a row keeps the nearest, now with the row.                    *)
LEMMA InsertKeeps ==
  ASSUME NEW c, IsPosting(c), NEW S \in SUBSET ToSet(c.primary),
         NEW x \in ToSet(c.primary), x \notin S, NEW f, IsTop(c, f, S)
  PROVE  LET t == InsertTopK(f, c.k, Entry(c, x))
         IN /\ IsTop(c, t, S \cup {x}) /\ Advances(c, f, t)
            /\ Len(f) < c.k => Len(t) = Len(f) + 1
<1> DEFINE k == c.k
           e == Entry(c, x)
           t == InsertTopK(f, k, e)
<1>1. /\ k \in Nat \ {0} /\ f \in Seq(Entries) /\ e \in Entries /\ e.id = x
      /\ Len(f) \in Nat /\ Len(f) <= k
      /\ \A j \in 1 .. Len(f) : f[j] \in Entries /\ f[j].id # e.id
  <2>1. e \in Entries /\ e.id = x
    BY RowIs
  <2> HIDE DEF e
  <2> QED
    BY <2>1 DEF IsPosting, IsTop
<1>2. \A y \in S : Entry(c, y) \in Entries /\ Entry(c, y).id = y
  <2>1. \A y \in ToSet(c.primary) : Entry(c, y) \in Entries /\ Entry(c, y).id = y
    BY RowIs
  <2> QED
    BY <2>1
<1>3. /\ \A m, n \in 1 .. Len(f) : m < n => Closer(f[m], f[n])
      /\ \A m \in 1 .. Len(f) : f[m].id \in S /\ f[m] = Entry(c, f[m].id)
      /\ \A y \in S : \/ \E m \in 1 .. Len(f) : f[m].id = y
                      \/ Len(f) = k /\ Closer(f[k], Entry(c, y))
  BY DEF IsTop
<1>4. e = Entry(c, e.id)
  BY <1>1
<1> HIDE DEF k, e
<1>5. PICK n \in 1 .. Len(f) + 1, L \in Nat :
        /\ \A j \in n .. Len(f) : Closer(e, f[j])
        /\ n > 1 => ~Closer(e, f[n - 1])
        /\ L = (IF Len(f) + 1 <= k THEN Len(f) + 1 ELSE k)
        /\ t = [m \in 1 .. L |-> IF m < n THEN f[m]
                                  ELSE IF m = n THEN e ELSE f[m - 1]]
        /\ Len(t) = L /\ t \in Seq(Entries)
  BY <1>1, InsertPlace
<1> HIDE DEF t
<1>6. n \in Int /\ 1 <= n /\ n <= Len(f) + 1 /\ L <= k /\ L <= Len(f) + 1
      /\ Len(f) <= L
  BY <1>1, <1>5
<1>7. \A a, b, d \in Entries : /\ ~Closer(a, a)
                               /\ ~ (Closer(a, b) /\ Closer(b, a))
                               /\ Closer(a, b) /\ Closer(b, d) => Closer(a, d)
                               /\ a.id # b.id => Closer(a, b) \/ Closer(b, a)
  BY CloserOrder
<1>8. ASSUME NEW j \in 1 .. n - 1 PROVE Closer(f[j], e) /\ j \in 1 .. Len(f)
  <2>1. n - 1 \in 1 .. Len(f) /\ j \in 1 .. Len(f) /\ n > 1
        /\ (j = n - 1 \/ j < n - 1)
    BY <1>1, <1>6
  <2>2. Closer(f[n - 1], e)
    BY <1>1, <1>5, <1>7, <2>1
  <2>3. j = n - 1 \/ Closer(f[j], f[n - 1])
    BY <1>3, <2>1
  <2> QED
    BY <1>1, <1>7, <2>1, <2>2, <2>3
<1>9. \A j \in n .. Len(f) : Closer(e, f[j]) /\ j \in 1 .. Len(f)
  BY <1>5, <1>6
<1>10. ASSUME NEW m \in 1 .. L
       PROVE  /\ m < n => t[m] = f[m] /\ m \in 1 .. n - 1
              /\ m = n => t[m] = e
              /\ m > n => t[m] = f[m - 1] /\ m - 1 \in n .. Len(f)
  <2>1. t[m] = IF m < n THEN f[m] ELSE IF m = n THEN e ELSE f[m - 1]
    BY <1>5
  <2> QED
    BY <1>1, <1>6, <2>1
<1>11. ASSUME NEW m \in 1 .. L PROVE t[m].id \in S \cup {x} /\ t[m] = Entry(c, t[m].id)
  <2>1. m < n \/ m = n \/ m > n
    BY <1>6
  <2>2. t[m] = e \/ \E j \in 1 .. Len(f) : t[m] = f[j]
    BY <1>8, <1>9, <1>10, <2>1
  <2> QED
    BY <1>1, <1>3, <1>4, <2>2
<1>12. ASSUME NEW a \in 1 .. L, NEW b \in 1 .. L, a < b PROVE Closer(t[a], t[b])
  <2>1. CASE b < n
    <3>1. a < n
      BY <1>6, <1>12, <2>1
    <3>2. t[a] = f[a] /\ t[b] = f[b] /\ a \in 1 .. Len(f) /\ b \in 1 .. Len(f)
      BY <1>8, <1>10, <2>1, <3>1
    <3> QED
      BY <1>3, <1>12, <3>2
  <2>2. CASE b = n
    <3>1. a < n
      BY <1>12, <2>2
    <3>2. t[a] = f[a] /\ t[b] = e /\ Closer(f[a], e)
      BY <1>8, <1>10, <2>2, <3>1
    <3> QED
      BY <3>2
  <2>3. CASE b > n
    <3>1. t[b] = f[b - 1] /\ b - 1 \in n .. Len(f) /\ b - 1 \in 1 .. Len(f)
          /\ Closer(e, f[b - 1])
      BY <1>9, <1>10, <2>3
    <3>2. CASE a < n
      <4>1. t[a] = f[a] /\ a \in 1 .. Len(f)
        BY <1>8, <1>10, <3>2
      <4>2. a < b - 1
        BY <1>6, <2>3, <3>2
      <4> QED
        BY <1>3, <3>1, <4>1, <4>2
    <3>3. CASE a = n
      BY <1>10, <3>1, <3>3
    <3>4. CASE a > n
      <4>1. t[a] = f[a - 1] /\ a - 1 \in 1 .. Len(f)
        BY <1>9, <1>10, <3>4
      <4>2. a - 1 < b - 1
        BY <1>12
      <4> QED
        BY <1>3, <3>1, <4>1, <4>2
    <3> QED
      BY <1>6, <3>2, <3>3, <3>4
  <2> QED
    BY <1>6, <2>1, <2>2, <2>3
<1>13. ASSUME Len(f) = k
       PROVE  L = k /\ k \in 1 .. L /\ k \in 1 .. Len(f)
              /\ (t[k] = f[k] \/ Closer(t[k], f[k]))
  <2>1. L = k /\ k \in 1 .. L /\ k \in 1 .. Len(f) /\ k - 1 < k
    BY <1>1, <1>5, <1>13
  <2>2. CASE k < n
    BY <1>10, <2>1, <2>2
  <2>3. CASE k = n
    <3>1. k \in n .. Len(f)
      BY <1>13, <2>1, <2>3
    <3> QED
      BY <1>9, <1>10, <2>1, <2>3, <3>1
  <2>4. CASE k > n
    <3>1. t[k] = f[k - 1] /\ k - 1 \in 1 .. Len(f)
      BY <1>9, <1>10, <2>1, <2>4
    <3> QED
      BY <1>3, <2>1, <3>1
  <2> QED
    BY <1>1, <1>6, <2>1, <2>2, <2>3, <2>4
<1>14. ASSUME NEW y \in S \cup {x}
       PROVE  \/ \E m \in 1 .. L : t[m].id = y
              \/ L = k /\ Closer(t[k], Entry(c, y))
  <2>1. CASE y = x
    <3>1. CASE n <= L
      <4>1. n \in 1 .. L
        BY <1>6, <3>1
      <4> QED
        BY <1>1, <1>10, <2>1, <4>1
    <3>2. CASE ~ (n <= L)
      <4>1. L = k /\ k < n /\ k \in 1 .. L
        BY <1>1, <1>5, <1>6, <3>2
      <4>2. t[k] = f[k] /\ Closer(f[k], e)
        BY <1>8, <1>10, <4>1
      <4> QED
        BY <1>1, <1>4, <2>1, <4>1, <4>2
    <3> QED
      BY <3>1, <3>2
  <2>2. CASE y \in S
    <3>1. CASE \E m \in 1 .. Len(f) : f[m].id = y
      <4>1. PICK m \in 1 .. Len(f) : f[m].id = y
        BY <3>1
      <4>2. CASE m < n
        <5>1. m \in 1 .. L
          BY <1>6
        <5> QED
          BY <1>10, <4>1, <4>2, <5>1
      <4>3. CASE ~ (m < n) /\ m + 1 <= L
        <5> DEFINE h == m + 1
        <5>1. h \in 1 .. L /\ h > n /\ h - 1 = m
          BY <1>6, <4>3
        <5> HIDE DEF h
        <5> QED
          BY <1>10, <4>1, <5>1
      <4>4. CASE ~ (m < n) /\ ~ (m + 1 <= L)
        <5>1. m = k /\ Len(f) = k /\ L = k /\ n <= k
          BY <1>1, <1>5, <1>6, <4>4
        <5>2. t[k] = f[k] => FALSE
          <6>1. k \in 1 .. L /\ k \in 1 .. Len(f) /\ k - 1 < k
            BY <1>1, <5>1
          <6>2. CASE k = n
            <7>1. t[k] = e
              BY <1>10, <6>1, <6>2
            <7> QED
              BY <1>1, <6>1, <7>1
          <6>3. CASE k > n
            <7>1. t[k] = f[k - 1] /\ k - 1 \in 1 .. Len(f)
              BY <1>9, <1>10, <6>1, <6>3
            <7>2. Closer(f[k - 1], f[k])
              BY <1>3, <6>1, <7>1
            <7> QED
              BY <1>1, <1>7, <6>1, <7>1, <7>2
          <6> QED
            BY <1>1, <1>6, <5>1, <6>2, <6>3
        <5>3. Closer(t[k], f[k]) /\ f[k] = Entry(c, y)
          BY <1>3, <1>13, <4>1, <5>1, <5>2
        <5> QED
          BY <5>1, <5>3
      <4> QED
        BY <4>2, <4>3, <4>4
    <3>2. CASE Len(f) = k /\ Closer(f[k], Entry(c, y))
      <4>1. L = k /\ k \in 1 .. L /\ k \in 1 .. Len(f)
            /\ (t[k] = f[k] \/ Closer(t[k], f[k]))
        BY <1>13, <3>2
      <4>2. t[k] \in Entries /\ f[k] \in Entries /\ Entry(c, y) \in Entries
        BY <1>1, <1>2, <1>5, <2>2, <4>1
      <4> QED
        BY <1>7, <3>2, <4>1, <4>2
    <3> QED
      BY <1>3, <2>2, <3>1, <3>2
  <2> QED
    BY <2>1, <2>2
<1>15. IsTop(c, t, S \cup {x})
  BY <1>5, <1>6, <1>11, <1>12, <1>14 DEF IsTop, k
<1>16. Advances(c, f, t)
  BY <1>5, <1>13 DEF Advances, k
<1>17. Len(f) < k => Len(t) = Len(f) + 1
  BY <1>1, <1>5
<1> QED
  BY <1>15, <1>16, <1>17 DEF t, e, k

(* Rows beyond a full frontier may be left out.                            *)
LEMMA DropKeeps ==
  ASSUME NEW c, NEW S, NEW T, S \subseteq T, NEW f, IsTop(c, f, S), Len(f) = c.k,
         \A x \in T \ S : Closer(f[c.k], Entry(c, x))
  PROVE  IsTop(c, f, T)
<1>1. \A m \in 1 .. Len(f) : f[m].id \in T /\ f[m] = Entry(c, f[m].id)
  BY DEF IsTop
<1>2. \A x \in T : \/ \E m \in 1 .. Len(f) : f[m].id = x
                   \/ Len(f) = c.k /\ Closer(f[c.k], Entry(c, x))
  <2> TAKE x \in T
  <2>1. CASE x \in S
    BY <2>1 DEF IsTop
  <2>2. CASE x \notin S
    BY <2>2
  <2> QED
    BY <2>1, <2>2
<1> QED
  BY <1>1, <1>2 DEF IsTop

(* A row that loses by a part of its sum loses by the whole.               *)
LEMMA LosesByPart ==
  ASSUME NEW c, IsPosting(c), NEW S \in SUBSET ToSet(c.primary),
         NEW x \in ToSet(c.primary), x \notin S, NEW f, IsTop(c, f, S),
         Len(f) = c.k, NEW packed \in BOOLEAN, NEW n \in 0 .. Len(c.order),
         ~Closer([distance |-> Partial(Row(c, packed, x), n), id |-> x], f[c.k])
  PROVE  Closer(f[c.k], Entry(c, x))
<1> DEFINE p == Partial(Row(c, packed, x), n)
           e == Entry(c, x)
           h == f[c.k]
<1>1. p \in Int /\ p <= e.distance /\ e \in Entries /\ e.id = x /\ x \in Int
  <2>1. p \in Int /\ p <= e.distance /\ e \in Entries /\ e.id = x
    BY RowIs
  <2> HIDE DEF p, e
  <2> QED
    BY <2>1, PostingIs
<1>2. h \in Entries /\ h.id # x
  <2>1. c.k \in 1 .. Len(f)
    BY DEF IsPosting
  <2> QED
    BY <2>1 DEF IsTop
<1> HIDE DEF p, e, h
<1>3. ~Closer([distance |-> p, id |-> x], h)
  BY DEF p, h
<1>4. h.distance \in Int /\ h.id \in Int /\ e.distance \in Int
  BY <1>1, <1>2 DEF Entries
<1>5. h.distance < p \/ (h.distance = p /\ h.id < x)
  BY <1>1, <1>2, <1>3, <1>4 DEF Closer
<1>6. Closer(h, e)
  BY <1>1, <1>4, <1>5 DEF Closer
<1> QED
  BY <1>6 DEF h, e

(* Scoring a row through its bound keeps the nearest.                      *)
LEMMA SweepKeeps ==
  ASSUME NEW c, IsPosting(c), NEW S \in SUBSET ToSet(c.primary),
         NEW x \in ToSet(c.primary), x \notin S, NEW f, IsTop(c, f, S),
         NEW packed \in BOOLEAN, NEW points \in SUBSET (0 .. Len(c.order))
  PROVE  LET t == SweepOne(c, packed, points, f, x)
         IN /\ IsTop(c, t, S \cup {x}) /\ Advances(c, f, t)
            /\ Len(f) < c.k => Len(t) = Len(f) + 1
<1> DEFINE v == Row(c, packed, x)
           lost == {n \in points :
                      ~Closer([distance |-> Partial(v, n), id |-> x], f[c.k])}
           e == Entry(c, x)
           t == SweepOne(c, packed, points, f, x)
<1>1. e = [distance |-> SquaredL2(v), id |-> x]
  BY RowIs DEF Entry
<1>2. CASE Len(f) = c.k /\ lost # {}
  <2>1. t = f
    BY <1>2 DEF SweepOne, Bounded
  <2>2. Closer(f[c.k], e)
    BY <1>2, LosesByPart
  <2> HIDE DEF t, e, v, lost
  <2>3. IsTop(c, f, S \cup {x})
    BY <1>2, <2>2, DropKeeps DEF e
  <2>4. Len(f) \in Nat /\ ~ (Len(f) < c.k)
    BY <1>2 DEF IsPosting
  <2> QED
    BY <1>2, <2>1, <2>3, <2>4 DEF Advances, t
<1>3. CASE ~ (Len(f) = c.k /\ lost # {})
  <2>1. t = InsertTopK(f, c.k, [distance |-> SquaredL2(v), id |-> x])
    BY <1>3 DEF SweepOne, Bounded
  <2>2. t = InsertTopK(f, c.k, e)
    BY <1>1, <2>1
  <2> DEFINE u == InsertTopK(f, c.k, e)
  <2>3. /\ IsTop(c, u, S \cup {x}) /\ Advances(c, f, u)
        /\ Len(f) < c.k => Len(u) = Len(f) + 1
    BY InsertKeeps
  <2>4. t = u
    BY <2>2
  <2> HIDE DEF t, u
  <2>5. /\ IsTop(c, t, S \cup {x}) /\ Advances(c, f, t)
        /\ Len(f) < c.k => Len(t) = Len(f) + 1
    BY <2>3, <2>4
  <2> QED
    BY <2>5 DEF t
<1> QED
  BY <1>2, <1>3

(* A function that goes by steps of G from b never leaves T.               *)
LEMMA RunStays ==
  ASSUME NEW n \in Nat, NEW T, NEW b \in T, NEW G, IsStep(G, n, T), NEW f,
         f[0] = b, \A k \in 0 .. n - 1 : f[k] \in T => f[k + 1] = G[<<k, f[k]>>]
  PROVE  IsRun(f, n, b, G) /\ \A k \in 0 .. n : f[k] \in T
<1> DEFINE S == {k \in 0 .. n : f[k] \in T}
<1>1. 0 \in S
  OBVIOUS
<1>2. ASSUME NEW k \in 0 .. n - 1, k \in S PROVE k + 1 \in S
  <2>1. f[k] \in T /\ <<k, f[k]>> \in (0 .. n - 1) \X T /\ k + 1 \in 0 .. n
    BY <1>2
  <2>2. G[<<k, f[k]>>] \in T
    BY <2>1 DEF IsStep
  <2> QED
    BY <2>1, <2>2
<1>3. \A k \in 0 .. n : k \in S
  <2> HIDE DEF S
  <2> QED
    BY <1>1, <1>2, CountUp
<1>4. \A k \in 0 .. n - 1 : k \in 0 .. n
  OBVIOUS
<1> QED
  BY <1>3, <1>4 DEF IsRun

(* Inserting into a frontier gives one.                                    *)
LEMMA SweepTyped ==
  ASSUME NEW c, IsPosting(c), NEW x \in ToSet(c.primary), NEW f \in Seq(Entries),
         NEW packed \in BOOLEAN, NEW points
  PROVE  SweepOne(c, packed, points, f, x) \in Seq(Entries)
<1> DEFINE v == Row(c, packed, x)
           e == [distance |-> SquaredL2(v), id |-> x]
<1>1. e = Entry(c, x) /\ Entry(c, x) \in Entries
  BY RowIs DEF Entry
<1>2. SweepOne(c, packed, points, f, x) \in {f, InsertTopK(f, c.k, e)}
  BY DEF SweepOne, Bounded
<1> HIDE DEF e
<1>3. c.k \in Nat \ {0} /\ e \in Entries
  BY <1>1 DEF IsPosting
<1>4. InsertTopK(f, c.k, e) \in Seq(Entries)
  BY <1>3, InsertPlace
<1> QED
  BY <1>2, <1>4

(* The frontiers of a sweep, row after row.                                *)
LEMMA SweepIs ==
  ASSUME NEW c, IsPosting(c), NEW ids \in Seq(ToSet(c.primary)),
         NEW start \in Seq(Entries), NEW packed \in BOOLEAN, NEW points
  PROVE  \E f : /\ \A k \in 0 .. Len(ids) : f[k] \in Seq(Entries)
                /\ f[0] = start /\ Sweep(c, packed, points, start, ids) = f[Len(ids)]
                /\ \A k \in 0 .. Len(ids) - 1 :
                     f[k + 1] = SweepOne(c, packed, points, f[k], ids[k + 1])
<1> DEFINE n == Len(ids)
           T == Seq(Entries)
           Turn(s, k) == SweepOne(c, packed, points, s, ids[k])
           G == [p \in (0 .. n - 1) \X T |-> Turn(p[2], p[1] + 1)]
           Eq(f) == f = [k \in 0 .. n |-> IF k = 0 THEN start ELSE Turn(f[k - 1], k)]
           f == CHOOSE h : Eq(h)
<1>1. n \in Nat /\ start \in T
  OBVIOUS
<1>2. IsStep(G, n, T) /\ \A k \in 0 .. n - 1, s \in T : G[<<k, s>>] = Turn(s, k + 1)
  <2>1. \A k \in 0 .. n - 1, s \in T : Turn(s, k + 1) \in T
    <3> TAKE k \in 0 .. n - 1, s \in T
    <3>1. ids[k + 1] \in ToSet(c.primary)
      OBVIOUS
    <3> QED
      BY <3>1, SweepTyped
  <2> HIDE DEF Turn, T
  <2>2. \A p \in (0 .. n - 1) \X T : Turn(p[2], p[1] + 1) \in T
    BY <2>1
  <2> QED
    BY <2>2 DEF IsStep
<1>3. Sweep(c, packed, points, start, ids) = f[n]
  BY DEF Sweep
<1> HIDE DEF G, T, Turn, n
<1>4. PICK r \in [0 .. n -> T] : IsRun(r, n, start, G)
  BY <1>1, <1>2, RunExists
<1>5. \A k \in 0 .. n - 1 : r[k] \in T /\ r[k + 1] = Turn(r[k], k + 1)
  <2>1. \A k \in 0 .. n - 1 : r[k] \in T
    BY <1>1
  <2> QED
    BY <1>2, <1>4, <2>1 DEF IsRun
<1>6. \E h : Eq(h)
  <2>1. \A k \in 0 .. n : k # 0 => k - 1 \in 0 .. n - 1 /\ k - 1 + 1 = k
    BY <1>1
  <2>2. \A k \in 0 .. n : r[k] = IF k = 0 THEN start ELSE Turn(r[k - 1], k)
    BY <1>4, <1>5, <2>1 DEF IsRun
  <2>3. r = [k \in 0 .. n |-> r[k]]
    OBVIOUS
  <2> QED
    BY <2>2, <2>3
<1>7. f = [k \in 0 .. n |-> IF k = 0 THEN start ELSE Turn(f[k - 1], k)]
  <2>1. Eq(f)
    <3> HIDE DEF Eq
    <3> QED
      BY <1>6
  <2> QED
    BY <2>1
<1> HIDE DEF f, Eq
<1>8. f[0] = start /\ \A k \in 0 .. n - 1 : f[k + 1] = Turn(f[k], k + 1)
  <2>1. f[0] = start
    BY <1>1, <1>7
  <2>2. ASSUME NEW k \in 0 .. n - 1 PROVE f[k + 1] = Turn(f[k], k + 1)
    <3> DEFINE h == k + 1
    <3>1. h \in 0 .. n /\ h # 0 /\ h - 1 = k
      BY <1>1
    <3> HIDE DEF h
    <3>2. f[h] = Turn(f[k], h)
      BY <1>7, <3>1
    <3> QED
      BY <3>2 DEF h
  <2> QED
    BY <2>1, <2>2
<1>9. \A k \in 0 .. n : f[k] \in T
  <2>1. \A k \in 0 .. n - 1 : f[k] \in T => f[k + 1] = G[<<k, f[k]>>]
    BY <1>2, <1>8
  <2> QED
    BY <1>1, <1>2, <1>8, <2>1, RunStays
<1> QED
  BY <1>3, <1>8, <1>9 DEF n, T, Turn

(* The rows of some places of a sequence.                                  *)
Span(s, m, n) == {s[i] : i \in m .. n}

(* No row comes twice.                                                     *)
Distinct(s) == \A i, j \in 1 .. Len(s) : s[i] = s[j] => i = j

(* After a sweep the frontier holds the nearest of what it held and of the *)
(* rows swept.                                                             *)
LEMMA SweepTops ==
  ASSUME NEW c, IsPosting(c), NEW A \in SUBSET ToSet(c.primary),
         NEW ids \in Seq(ToSet(c.primary)), Distinct(ids),
         \A i \in 1 .. Len(ids) : ids[i] \notin A,
         NEW start, IsTop(c, start, A), NEW packed \in BOOLEAN,
         NEW points \in SUBSET (0 .. Len(c.order))
  PROVE  LET t == Sweep(c, packed, points, start, ids)
         IN /\ IsTop(c, t, A \cup ToSet(ids)) /\ Advances(c, start, t)
            /\ Len(start) + Len(ids) <= c.k => Len(t) = Len(start) + Len(ids)
<1> DEFINE n == Len(ids)
           U(k) == A \cup Span(ids, 1, k)
<1>1. /\ n \in Nat /\ start \in Seq(Entries) /\ Len(start) \in Nat
      /\ c.k \in Nat \ {0}
      /\ \A i \in 1 .. n : ids[i] \in ToSet(c.primary)
  BY DEF IsTop, IsPosting
<1>2. PICK f : /\ \A k \in 0 .. n : f[k] \in Seq(Entries)
               /\ f[0] = start /\ Sweep(c, packed, points, start, ids) = f[n]
               /\ \A k \in 0 .. n - 1 :
                    f[k + 1] = SweepOne(c, packed, points, f[k], ids[k + 1])
  BY <1>1, SweepIs
<1> DEFINE P(k) == /\ IsTop(c, f[k], U(k)) /\ Advances(c, start, f[k])
                   /\ Len(start) + k <= c.k => Len(f[k]) = Len(start) + k
           S == {k \in 0 .. n : P(k)}
<1>3. 0 \in S
  <2>1. U(0) = A
    BY DEF Span
  <2>2. Advances(c, start, start)
    BY DEF Advances
  <2> HIDE DEF U
  <2> QED
    BY <1>1, <1>2, <2>1, <2>2
<1>4. ASSUME NEW k \in 0 .. n - 1, k \in S PROVE k + 1 \in S
  <2> DEFINE x == ids[k + 1]
             g == f[k]
             h == f[k + 1]
  <2>1. k + 1 \in 1 .. n /\ k + 1 \in 0 .. n /\ k \in 0 .. n /\ x \in ToSet(c.primary)
    BY <1>1
  <2>2. x \notin U(k) /\ U(k) \in SUBSET ToSet(c.primary)
    <3>1. \A i \in 1 .. k : i \in 1 .. n /\ i # k + 1
      BY <1>1
    <3> QED
      BY <1>1, <2>1, <3>1 DEF Span, Distinct
  <2>3. U(k + 1) = U(k) \cup {x}
    <3>1. 1 .. k + 1 = (1 .. k) \cup {k + 1}
      OBVIOUS
    <3> QED
      BY <3>1 DEF Span
  <2>4. IsTop(c, g, U(k)) /\ Advances(c, start, g)
        /\ (Len(start) + k <= c.k => Len(g) = Len(start) + k)
    BY <1>4
  <2>5. h = SweepOne(c, packed, points, g, x) /\ g \in Seq(Entries) /\ h \in Seq(Entries)
    BY <1>2, <2>1
  <2> HIDE DEF U, g, h, x
  <2>6. /\ IsTop(c, h, U(k) \cup {x}) /\ Advances(c, g, h)
        /\ Len(g) < c.k => Len(h) = Len(g) + 1
    <3> DEFINE B == U(k)
    <3>1. x \in ToSet(c.primary) /\ x \notin B /\ B \in SUBSET ToSet(c.primary)
          /\ IsTop(c, g, B)
      BY <2>1, <2>2, <2>4
    <3> HIDE DEF B
    <3> DEFINE u == SweepOne(c, packed, points, g, x)
    <3>2. /\ IsTop(c, u, B \cup {x}) /\ Advances(c, g, u)
          /\ Len(g) < c.k => Len(u) = Len(g) + 1
      BY <3>1, SweepKeeps
    <3> HIDE DEF u
    <3>3. h = u
      BY <2>5 DEF u
    <3> QED
      BY <3>2, <3>3 DEF B
  <2>7. Advances(c, start, h)
    <3> SUFFICES ASSUME Len(start) = c.k
                 PROVE  Len(h) = c.k /\ (h[c.k] = start[c.k] \/ Closer(h[c.k], start[c.k]))
      BY DEF Advances
    <3>1. /\ Len(g) = c.k /\ (g[c.k] = start[c.k] \/ Closer(g[c.k], start[c.k]))
          /\ Len(h) = c.k /\ (h[c.k] = g[c.k] \/ Closer(h[c.k], g[c.k]))
      BY <2>4, <2>6 DEF Advances
    <3>2. h[c.k] \in Entries /\ g[c.k] \in Entries /\ start[c.k] \in Entries
      BY <1>1, <2>5, <3>1
    <3> QED
      BY <3>1, <3>2, CloserOrder
  <2>8. Len(start) + (k + 1) <= c.k => Len(h) = Len(start) + (k + 1)
    BY <1>1, <2>4, <2>6
  <2> QED
    BY <2>1, <2>3, <2>6, <2>7, <2>8 DEF h
<1>5. P(n)
  <2> HIDE DEF P
  <2>1. \A k \in 0 .. n : k \in S
    <3> HIDE DEF S
    <3> QED
      BY <1>1, <1>3, <1>4, CountUp
  <2> QED
    BY <1>1, <2>1
<1>6. U(n) = A \cup ToSet(ids)
  BY DEF Span, ToSet
<1> QED
  BY <1>2, <1>5, <1>6

(* The k nearest of S, by how many of S are nearer.                        *)
NearestRows(c, S) ==
  [r \in 1 .. c.k |->
     IF r <= Cardinality(S)
     THEN CHOOSE x \in S :
            Cardinality({y \in S : Closer(Entry(c, y), Entry(c, x))}) = r - 1
     ELSE -1]

(* A frontier of the nearest answers with the nearest.                     *)
LEMMA AnswerIsNearest ==
  ASSUME NEW c, IsPosting(c), NEW S \in SUBSET ToSet(c.primary), IsFiniteSet(S),
         NEW f, IsTop(c, f, S)
  PROVE  Answer(c, f) = NearestRows(c, S)
<1> DEFINE k == c.k
           L == Len(f)
           Beats(x) == {y \in S : Closer(Entry(c, y), Entry(c, x))}
           h == [m \in 1 .. L |-> f[m].id]
           Ids(n) == {h[m] : m \in 1 .. n}
<1>1. /\ k \in Nat \ {0} /\ L \in Nat /\ L <= k
      /\ \A m \in 1 .. L : f[m] \in Entries
      /\ \A m \in 1 .. L : h[m] \in S /\ f[m] = Entry(c, h[m]) /\ f[m].id = h[m]
      /\ \A m, n \in 1 .. L : m < n => Closer(f[m], f[n])
      /\ \A x \in S : \/ \E m \in 1 .. L : h[m] = x
                      \/ L = k /\ Closer(f[k], Entry(c, x))
  <2>1. k \in Nat \ {0} /\ f \in Seq(Entries) /\ L \in Nat /\ L <= k
    BY DEF IsTop, IsPosting
  <2>2. \A m \in 1 .. L : f[m] \in Entries
    BY <2>1
  <2>3. /\ \A m \in 1 .. L : f[m].id \in S /\ f[m] = Entry(c, f[m].id)
        /\ \A m, n \in 1 .. L : m < n => Closer(f[m], f[n])
        /\ \A x \in S : \/ \E m \in 1 .. L : f[m].id = x
                        \/ L = k /\ Closer(f[k], Entry(c, x))
    BY DEF IsTop
  <2>4. \A m \in 1 .. L : h[m] = f[m].id
    OBVIOUS
  <2> HIDE DEF h, L, k
  <2>5. \A m \in 1 .. L : h[m] \in S /\ f[m] = Entry(c, h[m]) /\ f[m].id = h[m]
    BY <2>3, <2>4
  <2>6. \A x \in S : \/ \E m \in 1 .. L : h[m] = x
                     \/ L = k /\ Closer(f[k], Entry(c, x))
    <3> TAKE x \in S
    <3>1. CASE \E m \in 1 .. L : f[m].id = x
      <4>1. PICK m \in 1 .. L : f[m].id = x
        BY <3>1
      <4>2. h[m] = x
        BY <2>4, <4>1
      <4> QED
        BY <4>2
    <3>2. CASE L = k /\ Closer(f[k], Entry(c, x))
      BY <3>2
    <3> QED
      BY <2>3, <3>1, <3>2
  <2> QED
    BY <2>1, <2>2, <2>3, <2>5, <2>6
<1>2. \A x \in S : Entry(c, x) \in Entries
  <2>1. \A x \in ToSet(c.primary) : Entry(c, x) \in Entries
    BY RowIs
  <2> QED
    BY <2>1
<1>3. \A a, b, d \in Entries : /\ ~Closer(a, a)
                               /\ ~ (Closer(a, b) /\ Closer(b, a))
                               /\ Closer(a, b) /\ Closer(b, d) => Closer(a, d)
  BY CloserOrder
<1> HIDE DEF h, L, k
<1>4. ASSUME NEW m \in 1 .. L, NEW n \in 1 .. L, h[m] = h[n] PROVE m = n
  <2>1. f[m] = f[n] /\ f[m] \in Entries
    BY <1>1, <1>4
  <2>2. ~ (m < n) /\ ~ (n < m)
    BY <1>1, <1>3, <2>1
  <2> QED
    BY <1>1, <2>2
<1>5. ASSUME NEW n \in 0 .. L PROVE IsFiniteSet(Ids(n)) /\ Cardinality(Ids(n)) = n
  <2> DEFINE N == 1 .. n
  <2>1. IsFiniteSet(N) /\ Cardinality(N) = n
    BY <1>1, FS_Interval
  <2>2. \A a, b \in N : h[a] = h[b] => a = b
    BY <1>1, <1>4
  <2> HIDE DEF N
  <2> DEFINE I == {h[m] : m \in N}
  <2>3. IsFiniteSet(I) /\ Cardinality(I) = Cardinality(N)
    BY <2>1, <2>2, ImageCard
  <2>4. Ids(n) = I
    BY DEF N
  <2> HIDE DEF I
  <2> QED
    BY <2>1, <2>3, <2>4
<1>6. ASSUME NEW m \in 1 .. L PROVE Beats(h[m]) = Ids(m - 1)
  <2>1. ASSUME NEW y \in Beats(h[m]) PROVE y \in Ids(m - 1)
    <3>1. y \in S /\ Closer(Entry(c, y), f[m]) /\ f[m] \in Entries
      BY <1>1, <2>1
    <3>2. ~ (L = k /\ Closer(f[k], Entry(c, y)))
      <4> SUFFICES ASSUME L = k, Closer(f[k], Entry(c, y)) PROVE FALSE
        OBVIOUS
      <4>1. k \in 1 .. L /\ (m = k \/ m < k)
        BY <1>1
      <4>2. f[k] \in Entries /\ Entry(c, y) \in Entries
        BY <1>1, <1>2, <3>1, <4>1
      <4>3. m = k \/ Closer(f[m], f[k])
        BY <1>1, <4>1
      <4> QED
        BY <1>3, <3>1, <4>2, <4>3
    <3>3. PICK n \in 1 .. L : h[n] = y
      BY <1>1, <3>1, <3>2
    <3>4. f[n] = Entry(c, y) /\ f[n] \in Entries
      BY <1>1, <3>3
    <3>5. n # m /\ ~ (m < n)
      BY <1>1, <1>3, <3>1, <3>4
    <3>6. n \in 1 .. m - 1
      BY <1>1, <3>5
    <3> QED
      BY <3>3, <3>6
  <2>2. ASSUME NEW n \in 1 .. m - 1 PROVE h[n] \in Beats(h[m])
    <3>1. n \in 1 .. L /\ n < m
      BY <1>1
    <3> QED
      BY <1>1, <3>1
  <2> QED
    BY <2>1, <2>2
<1>7. ASSUME NEW x \in S, \A m \in 1 .. L : h[m] # x
      PROVE  L = k /\ Ids(L) \subseteq Beats(x)
  <2>1. L = k /\ Closer(f[k], Entry(c, x)) /\ k \in 1 .. L
    BY <1>1, <1>7
  <2>2. ASSUME NEW m \in 1 .. L PROVE h[m] \in Beats(x)
    <3>1. m = k \/ Closer(f[m], f[k])
      BY <1>1, <2>1
    <3>2. f[m] \in Entries /\ f[k] \in Entries /\ Entry(c, x) \in Entries
      BY <1>1, <1>2, <2>1
    <3>3. Closer(f[m], Entry(c, x))
      BY <1>3, <2>1, <3>1, <3>2
    <3> QED
      BY <1>1, <3>3
  <2> QED
    BY <2>1, <2>2
<1>8. \A x \in S : IsFiniteSet(Beats(x)) /\ Cardinality(Beats(x)) \in Nat
  <2> TAKE x \in S
  <2>1. Beats(x) \subseteq S
    OBVIOUS
  <2> HIDE DEF Beats
  <2> QED
    BY <2>1, FS_Subset, FS_CardinalityType
<1>9. Cardinality(S) \in Nat /\ Ids(L) \subseteq S /\ L \in 0 .. L
  BY <1>1, FS_CardinalityType
<1> HIDE DEF Beats, Ids
<1>10. ASSUME NEW r \in 1 .. k PROVE r <= Cardinality(S) <=> r <= L
  <2>1. CASE L = k
    <3>1. Cardinality(Ids(L)) <= Cardinality(S) /\ Cardinality(Ids(L)) = L
      BY <1>5, <1>9, FS_Subset
    <3> QED
      BY <1>1, <1>9, <2>1, <3>1
  <2>2. CASE L # k
    <3>1. S \subseteq Ids(L)
      BY <1>7, <2>2 DEF Ids
    <3>2. S = Ids(L)
      BY <1>9, <3>1
    <3> QED
      BY <1>5, <1>9, <3>2
  <2> QED
    BY <2>1, <2>2
<1>11. ASSUME NEW r \in 1 .. k, r <= L
       PROVE  f[r].id = CHOOSE x \in S : Cardinality(Beats(x)) = r - 1
  <2>1. r \in 1 .. L /\ r - 1 \in 0 .. L
    BY <1>1, <1>11
  <2>2. h[r] \in S /\ Cardinality(Beats(h[r])) = r - 1
    BY <1>1, <1>5, <1>6, <2>1
  <2>3. ASSUME NEW x \in S, Cardinality(Beats(x)) = r - 1 PROVE x = h[r]
    <3>1. CASE \E m \in 1 .. L : h[m] = x
      <4>1. PICK m \in 1 .. L : h[m] = x
        BY <3>1
      <4>2. m - 1 \in 0 .. L
        BY <1>1
      <4>3. Cardinality(Beats(x)) = m - 1
        BY <1>5, <1>6, <4>1, <4>2
      <4>4. m = r
        BY <2>1, <2>3, <4>3
      <4> QED
        BY <4>1, <4>4
    <3>2. CASE \A m \in 1 .. L : h[m] # x
      <4>1. L = k /\ Ids(L) \subseteq Beats(x)
        BY <1>7, <3>2
      <4>2. Cardinality(Ids(L)) <= Cardinality(Beats(x)) /\ Cardinality(Ids(L)) = L
        BY <1>5, <1>8, <1>9, <4>1, FS_Subset
      <4>3. L <= r - 1
        BY <2>3, <4>2
      <4> QED
        BY <1>1, <2>1, <4>3
    <3> QED
      BY <3>1, <3>2
  <2>4. h[r] = CHOOSE x \in S : Cardinality(Beats(x)) = r - 1
    BY <2>2, <2>3
  <2> QED
    BY <1>1, <2>1, <2>4
<1>12. ASSUME NEW r \in 1 .. k
       PROVE  (IF r <= L THEN f[r].id ELSE -1)
                = IF r <= Cardinality(S)
                  THEN CHOOSE x \in S : Cardinality(Beats(x)) = r - 1 ELSE -1
  <2>1. CASE r <= L
    BY <1>10, <1>11, <2>1
  <2>2. CASE ~ (r <= L)
    BY <1>10, <2>2
  <2> QED
    BY <2>1, <2>2
<1>13. Answer(c, f) = [r \in 1 .. k |-> IF r <= L THEN f[r].id ELSE -1]
  BY DEF Answer, k, L
<1>14. NearestRows(c, S) =
         [r \in 1 .. k |-> IF r <= Cardinality(S)
                           THEN CHOOSE x \in S : Cardinality(Beats(x)) = r - 1 ELSE -1]
  BY DEF NearestRows, Beats, k
<1> QED
  BY <1>12, <1>13, <1>14

(* The elements rise throughout.                                           *)
Rises(s) == \A i, j \in 1 .. Len(s) : i < j => s[i] < s[j]

(* Checked against its neighbour each, they do.                            *)
LEMMA StrictRises ==
  ASSUME NEW s \in Seq(Int), Strict(s)
  PROVE  Rises(s)
<1>1. Len(s) \in Nat /\ \A i \in 1 .. Len(s) : s[i] \in Int
  OBVIOUS
<1> DEFINE S == {m \in 0 .. Len(s) : \A i, j \in 1 .. m : i < j => s[i] < s[j]}
<1>2. 0 \in S
  BY <1>1
<1>3. ASSUME NEW m \in 0 .. Len(s) - 1, m \in S PROVE m + 1 \in S
  <2>1. m + 1 \in 0 .. Len(s) /\ m + 1 \in 1 .. Len(s)
    BY <1>1
  <2>2. ASSUME NEW i \in 1 .. m + 1, NEW j \in 1 .. m + 1, i < j PROVE s[i] < s[j]
    <3>1. CASE j \in 1 .. m
      BY <1>3, <2>2, <3>1
    <3>2. CASE j = m + 1
      <4>1. m \in 1 .. m /\ i \in 1 .. m /\ j \in 2 .. Len(s) /\ j - 1 = m
        BY <1>1, <2>1, <2>2, <3>2
      <4>2. s[m] < s[j]
        BY <4>1 DEF Strict
      <4>3. i = m \/ s[i] < s[m]
        BY <1>3, <4>1
      <4>4. s[i] \in Int /\ s[m] \in Int /\ s[j] \in Int
        BY <1>1, <2>1, <3>2, <4>1
      <4> QED
        BY <4>2, <4>3, <4>4
    <3> QED
      BY <3>1, <3>2
  <2> QED
    BY <2>1, <2>2
<1>4. \A m \in 0 .. Len(s) : m \in S
  <2> HIDE DEF S
  <2> QED
    BY <1>1, <1>2, <1>3, CountUp
<1> QED
  BY <1>1, <1>4 DEF Rises

(* And the other way round, so that no element comes twice.                *)
LEMMA RisesStrict ==
  ASSUME NEW s \in Seq(Int), Rises(s)
  PROVE  Strict(s) /\ Distinct(s)
<1>1. Len(s) \in Nat /\ \A i \in 1 .. Len(s) : s[i] \in Int
  OBVIOUS
<1>2. Strict(s)
  <2> SUFFICES ASSUME NEW n \in 2 .. Len(s) PROVE s[n - 1] < s[n]
    BY DEF Strict
  <2>1. n - 1 \in 1 .. Len(s) /\ n \in 1 .. Len(s) /\ n - 1 < n
    BY <1>1
  <2> QED
    BY <2>1 DEF Rises
<1>3. Distinct(s)
  <2> SUFFICES ASSUME NEW i \in 1 .. Len(s), NEW j \in 1 .. Len(s), s[i] = s[j], i # j
               PROVE FALSE
    BY DEF Distinct
  <2>1. i < j \/ j < i
    BY <1>1
  <2>2. s[i] < s[j] \/ s[j] < s[i]
    BY <2>1 DEF Rises
  <2> QED
    BY <1>1, <2>2
<1> QED
  BY <1>2, <1>3

(* A further element, above all, keeps a sequence rising.                  *)
LEMMA AppendRises ==
  ASSUME NEW s \in Seq(Int), Rises(s), NEW x \in Int, \A y \in ToSet(s) : y < x
  PROVE  Append(s, x) \in Seq(Int) /\ Rises(Append(s, x))
         /\ ToSet(Append(s, x)) = ToSet(s) \cup {x}
<1> DEFINE t == Append(s, x)
<1>1. /\ t \in Seq(Int) /\ Len(t) = Len(s) + 1 /\ Len(s) \in Nat
      /\ \A i \in 1 .. Len(s) : t[i] = s[i] /\ t[i] \in ToSet(s)
      /\ t[Len(s) + 1] = x
  BY DEF ToSet
<1> HIDE DEF t
<1>2. Rises(t)
  <2> SUFFICES ASSUME NEW i \in 1 .. Len(s) + 1, NEW j \in 1 .. Len(s) + 1, i < j
               PROVE  t[i] < t[j]
    BY <1>1 DEF Rises
  <2>1. i \in 1 .. Len(s)
    BY <1>1
  <2>2. CASE j \in 1 .. Len(s)
    BY <1>1, <2>1, <2>2 DEF Rises
  <2>3. CASE j = Len(s) + 1
    BY <1>1, <2>1, <2>3
  <2> QED
    BY <1>1, <2>2, <2>3
<1>3. ToSet(t) = ToSet(s) \cup {x}
  <2>1. \A i \in 1 .. Len(s) + 1 : i \in 1 .. Len(s) \/ i = Len(s) + 1
    BY <1>1
  <2>2. Len(s) + 1 \in 1 .. Len(t)
    BY <1>1
  <2>3. ASSUME NEW i \in 1 .. Len(t) PROVE t[i] \in ToSet(s) \cup {x}
    BY <1>1, <2>1
  <2>4. ASSUME NEW y \in ToSet(s) PROVE \E i \in 1 .. Len(t) : t[i] = y
    <3>1. PICK i \in 1 .. Len(s) : s[i] = y
      BY DEF ToSet
    <3>2. i \in 1 .. Len(t) /\ t[i] = y
      BY <1>1, <3>1
    <3> QED
      BY <3>2
  <2>5. \E i \in 1 .. Len(t) : t[i] = x
    BY <1>1, <2>2
  <2>6. ToSet(t) = {t[i] : i \in 1 .. Len(t)}
    BY DEF ToSet
  <2> QED
    BY <2>3, <2>4, <2>5, <2>6
<1> QED
  BY <1>1, <1>2, <1>3 DEF t

(* A part of a rising sequence rises.                                      *)
LEMMA SpanIs ==
  ASSUME NEW D, D \subseteq Int, NEW s \in Seq(D), Rises(s),
         NEW m \in 1 .. Len(s) + 1, NEW n \in m - 1 .. Len(s)
  PROVE  LET t == SubSeq(s, m, n)
         IN /\ t \in Seq(D) /\ Rises(t) /\ ToSet(t) = Span(s, m, n)
            /\ Len(t) = n - m + 1
<1> DEFINE t == SubSeq(s, m, n)
<1>1. Len(s) \in Nat /\ m \in Int /\ n \in Int /\ 1 <= m /\ n <= Len(s) /\ n - m + 1 \in Nat
      /\ \A i \in m .. n : s[i] \in D
  OBVIOUS
<1>2. /\ t \in Seq(D) /\ Len(t) = n - m + 1
      /\ \A i \in 1 .. n - m + 1 : t[i] = s[m + i - 1]
  <2>1. /\ t \in Seq(D) /\ Len(t) = IF m <= n THEN n - m + 1 ELSE 0
        /\ \A i \in 1 .. n - m + 1 : t[i] = s[m + i - 1]
    BY <1>1, SubSeqProperties
  <2> HIDE DEF t
  <2> QED
    BY <1>1, <2>1
<1> HIDE DEF t
<1>3. Rises(t)
  <2> SUFFICES ASSUME NEW i \in 1 .. n - m + 1, NEW j \in 1 .. n - m + 1, i < j
               PROVE  t[i] < t[j]
    BY <1>2 DEF Rises
  <2> DEFINE a == m + i - 1
             b == m + j - 1
  <2>1. a \in 1 .. Len(s) /\ b \in 1 .. Len(s) /\ a < b
    BY <1>1
  <2>2. t[i] = s[a] /\ t[j] = s[b]
    BY <1>2
  <2> HIDE DEF a, b
  <2> QED
    BY <2>1, <2>2 DEF Rises
<1>4. ToSet(t) = Span(s, m, n)
  <2>1. ASSUME NEW i \in 1 .. n - m + 1 PROVE t[i] \in Span(s, m, n)
    <3>1. m + i - 1 \in m .. n /\ t[i] = s[m + i - 1]
      BY <1>1, <1>2
    <3> QED
      BY <3>1 DEF Span
  <2>2. ASSUME NEW i \in m .. n PROVE s[i] \in ToSet(t)
    <3> DEFINE j == i - m + 1
    <3>1. j \in 1 .. n - m + 1 /\ m + j - 1 = i
      BY <1>1
    <3> HIDE DEF j
    <3>2. t[j] = s[i] /\ j \in 1 .. Len(t)
      BY <1>2, <3>1
    <3>3. DOMAIN t = 1 .. Len(t)
      BY <1>2
    <3>4. ToSet(t) = {t[h] : h \in 1 .. Len(t)}
      BY <3>3, Zenon DEF ToSet
    <3> QED
      BY <3>2, <3>4
  <2>3. ToSet(t) = {t[i] : i \in 1 .. n - m + 1} /\ Span(s, m, n) = {s[i] : i \in m .. n}
    <3>1. DOMAIN t = 1 .. n - m + 1
      <4>1. DOMAIN t = 1 .. Len(t)
        BY <1>2
      <4> QED
        BY <1>2, <4>1
    <3>2. ToSet(t) = {t[i] : i \in 1 .. n - m + 1}
      BY <3>1 DEF ToSet
    <3> QED
      BY <3>2 DEF Span
  <2>4. \A y \in Span(s, m, n) : y \in ToSet(t)
    BY <2>2, <2>3
  <2>5. \A y \in ToSet(t) : y \in Span(s, m, n)
    BY <2>1, <2>3
  <2> QED
    BY <2>4, <2>5
<1> QED
  BY <1>2, <1>3, <1>4 DEF t

(* What is sieved, element after element.                                  *)
IsSieve(s, S, f) ==
  /\ \A k \in 0 .. Len(s) : f[k] \in Seq(Int)
  /\ f[0] = <<>>
  /\ \A k \in 0 .. Len(s) - 1 :
       f[k + 1] = IF s[k + 1] \in S THEN Append(f[k], s[k + 1]) ELSE f[k]

(* The steps of a sieve.                                                   *)
LEMMA SieveIs ==
  ASSUME NEW s \in Seq(Int), NEW S
  PROVE  \E f : IsSieve(s, S, f) /\ Sieve(s, S) = f[Len(s)]
<1> DEFINE n == Len(s)
           T == Seq(Int)
           e == <<>>
           Turn(t, k) == IF s[k] \in S THEN Append(t, s[k]) ELSE t
           G == [p \in (0 .. n - 1) \X T |-> Turn(p[2], p[1] + 1)]
           Eq(f) == f = [k \in 0 .. n |-> IF k = 0 THEN e ELSE Turn(f[k - 1], k)]
           f == CHOOSE h : Eq(h)
<1>1. n \in Nat /\ e \in T
  OBVIOUS
<1>2. IsStep(G, n, T) /\ \A k \in 0 .. n - 1, t \in T : G[<<k, t>>] = Turn(t, k + 1)
  <2>1. \A k \in 0 .. n - 1, t \in T : Turn(t, k + 1) \in T
    <3> TAKE k \in 0 .. n - 1, t \in T
    <3>1. s[k + 1] \in Int
      OBVIOUS
    <3> QED
      BY <3>1
  <2> HIDE DEF Turn, T
  <2>2. \A p \in (0 .. n - 1) \X T : Turn(p[2], p[1] + 1) \in T
    BY <2>1
  <2> QED
    BY <2>2 DEF IsStep
<1>3. Sieve(s, S) = f[n]
  BY DEF Sieve
<1> HIDE DEF G, T, Turn, n, e
<1>4. PICK r \in [0 .. n -> T] : IsRun(r, n, e, G)
  BY <1>1, <1>2, RunExists
<1>5. \A k \in 0 .. n - 1 : r[k] \in T /\ r[k + 1] = Turn(r[k], k + 1)
  <2>1. \A k \in 0 .. n - 1 : r[k] \in T
    BY <1>1
  <2> QED
    BY <1>2, <1>4, <2>1 DEF IsRun
<1>6. \E h : Eq(h)
  <2>1. \A k \in 0 .. n : k # 0 => k - 1 \in 0 .. n - 1 /\ k - 1 + 1 = k
    BY <1>1
  <2>2. \A k \in 0 .. n : r[k] = IF k = 0 THEN e ELSE Turn(r[k - 1], k)
    BY <1>4, <1>5, <2>1 DEF IsRun
  <2>3. r = [k \in 0 .. n |-> r[k]]
    OBVIOUS
  <2> QED
    BY <2>2, <2>3
<1>7. f = [k \in 0 .. n |-> IF k = 0 THEN e ELSE Turn(f[k - 1], k)]
  <2>1. Eq(f)
    <3> HIDE DEF Eq
    <3> QED
      BY <1>6
  <2> QED
    BY <2>1
<1> HIDE DEF f, Eq
<1>8. f[0] = e /\ \A k \in 0 .. n - 1 : f[k + 1] = Turn(f[k], k + 1)
  <2>1. f[0] = e
    BY <1>1, <1>7
  <2>2. ASSUME NEW k \in 0 .. n - 1 PROVE f[k + 1] = Turn(f[k], k + 1)
    <3> DEFINE h == k + 1
    <3>1. h \in 0 .. n /\ h # 0 /\ h - 1 = k
      BY <1>1
    <3> HIDE DEF h
    <3>2. f[h] = Turn(f[k], h)
      BY <1>7, <3>1
    <3> QED
      BY <3>2 DEF h
  <2> QED
    BY <2>1, <2>2
<1>9. \A k \in 0 .. n : f[k] \in T
  <2>1. \A k \in 0 .. n - 1 : f[k] \in T => f[k + 1] = G[<<k, f[k]>>]
    BY <1>2, <1>8
  <2>2. n \in Nat /\ e \in T /\ IsStep(G, n, T)
    BY <1>1, <1>2
  <2>3. f[0] = e
    BY <1>8
  <2> QED
    BY <2>1, <2>2, <2>3, RunStays
<1> QED
  BY <1>3, <1>8, <1>9 DEF IsSieve, n, T, Turn, e

(* What is sieved from a rising sequence rises, and is what S has of it.   *)
LEMMA SieveRises ==
  ASSUME NEW s \in Seq(Int), Rises(s), NEW S
  PROVE  LET t == Sieve(s, S)
         IN t \in Seq(Int) /\ Rises(t) /\ ToSet(t) = ToSet(s) \cap S
<1> DEFINE n == Len(s)
<1>1. n \in Nat /\ \A i \in 1 .. n : s[i] \in Int
  OBVIOUS
<1>2. PICK f : IsSieve(s, S, f) /\ Sieve(s, S) = f[n]
  BY SieveIs
<1> DEFINE P(k) == Rises(f[k]) /\ ToSet(f[k]) = Span(s, 1, k) \cap S
           R == {k \in 0 .. n : P(k)}
<1>3. 0 \in R
  <2>1. Rises(<<>>) /\ ToSet(<<>>) = {} /\ Span(s, 1, 0) = {}
    BY DEF Rises, ToSet, Span
  <2> QED
    BY <1>1, <1>2, <2>1 DEF IsSieve
<1>4. ASSUME NEW k \in 0 .. n - 1, k \in R PROVE k + 1 \in R
  <2> DEFINE x == s[k + 1]
             a == f[k]
             b == f[k + 1]
  <2>1. k + 1 \in 1 .. n /\ k + 1 \in 0 .. n /\ k \in 0 .. n /\ x \in Int
    BY <1>1
  <2>2. Span(s, 1, k + 1) = Span(s, 1, k) \cup {x}
    <3>1. 1 .. k + 1 = (1 .. k) \cup {k + 1}
      OBVIOUS
    <3> QED
      BY <3>1 DEF Span
  <2>3. \A y \in Span(s, 1, k) : y < x
    <3>1. \A i \in 1 .. k : i \in 1 .. n /\ i < k + 1
      BY <1>1
    <3> QED
      BY <2>1, <3>1 DEF Span, Rises
  <2>4. a \in Seq(Int) /\ b = (IF x \in S THEN Append(a, x) ELSE a)
        /\ Rises(a) /\ ToSet(a) = Span(s, 1, k) \cap S
    BY <1>2, <1>4, <2>1 DEF IsSieve
  <2> HIDE DEF a, b, x
  <2>5. CASE x \in S
    <3>1. \A y \in ToSet(a) : y < x
      BY <2>3, <2>4
    <3>2. Rises(Append(a, x)) /\ ToSet(Append(a, x)) = ToSet(a) \cup {x}
      BY <2>1, <2>4, <3>1, AppendRises
    <3>3. Rises(b) /\ ToSet(b) = Span(s, 1, k + 1) \cap S
      BY <2>2, <2>4, <2>5, <3>2
    <3> QED
      BY <2>1, <3>3 DEF b
  <2>6. CASE x \notin S
    <3>1. Rises(b) /\ ToSet(b) = Span(s, 1, k + 1) \cap S
      BY <2>2, <2>4, <2>6
    <3> QED
      BY <2>1, <3>1 DEF b
  <2> QED
    BY <2>5, <2>6
<1>5. P(n)
  <2> HIDE DEF P
  <2>1. \A k \in 0 .. n : k \in R
    <3> HIDE DEF R
    <3> QED
      BY <1>1, <1>3, <1>4, CountUp
  <2> QED
    BY <1>1, <2>1
<1>6. Span(s, 1, n) = ToSet(s) /\ f[n] \in Seq(Int)
  BY <1>1, <1>2 DEF Span, ToSet, IsSieve
<1> QED
  BY <1>2, <1>5, <1>6

-----------------------------------------------------------------------------
(* The cascades.                                                           *)

(* The rows of a call's primary posting, in their order.                   *)
IsRows(c, ids) == ids \in Seq(ToSet(c.primary)) /\ Rises(ids)

(* Rows that rise are integers, and none comes twice.                      *)
LEMMA RowsAre ==
  ASSUME NEW c, IsPosting(c), NEW ids, IsRows(c, ids)
  PROVE  /\ ids \in Seq(Int) /\ Distinct(ids) /\ Len(ids) \in Nat
         /\ ToSet(ids) \subseteq ToSet(c.primary)
<1>1. ToSet(c.primary) \subseteq Int
  BY PostingIs
<1>2. ids \in Seq(Int) /\ ToSet(ids) \subseteq ToSet(c.primary) /\ Len(ids) \in Nat
  <2> DEFINE D == ToSet(c.primary)
  <2>1. D \subseteq Int /\ ids \in Seq(D)
    BY <1>1 DEF IsRows
  <2> HIDE DEF D
  <2>2. ids \in Seq(Int) /\ \A i \in 1 .. Len(ids) : ids[i] \in D
    <3>1. Len(ids) \in Nat /\ \A i \in 1 .. Len(ids) : ids[i] \in D
      BY <2>1
    <3> QED
      BY <2>1, <3>1, SeqMonotonic
  <2>3. ToSet(ids) \subseteq D
    BY <2>2 DEF ToSet
  <2> QED
    BY <2>2, <2>3 DEF D
<1> QED
  BY <1>2, RisesStrict DEF IsRows

(* A sequence of integers is of any set that has its elements.             *)
LEMMA SeqWithin ==
  ASSUME NEW s \in Seq(Int), NEW D, ToSet(s) \subseteq D
  PROVE  s \in Seq(D)
<1>1. \A i \in 1 .. Len(s) : s[i] \in D
  BY DEF ToSet
<1> DEFINE n == Len(s)
<1>2. n \in Nat /\ s \in [1 .. n -> D]
  BY <1>1
<1> HIDE DEF n
<1> QED
  BY <1>2

(* A sweep ends with a frontier.                                           *)
LEMMA SweepEnds ==
  ASSUME NEW c, IsPosting(c), NEW ids \in Seq(ToSet(c.primary)),
         NEW start \in Seq(Entries), NEW packed \in BOOLEAN, NEW points
  PROVE  Sweep(c, packed, points, start, ids) \in Seq(Entries)
<1>1. Len(ids) \in Nat
  OBVIOUS
<1>2. Len(ids) \in 0 .. Len(ids)
  BY <1>1
<1> QED
  BY <1>2, SweepIs

(* What survives a line rises, and what does not is beyond the frontier.   *)
LEMMA SurvivorsAre ==
  ASSUME NEW c, IsPosting(c), NEW ids, IsRows(c, ids), NEW f, NEW lines \in {1, 2}
  PROVE  LET s == Survivors(c, ids, f, lines)
         IN /\ IsRows(c, s) /\ ToSet(s) \subseteq ToSet(ids)
            /\ \A A \in SUBSET ToSet(c.primary) : IsTop(c, f, A) /\ Len(f) = c.k =>
                 \A x \in ToSet(ids) \ ToSet(s) : x \notin A => Closer(f[c.k], Entry(c, x))
<1> DEFINE B == {x \in ToSet(ids) : Closer(PartialEntry(c, x, lines), f[c.k])}
           s == Sieve(ids, B)
<1>1. s = Survivors(c, ids, f, lines)
  BY DEF Survivors
<1>2. ids \in Seq(Int) /\ Rises(ids) /\ ToSet(ids) \subseteq ToSet(c.primary)
  BY RowsAre DEF IsRows
<1>3. B \subseteq ToSet(ids)
  OBVIOUS
<1>4. \A x \in ToSet(ids) \ B : ~Closer(PartialEntry(c, x, lines), f[c.k])
  OBVIOUS
<1> HIDE DEF B
<1>5. s \in Seq(Int) /\ Rises(s) /\ ToSet(s) = ToSet(ids) \cap B
  BY <1>2, SieveRises
<1> HIDE DEF s
<1>6. ToSet(s) \subseteq ToSet(ids) /\ IsRows(c, s)
  <2> DEFINE D == ToSet(c.primary)
  <2>1. ToSet(s) \subseteq D
    BY <1>2, <1>5
  <2> HIDE DEF D
  <2>2. s \in Seq(D)
    BY <1>5, <2>1, SeqWithin, Zenon
  <2> QED
    BY <1>5, <2>2 DEF IsRows, D
<1>7. ASSUME NEW A \in SUBSET ToSet(c.primary), IsTop(c, f, A), Len(f) = c.k,
             NEW x \in ToSet(ids) \ ToSet(s), x \notin A
      PROVE  Closer(f[c.k], Entry(c, x))
  <2>1. x \in ToSet(ids) \ B /\ x \in ToSet(c.primary)
    BY <1>2, <1>5, <1>7
  <2>2. ~Closer([distance |-> Partial(Row(c, TRUE, x), 2 * lines), id |-> x], f[c.k])
    BY <1>4, <2>1 DEF PartialEntry
  <2>3. 2 * lines \in 0 .. Len(c.order) /\ TRUE \in BOOLEAN
    <3>1. Len(c.order) \in Nat /\ Len(c.order) > 4 /\ (lines = 1 \/ lines = 2)
      BY PostingIs DEF IsPosting
    <3> QED
      BY <3>1
  <2> DEFINE p == 2 * lines
  <2> HIDE DEF p
  <2>4. p \in 0 .. Len(c.order)
        /\ ~Closer([distance |-> Partial(Row(c, TRUE, x), p), id |-> x], f[c.k])
    BY <2>2, <2>3 DEF p
  <2> QED
    BY <1>7, <2>1, <2>3, <2>4, LosesByPart
<1> QED
  BY <1>1, <1>6, <1>7

(* Rows of B left out by a full frontier were not to be kept.              *)
LEMMA CascadeKeeps ==
  ASSUME NEW c, IsPosting(c), NEW A \in SUBSET ToSet(c.primary), NEW f,
         IsTop(c, f, A), Len(f) = c.k, NEW B \in SUBSET ToSet(c.primary),
         A \cap B = {}, NEW ids, IsRows(c, ids), ToSet(ids) \subseteq B,
         \A x \in B \ ToSet(ids) : Closer(f[c.k], Entry(c, x))
  PROVE  LET t == LastLine(c, f, ids, 2)
         IN IsTop(c, t, A \cup B) /\ Len(t) = c.k
<1> DEFINE t == Sweep(c, TRUE, {4}, f, ids)
<1>1. t = LastLine(c, f, ids, 2)
  <2>1. {2 * 2} = {4}
    OBVIOUS
  <2> QED
    BY <2>1 DEF LastLine
<1>2. {4} \in SUBSET (0 .. Len(c.order)) /\ TRUE \in BOOLEAN
  <2>1. Len(c.order) \in Nat /\ Len(c.order) > 4
    BY PostingIs DEF IsPosting
  <2> QED
    BY <2>1
<1>3. ids \in Seq(ToSet(c.primary)) /\ Distinct(ids)
      /\ \A i \in 1 .. Len(ids) : ids[i] \notin A
  <2>1. \A i \in 1 .. Len(ids) : ids[i] \in ToSet(ids)
    BY DEF ToSet
  <2> QED
    BY <2>1, RowsAre DEF IsRows
<1> DEFINE four == {4}
<1>4. four \in SUBSET (0 .. Len(c.order))
  BY <1>2
<1> HIDE DEF four
<1> DEFINE u == Sweep(c, TRUE, four, f, ids)
<1>5. IsTop(c, u, A \cup ToSet(ids)) /\ Advances(c, f, u)
  BY <1>2, <1>3, <1>4, SweepTops
<1>6. t = u
  BY DEF four
<1> HIDE DEF t, u
<1>7. IsTop(c, t, A \cup ToSet(ids)) /\ Len(t) = c.k
      /\ (t[c.k] = f[c.k] \/ Closer(t[c.k], f[c.k]))
  BY <1>5, <1>6 DEF Advances
<1>8. ASSUME NEW x \in (A \cup B) \ (A \cup ToSet(ids)) PROVE Closer(t[c.k], Entry(c, x))
  <2>1. Closer(f[c.k], Entry(c, x)) /\ x \in ToSet(c.primary)
    OBVIOUS
  <2>2. t[c.k] \in Entries /\ f[c.k] \in Entries /\ Entry(c, x) \in Entries
    <3>1. t \in Seq(Entries) /\ f \in Seq(Entries) /\ c.k \in Nat \ {0}
      BY <1>7 DEF IsTop, IsPosting
    <3>2. Entry(c, x) \in Entries
      BY <1>2, <2>1, RowIs
    <3> QED
      BY <1>7, <3>1, <3>2
  <2> QED
    BY <1>7, <2>1, <2>2, CloserOrder
<1>9. A \cup ToSet(ids) \subseteq A \cup B
  OBVIOUS
<1>10. IsTop(c, t, A \cup B)
  <2> DEFINE S == A \cup ToSet(ids)
             T == A \cup B
  <2>1. S \subseteq T /\ IsTop(c, t, S) /\ \A x \in T \ S : Closer(t[c.k], Entry(c, x))
    BY <1>7, <1>8, <1>9
  <2> HIDE DEF S, T
  <2>2. IsTop(c, t, T)
    BY <1>7, <2>1, DropKeeps
  <2> QED
    BY <2>2 DEF T
<1> QED
  BY <1>1, <1>7, <1>10

(* A block keeps the nearest.                                              *)
LEMMA BlockKeeps ==
  ASSUME NEW c, IsPosting(c), NEW A \in SUBSET ToSet(c.primary), NEW f,
         IsTop(c, f, A), Len(f) = c.k, NEW block, IsRows(c, block),
         A \cap ToSet(block) = {}
  PROVE  LET t == Block16(c, f, block)
         IN IsTop(c, t, A \cup ToSet(block)) /\ Len(t) = c.k
<1> DEFINE first == Survivors(c, block, f, 1)
           second == Survivors(c, first, f, 2)
<1>1. /\ IsRows(c, first) /\ ToSet(first) \subseteq ToSet(block)
      /\ \A x \in ToSet(block) \ ToSet(first) : x \notin A => Closer(f[c.k], Entry(c, x))
  <2>1. 1 \in {1, 2}
    OBVIOUS
  <2> QED
    BY <2>1, SurvivorsAre
<1> HIDE DEF first
<1>2. /\ IsRows(c, second) /\ ToSet(second) \subseteq ToSet(first)
      /\ \A x \in ToSet(first) \ ToSet(second) : x \notin A => Closer(f[c.k], Entry(c, x))
  <2>1. 2 \in {1, 2}
    OBVIOUS
  <2> QED
    BY <1>1, <2>1, SurvivorsAre
<1> HIDE DEF second
<1>3. \A x \in ToSet(block) \ ToSet(second) : Closer(f[c.k], Entry(c, x))
  BY <1>1, <1>2
<1>4. ToSet(block) \subseteq ToSet(c.primary)
  BY RowsAre
<1> DEFINE t == LastLine(c, f, second, 2)
<1>5. IsTop(c, t, A \cup ToSet(block)) /\ Len(t) = c.k
  BY <1>1, <1>2, <1>3, <1>4, CascadeKeeps
<1>6. Block16(c, f, block) = t
  BY DEF Block16, first, second
<1> HIDE DEF t
<1> QED
  BY <1>5, <1>6

(* And it ends with a frontier, whatever it starts from.                   *)
LEMMA BlockTyped ==
  ASSUME NEW c, IsPosting(c), NEW f \in Seq(Entries), NEW block, IsRows(c, block)
  PROVE  Block16(c, f, block) \in Seq(Entries)
<1> DEFINE first == Survivors(c, block, f, 1)
           second == Survivors(c, first, f, 2)
<1>1. 1 \in {1, 2} /\ 2 \in {1, 2} /\ TRUE \in BOOLEAN
  OBVIOUS
<1>2. IsRows(c, first)
  BY <1>1, SurvivorsAre
<1> HIDE DEF first
<1>3. IsRows(c, second)
  BY <1>1, <1>2, SurvivorsAre
<1> HIDE DEF second
<1>4. Sweep(c, TRUE, {2 * 2}, f, second) \in Seq(Entries)
  BY <1>1, <1>3, SweepEnds DEF IsRows
<1> QED
  BY <1>4 DEF Block16, LastLine, first, second

(* A sweep from nothing ends with the nearest of its rows.                 *)
LEMMA FreshSweep ==
  ASSUME NEW c, IsPosting(c), NEW ids, IsRows(c, ids), NEW packed \in BOOLEAN,
         NEW points \in SUBSET (0 .. Len(c.order))
  PROVE  LET t == Sweep(c, packed, points, <<>>, ids)
         IN IsTop(c, t, ToSet(ids)) /\ (Len(ids) <= c.k => Len(t) = Len(ids))
<1> DEFINE A == {}
           e == <<>>
<1>1. e \in Seq(Entries) /\ Len(e) = 0 /\ A \in SUBSET ToSet(c.primary) /\ A = {}
      /\ c.k \in Nat \ {0}
  BY DEF IsPosting
<1>2. IsTop(c, e, A)
  BY <1>1 DEF IsTop
<1> HIDE DEF A, e
<1>3. ids \in Seq(ToSet(c.primary)) /\ Distinct(ids) /\ Len(ids) \in Nat
      /\ \A i \in 1 .. Len(ids) : ids[i] \notin A
  BY <1>1, RowsAre DEF IsRows
<1> DEFINE t == Sweep(c, packed, points, e, ids)
<1>4. /\ IsTop(c, t, A \cup ToSet(ids)) /\ Advances(c, e, t)
      /\ Len(e) + Len(ids) <= c.k => Len(t) = Len(e) + Len(ids)
  <2>1. A \in SUBSET ToSet(c.primary)
    BY <1>1
  <2>2. ids \in Seq(ToSet(c.primary)) /\ Distinct(ids)
    BY <1>3
  <2>3. \A i \in 1 .. Len(ids) : ids[i] \notin A
    BY <1>3
  <2> QED
    BY <1>2, <2>1, <2>2, <2>3, SweepTops
<1> HIDE DEF t
<1>5. A \cup ToSet(ids) = ToSet(ids) /\ Len(e) + Len(ids) = Len(ids)
  BY <1>1, <1>3
<1>6. IsTop(c, t, ToSet(ids)) /\ (Len(ids) <= c.k => Len(t) = Len(ids))
  BY <1>4, <1>5
<1> QED
  BY <1>6 DEF t, e

(* The seeds are the first rows, k of them or all.                         *)
LEMMA SeedsAre ==
  ASSUME NEW c, IsPosting(c), NEW ids, IsRows(c, ids)
  PROVE  LET n == Seeds(c, ids)
             f == Seeded(c, ids)
         IN /\ n \in 0 .. Len(ids) /\ n <= c.k /\ (n < Len(ids) => n = c.k)
            /\ IsTop(c, f, Span(ids, 1, n)) /\ Len(f) = n
<1> DEFINE n == Seeds(c, ids)
           D == ToSet(c.primary)
           s == SubSeq(ids, 1, n)
           f == Sweep(c, TRUE, {}, <<>>, s)
<1>1. D \subseteq Int /\ ids \in Seq(D) /\ Rises(ids) /\ Len(ids) \in Nat
      /\ c.k \in Nat \ {0}
  BY PostingIs, RowsAre DEF IsRows, IsPosting
<1>2. n = IF c.k <= Len(ids) THEN c.k ELSE Len(ids)
  BY <1>1, MinOfTwo DEF Seeds
<1> HIDE DEF n, D
<1>3. n \in 0 .. Len(ids) /\ n <= c.k /\ (n < Len(ids) => n = c.k) /\ n \in Nat
  BY <1>1, <1>2
<1>4. s \in Seq(D) /\ Rises(s) /\ ToSet(s) = Span(ids, 1, n) /\ Len(s) = n - 1 + 1
  <2> DEFINE m == 1
  <2>1. m \in 1 .. Len(ids) + 1 /\ n \in m - 1 .. Len(ids)
    BY <1>1, <1>3
  <2> HIDE DEF m
  <2>2. LET u == SubSeq(ids, m, n)
        IN /\ u \in Seq(D) /\ Rises(u) /\ ToSet(u) = Span(ids, m, n)
           /\ Len(u) = n - m + 1
    BY <1>1, <2>1, SpanIs
  <2> QED
    BY <2>2 DEF m
<1>5. Seeded(c, ids) = f
  BY DEF Seeded, n
<1> HIDE DEF s
<1>6. IsRows(c, s)
  BY <1>4 DEF IsRows, D
<1>7. IsTop(c, f, ToSet(s)) /\ (Len(s) <= c.k => Len(f) = Len(s))
  <2> DEFINE none == {}
  <2>1. none \in SUBSET (0 .. Len(c.order)) /\ TRUE \in BOOLEAN
    OBVIOUS
  <2> HIDE DEF none
  <2> DEFINE u == Sweep(c, TRUE, none, <<>>, s)
  <2>2. IsTop(c, u, ToSet(s)) /\ (Len(s) <= c.k => Len(u) = Len(s))
    BY <1>6, <2>1, FreshSweep
  <2> QED
    BY <2>2 DEF none
<1> HIDE DEF f
<1>8. Len(s) = n
  BY <1>3, <1>4
<1>9. IsTop(c, f, Span(ids, 1, n)) /\ Len(f) = n
  BY <1>3, <1>4, <1>7, <1>8
<1> QED
  BY <1>3, <1>5, <1>9 DEF n

(* The rows of two neighbouring parts.                                     *)
LEMMA SpanAdds ==
  ASSUME NEW s, NEW m \in Nat, NEW n \in Nat, m <= n
  PROVE  Span(s, 1, n) = Span(s, 1, m) \cup Span(s, m + 1, n)
<1>1. 1 .. n = (1 .. m) \cup (m + 1 .. n)
  OBVIOUS
<1> QED
  BY <1>1 DEF Span

(* Rows behind others are none of them.                                    *)
LEMMA SpansApart ==
  ASSUME NEW s \in Seq(Int), Distinct(s), NEW m \in 0 .. Len(s), NEW n \in m .. Len(s)
  PROVE  Span(s, 1, m) \cap Span(s, m + 1, n) = {}
<1>1. Len(s) \in Nat
  OBVIOUS
<1>2. ASSUME NEW i \in 1 .. m, NEW j \in m + 1 .. n, s[i] = s[j] PROVE FALSE
  <2>1. i \in 1 .. Len(s) /\ j \in 1 .. Len(s) /\ i # j
    BY <1>1
  <2> QED
    BY <1>2, <2>1 DEF Distinct
<1> QED
  BY <1>2 DEF Span

(* The prefix scan keeps the nearest of all rows.                          *)
LEMMA PrefixTops ==
  ASSUME NEW c, IsPosting(c), NEW offsets, NEW ids, ids = Named(c, offsets), IsRows(c, ids)
  PROVE  \E f : ScanPrefix128(c, offsets) = Answer(c, f) /\ IsTop(c, f, ToSet(ids))
<1> DEFINE n == Seeds(c, ids)
           D == ToSet(c.primary)
           f == Seeded(c, ids)
           rest == SubSeq(ids, n + 1, Len(ids))
           s == Survivors(c, rest, f, 2)
           t == LastLine(c, f, s, 2)
<1>1. /\ n \in 0 .. Len(ids) /\ n <= c.k /\ (n < Len(ids) => n = c.k)
      /\ IsTop(c, f, Span(ids, 1, n)) /\ Len(f) = n
  BY SeedsAre
<1>2. D \subseteq Int /\ ids \in Seq(D) /\ Rises(ids) /\ Len(ids) \in Nat
      /\ ids \in Seq(Int) /\ Distinct(ids) /\ ToSet(ids) \subseteq D
  BY PostingIs, RowsAre DEF IsRows
<1>3. ScanPrefix128(c, offsets) = Answer(c, IF rest = <<>> THEN f ELSE t)
  BY DEF ScanPrefix128
<1> HIDE DEF n, f, D
<1>4. rest \in Seq(D) /\ Rises(rest) /\ ToSet(rest) = Span(ids, n + 1, Len(ids))
      /\ Len(rest) = Len(ids) - n
  <2> DEFINE m == n + 1
  <2>1. m \in 1 .. Len(ids) + 1 /\ Len(ids) \in m - 1 .. Len(ids)
        /\ Len(ids) - m + 1 = Len(ids) - n
    BY <1>1, <1>2
  <2> HIDE DEF m
  <2>2. LET u == SubSeq(ids, m, Len(ids))
        IN /\ u \in Seq(D) /\ Rises(u) /\ ToSet(u) = Span(ids, m, Len(ids))
           /\ Len(u) = Len(ids) - m + 1
    BY <1>2, <2>1, SpanIs
  <2> QED
    BY <2>1, <2>2 DEF m
<1> HIDE DEF rest
<1>5. ToSet(ids) = Span(ids, 1, n) \cup ToSet(rest)
  <2>1. ToSet(ids) = Span(ids, 1, Len(ids))
    BY <1>2 DEF ToSet, Span
  <2>2. n \in Nat /\ n <= Len(ids)
    BY <1>1, <1>2
  <2> QED
    BY <1>2, <1>4, <2>1, <2>2, SpanAdds
<1>6. Span(ids, 1, n) \cap ToSet(rest) = {}
  <2>1. Len(ids) \in n .. Len(ids)
    BY <1>1, <1>2
  <2> QED
    BY <1>1, <1>2, <1>4, <2>1, SpansApart
<1>7. CASE rest = <<>>
  <2>1. ToSet(rest) = {}
    BY <1>7 DEF ToSet
  <2>2. ToSet(ids) = Span(ids, 1, n)
    BY <1>5, <2>1
  <2> QED
    BY <1>1, <1>3, <1>7, <2>2
<1>8. CASE rest # <<>>
  <2>1. Len(rest) # 0
    BY <1>4, <1>8
  <2>2. n = c.k
    BY <1>1, <1>2, <1>4, <2>1
  <2>3. 2 \in {1, 2} /\ IsRows(c, rest)
    BY <1>4 DEF IsRows, D
  <2> DEFINE A == Span(ids, 1, n)
             B == ToSet(rest)
  <2>4. A \in SUBSET D /\ B \in SUBSET D /\ A \cap B = {} /\ ToSet(ids) = A \cup B
        /\ IsTop(c, f, A) /\ Len(f) = c.k
    BY <1>1, <1>2, <1>5, <1>6, <2>2
  <2>5. /\ IsRows(c, s) /\ ToSet(s) \subseteq B
        /\ \A C \in SUBSET ToSet(c.primary) : IsTop(c, f, C) /\ Len(f) = c.k =>
             \A x \in B \ ToSet(s) : x \notin C => Closer(f[c.k], Entry(c, x))
    BY <2>3, SurvivorsAre
  <2> HIDE DEF A, B, s
  <2>6. \A x \in B \ ToSet(s) : Closer(f[c.k], Entry(c, x))
    BY <2>4, <2>5 DEF D
  <2>7. IsTop(c, t, A \cup B)
    BY <2>4, <2>5, <2>6, CascadeKeeps DEF D
  <2> HIDE DEF t
  <2> QED
    BY <1>3, <1>8, <2>4, <2>7
<1> QED
  BY <1>7, <1>8

(* The blocks follow one another through the rows.                         *)
LEMMA ThroughIs ==
  ASSUME NEW c, IsPosting(c), NEW ids, IsRows(c, ids), NEW b \in Nat
  PROVE  LET m == Through(c, ids, b)
             n == Through(c, ids, b + 1)
             w == Seeds(c, ids) + b * BlockCandidates
         IN /\ m = IF w <= Len(ids) THEN w ELSE Len(ids)
            /\ m \in Seeds(c, ids) .. Len(ids) /\ n \in m .. Len(ids)
<1> DEFINE s == Seeds(c, ids)
           w == s + b * BlockCandidates
           x == s + (b + 1) * BlockCandidates
           L == Len(ids)
<1>1. s \in 0 .. L /\ L \in Nat /\ BlockCandidates \in Nat \ {0}
  BY RowsAre, SeedsAre, PairAssumption
<1>2. Through(c, ids, b) = Min({w, L}) /\ Through(c, ids, b + 1) = Min({x, L})
  BY DEF Through
<1> HIDE DEF s, L
<1>3. w \in Int /\ x \in Int /\ s <= w /\ w <= x
  <2> DEFINE p == b * BlockCandidates
  <2>1. p \in Nat /\ (b + 1) * BlockCandidates = p + BlockCandidates
    BY <1>1
  <2> HIDE DEF p
  <2>2. w = s + p /\ x = s + p + BlockCandidates
    BY <1>1, <2>1 DEF p
  <2> HIDE DEF w, x
  <2> QED
    BY <1>1, <2>1, <2>2
<1> HIDE DEF w, x
<1>4. Min({w, L}) = (IF w <= L THEN w ELSE L) /\ Min({x, L}) = (IF x <= L THEN x ELSE L)
  BY <1>1, <1>3, MinOfTwo
<1> DEFINE m == Through(c, ids, b)
           n == Through(c, ids, b + 1)
<1>5. m = (IF w <= L THEN w ELSE L) /\ n = (IF x <= L THEN x ELSE L)
  BY <1>2, <1>4
<1> HIDE DEF m, n
<1>6. m \in s .. L /\ n \in m .. L
  BY <1>1, <1>3, <1>5
<1> QED
  BY <1>5, <1>6 DEF m, n, s, w, L

(* A block is the rows between the ends of two.                            *)
LEMMA BlockIs ==
  ASSUME NEW c, IsPosting(c), NEW ids, IsRows(c, ids), NEW b \in Nat
  PROVE  LET t == Block(c, ids, b + 1)
             m == Through(c, ids, b)
             n == Through(c, ids, b + 1)
         IN IsRows(c, t) /\ ToSet(t) = Span(ids, m + 1, n)
<1> DEFINE m == Through(c, ids, b)
           n == Through(c, ids, b + 1)
           a == m + 1
           D == ToSet(c.primary)
<1>1. m \in Seeds(c, ids) .. Len(ids) /\ n \in m .. Len(ids)
      /\ Seeds(c, ids) \in 0 .. Len(ids) /\ Len(ids) \in Nat
  BY ThroughIs, SeedsAre, RowsAre
<1>2. Block(c, ids, b + 1) = SubSeq(ids, a, n)
  <2> DEFINE x == b + 1
  <2>1. x - 1 = b
    OBVIOUS
  <2>2. n = Through(c, ids, x)
    OBVIOUS
  <2> HIDE DEF x, n
  <2>3. Block(c, ids, x) = SubSeq(ids, a, n)
    BY <2>1, <2>2 DEF Block
  <2> QED
    BY <2>3 DEF x
<1>3. D \subseteq Int /\ ids \in Seq(D) /\ Rises(ids)
  BY PostingIs DEF IsRows
<1> HIDE DEF m, n, D
<1>4. a \in 1 .. Len(ids) + 1 /\ n \in a - 1 .. Len(ids)
  BY <1>1
<1> HIDE DEF a
<1>5. LET u == SubSeq(ids, a, n)
      IN /\ u \in Seq(D) /\ Rises(u) /\ ToSet(u) = Span(ids, a, n)
         /\ Len(u) = n - a + 1
  BY <1>3, <1>4, SpanIs
<1> QED
  BY <1>2, <1>5 DEF IsRows, D, m, n, a

(* The frontier after each block.                                          *)
IsBlocks(c, ids, q, f) ==
  /\ \A b \in 0 .. q : f[b] \in Seq(Entries)
  /\ f[0] = Seeded(c, ids)
  /\ \A b \in 0 .. q - 1 : f[b + 1] = Block16(c, f[b], Block(c, ids, b + 1))

(* The steps of the scan by blocks.                                        *)
LEMMA BlocksAre ==
  ASSUME NEW c, IsPosting(c), NEW ids, IsRows(c, ids), NEW q \in Nat, NEW offsets,
         ids = Named(c, offsets),
         q = (Len(ids) - Seeds(c, ids) + BlockCandidates - 1) \div BlockCandidates
  PROVE  \E f : IsBlocks(c, ids, q, f) /\ ScanBlock16(c, offsets) = Answer(c, f[q])
<1> DEFINE T == Seq(Entries)
           e == Seeded(c, ids)
           Turn(t, b) == Block16(c, t, Block(c, ids, b))
           G == [p \in (0 .. q - 1) \X T |-> Turn(p[2], p[1] + 1)]
           Eq(f) == f = [b \in 0 .. q |-> IF b = 0 THEN e ELSE Turn(f[b - 1], b)]
           f == CHOOSE h : Eq(h)
<1>1. e \in T
  BY SeedsAre DEF IsTop
<1>2. IsStep(G, q, T) /\ \A b \in 0 .. q - 1, t \in T : G[<<b, t>>] = Turn(t, b + 1)
  <2>1. \A b \in 0 .. q - 1, t \in T : Turn(t, b + 1) \in T
    <3> TAKE b \in 0 .. q - 1, t \in T
    <3>1. b \in Nat
      OBVIOUS
    <3> QED
      BY <3>1, BlockIs, BlockTyped
  <2> HIDE DEF Turn, T
  <2>2. \A p \in (0 .. q - 1) \X T : Turn(p[2], p[1] + 1) \in T
    BY <2>1
  <2> QED
    BY <2>2 DEF IsStep
<1>3. ScanBlock16(c, offsets) = Answer(c, f[q])
  BY DEF ScanBlock16
<1> HIDE DEF G, T, Turn, e
<1>4. PICK r \in [0 .. q -> T] : IsRun(r, q, e, G)
  BY <1>1, <1>2, RunExists
<1>5. \A b \in 0 .. q - 1 : r[b] \in T /\ r[b + 1] = Turn(r[b], b + 1)
  <2>1. \A b \in 0 .. q - 1 : r[b] \in T
    OBVIOUS
  <2> QED
    BY <1>2, <1>4, <2>1 DEF IsRun
<1>6. \E h : Eq(h)
  <2>1. \A b \in 0 .. q : b # 0 => b - 1 \in 0 .. q - 1 /\ b - 1 + 1 = b
    OBVIOUS
  <2>2. \A b \in 0 .. q : r[b] = IF b = 0 THEN e ELSE Turn(r[b - 1], b)
    BY <1>4, <1>5, <2>1 DEF IsRun
  <2>3. r = [b \in 0 .. q |-> r[b]]
    OBVIOUS
  <2> QED
    BY <2>2, <2>3
<1>7. f = [b \in 0 .. q |-> IF b = 0 THEN e ELSE Turn(f[b - 1], b)]
  <2>1. Eq(f)
    <3> HIDE DEF Eq
    <3> QED
      BY <1>6
  <2> QED
    BY <2>1
<1> HIDE DEF f, Eq
<1>8. f[0] = e /\ \A b \in 0 .. q - 1 : f[b + 1] = Turn(f[b], b + 1)
  <2>1. f[0] = e
    BY <1>1, <1>7
  <2>2. ASSUME NEW b \in 0 .. q - 1 PROVE f[b + 1] = Turn(f[b], b + 1)
    <3> DEFINE h == b + 1
    <3>1. h \in 0 .. q /\ h # 0 /\ h - 1 = b
      BY <1>1
    <3> HIDE DEF h
    <3>2. f[h] = Turn(f[b], h)
      BY <1>7, <3>1
    <3> QED
      BY <3>2 DEF h
  <2> QED
    BY <2>1, <2>2
<1>9. \A b \in 0 .. q : f[b] \in T
  <2>1. \A b \in 0 .. q - 1 : f[b] \in T => f[b + 1] = G[<<b, f[b]>>]
    BY <1>2, <1>8
  <2> QED
    BY <1>1, <1>2, <1>8, <2>1, RunStays
<1> QED
  BY <1>3, <1>8, <1>9 DEF IsBlocks, T, Turn, e

(* The number of the blocks is what the rows behind the seeds take.        *)
LEMMA BlockCount ==
  ASSUME NEW rest \in Nat, NEW w \in Nat \ {0}, NEW a, a = rest + w - 1,
         NEW q, q = a \div w
  PROVE  q \in Nat /\ rest <= q * w /\ (q > 0 => rest > 0)
<1> DEFINE d == a % w
<1>1. w \in Nat \ {0} /\ a \in Nat
  OBVIOUS
<1>2. q \in Int /\ d \in 0 .. w - 1 /\ a = w * q + d
  <2>1. q = a \div w /\ d = a % w
    OBVIOUS
  <2> HIDE DEF d
  <2> QED
    BY <1>1, <2>1, QuotientIs
<1> HIDE DEF d
<1>3. q >= 0
  <2> SUFFICES ASSUME q < 0 PROVE FALSE
    BY <1>2
  <2>1. w * q <= 0 - w
    <3>1. w * q = w * (q + 1) - w /\ w * (q + 1) <= 0
      BY <1>1, <1>2
    <3> QED
      BY <1>1, <1>2, <3>1
  <2> QED
    BY <1>1, <1>2, <2>1
<1>4. q > 0 => w * q >= w
  <2> SUFFICES ASSUME q > 0 PROVE w * q >= w
    OBVIOUS
  <2>1. w * q = w * (q - 1) + w /\ w * (q - 1) >= 0
    BY <1>1, <1>2
  <2> QED
    BY <1>1, <1>2, <2>1
<1>5. w * q = q * w /\ w * q \in Int
  BY <1>1, <1>2
<1> DEFINE p == w * q
<1>6. p \in Int /\ rest + w - 1 = p + d /\ (q > 0 => p >= w) /\ q * w = p
  BY <1>1, <1>2, <1>4, <1>5
<1> HIDE DEF p
<1>7. rest <= p /\ (q > 0 => rest > 0)
  BY <1>1, <1>2, <1>6
<1> QED
  BY <1>2, <1>3, <1>6, <1>7

(* The scan by blocks keeps the nearest of all rows.                       *)
LEMMA BlockTops ==
  ASSUME NEW c, IsPosting(c), NEW offsets, NEW ids, ids = Named(c, offsets), IsRows(c, ids)
  PROVE  \E f : ScanBlock16(c, offsets) = Answer(c, f) /\ IsTop(c, f, ToSet(ids))
<1> DEFINE s == Seeds(c, ids)
           L == Len(ids)
           rest == L - s
           w == BlockCandidates
           a == rest + w - 1
           q == a \div w
           At(b) == Through(c, ids, b)
<1>1. /\ s \in 0 .. L /\ s <= c.k /\ (s < L => s = c.k) /\ L \in Nat
      /\ IsTop(c, Seeded(c, ids), Span(ids, 1, s)) /\ Len(Seeded(c, ids)) = s
      /\ c.k \in Nat
  BY SeedsAre, RowsAre DEF IsPosting
<1>2. w \in Nat \ {0}
  BY PairAssumption
<1>3. /\ ids \in Seq(Int) /\ Distinct(ids) /\ ToSet(ids) \subseteq ToSet(c.primary)
      /\ ToSet(ids) = Span(ids, 1, L)
  <2>1. ids \in Seq(Int) /\ Distinct(ids) /\ ToSet(ids) \subseteq ToSet(c.primary)
    BY RowsAre
  <2>2. ToSet(ids) = Span(ids, 1, L)
    BY <2>1 DEF ToSet, Span
  <2> QED
    BY <2>1, <2>2
<1>4. a = L - s + BlockCandidates - 1
  OBVIOUS
<1>5. \A b \in Nat : /\ At(b) = IF s + b * w <= L THEN s + b * w ELSE L
                     /\ At(b) \in s .. L /\ At(b + 1) \in At(b) .. L
  BY ThroughIs
<1>6. \A b \in Nat : LET t == Block(c, ids, b + 1)
                     IN IsRows(c, t) /\ ToSet(t) = Span(ids, At(b) + 1, At(b + 1))
  BY BlockIs
<1>7. q = (Len(ids) - Seeds(c, ids) + BlockCandidates - 1) \div BlockCandidates
  OBVIOUS
<1>8. q = a \div w /\ a = rest + w - 1
  OBVIOUS
<1> HIDE DEF q, a
<1>9. rest \in Nat
  BY <1>1
<1> HIDE DEF rest
<1>10. q \in Nat /\ rest <= q * w /\ (q > 0 => rest > 0)
  BY <1>2, <1>8, <1>9, BlockCount
<1>11. q > 0 => s = c.k
  BY <1>1, <1>10 DEF rest
<1>12. PICK f : IsBlocks(c, ids, q, f) /\ ScanBlock16(c, offsets) = Answer(c, f[q])
  BY <1>7, <1>10, BlocksAre
<1> HIDE DEF At, w, s
<1> DEFINE P(b) == IsTop(c, f[b], Span(ids, 1, At(b))) /\ (q > 0 => Len(f[b]) = c.k)
           R == {b \in 0 .. q : P(b)}
<1>13. 0 \in R
  <2>1. 0 \in Nat /\ 0 * w = 0
    BY <1>2
  <2>2. At(0) = s
    <3> DEFINE z == 0
    <3>1. At(z) = IF s + z * w <= L THEN s + z * w ELSE L
      BY <1>5
    <3>2. s + z * w = s
      BY <1>1, <2>1
    <3> HIDE DEF z
    <3>3. At(z) = s
      BY <1>1, <3>1, <3>2
    <3> QED
      BY <3>3 DEF z
  <2>3. f[0] = Seeded(c, ids)
    BY <1>12 DEF IsBlocks
  <2> QED
    BY <1>1, <1>10, <1>11, <2>2, <2>3
<1>14. ASSUME NEW b \in 0 .. q - 1, b \in R PROVE b + 1 \in R
  <2> DEFINE t == Block(c, ids, b + 1)
             A == Span(ids, 1, At(b))
             B == ToSet(t)
             g == f[b]
             h == f[b + 1]
             m == At(b)
             n == At(b + 1)
  <2>1. b \in Nat /\ b + 1 \in 0 .. q /\ q > 0
    BY <1>10
  <2>2. IsRows(c, t) /\ B = Span(ids, m + 1, n) /\ m \in s .. L /\ n \in m .. L
    BY <1>5, <1>6, <2>1
  <2>3. h = Block16(c, g, t) /\ IsTop(c, g, A) /\ Len(g) = c.k
    <3>1. h = Block16(c, g, t)
      BY <1>12 DEF IsBlocks
    <3>2. P(b)
      <4> HIDE DEF P
      <4> QED
        BY <1>14
    <3>3. IsTop(c, g, A) /\ Len(g) = c.k
      BY <2>1, <3>2
    <3> QED
      BY <3>1, <3>3
  <2>4. m \in 0 .. L /\ n \in m .. L /\ m \in Nat /\ n \in Nat /\ m <= n /\ L \in Nat
    BY <1>1, <2>2
  <2> HIDE DEF t, g, h, m, n, L
  <2>5. Span(ids, 1, n) = Span(ids, 1, m) \cup Span(ids, m + 1, n)
    BY <2>4, SpanAdds
  <2>6. Span(ids, 1, m) \cap Span(ids, m + 1, n) = {}
    <3>1. m \in 0 .. Len(ids) /\ n \in m .. Len(ids)
      BY <2>4 DEF L
    <3> QED
      BY <1>3, <3>1, SpansApart
  <2>7. Span(ids, 1, m) \subseteq ToSet(c.primary)
    <3>1. 1 .. m \subseteq 1 .. L
      BY <2>4
    <3>2. Span(ids, 1, m) \subseteq Span(ids, 1, L)
      BY <3>1 DEF Span
    <3> QED
      BY <1>3, <3>2
  <2>8. A = Span(ids, 1, m) /\ A \in SUBSET ToSet(c.primary) /\ A \cap ToSet(t) = {}
        /\ A \cup ToSet(t) = Span(ids, 1, n)
    BY <2>2, <2>5, <2>6, <2>7 DEF m
  <2> HIDE DEF A
  <2> DEFINE u == Block16(c, g, t)
  <2>9. IsTop(c, u, A \cup ToSet(t)) /\ Len(u) = c.k
    BY <2>2, <2>3, <2>8, BlockKeeps
  <2> HIDE DEF u
  <2>10. u = h
    BY <2>3 DEF u
  <2> QED
    BY <2>1, <2>8, <2>9, <2>10 DEF n, h
<1>15. q \in R
  <2> HIDE DEF R
  <2>1. \A b \in 0 .. q : b \in R
    BY <1>10, <1>13, <1>14, CountUp
  <2> QED
    BY <1>10, <2>1
<1>16. At(q) = L
  <2> DEFINE p == q * w
  <2>1. At(q) = (IF s + p <= L THEN s + p ELSE L) /\ rest <= p
    BY <1>5, <1>10
  <2>2. p \in Int
    BY <1>2, <1>10
  <2> HIDE DEF p
  <2>3. L - s <= p
    BY <2>1 DEF rest
  <2> QED
    BY <1>1, <2>1, <2>2, <2>3
<1> QED
  <2>1. IsTop(c, f[q], Span(ids, 1, At(q)))
    <3>1. P(q)
      <4> HIDE DEF P
      <4> QED
        BY <1>15
    <3> QED
      BY <3>1
  <2>2. IsTop(c, f[q], ToSet(ids))
    BY <1>3, <1>16, <2>1
  <2> QED
    BY <1>12, <2>2

(* Checkpoints are places of groups.                                       *)
LEMMA CheckpointsAre ==
  ASSUME NEW c, IsPosting(c), NEW step
  PROVE  Checkpoints(c, step) \in SUBSET (0 .. Len(c.order))
<1>1. Len(c.order) \in Nat
  BY PostingIs
<1> QED
  BY <1>1 DEF Checkpoints

(* The rows of a rising sequence are finitely many.                        *)
LEMMA FewRows ==
  ASSUME NEW s \in Seq(Int), Rises(s)
  PROVE  IsFiniteSet(ToSet(s))
<1> DEFINE N == 1 .. Len(s)
           T == {s[i] : i \in N}
<1>1. Len(s) \in Nat /\ ToSet(s) = T
  BY DEF ToSet
<1>2. IsFiniteSet(N)
  <2> DEFINE l == 1
             h == Len(s)
  <2>1. l \in Int /\ h \in Int
    BY <1>1
  <2> HIDE DEF l, h
  <2>2. IsFiniteSet(l .. h)
    BY <2>1, FS_Interval
  <2> QED
    BY <2>2 DEF l, h
<1>3. \A i, j \in N : s[i] = s[j] => i = j
  BY RisesStrict DEF Distinct
<1> HIDE DEF N
<1>4. IsFiniteSet(T)
  BY <1>2, <1>3, ImageCard
<1> QED
  BY <1>1, <1>4

(* A sweep, whatever its checkpoints and the order of the groups, answers  *)
(* with the nearest of its rows.                                           *)
LEMMA SweepAnswers ==
  ASSUME NEW c, IsPosting(c), NEW ids, IsRows(c, ids), NEW packed \in BOOLEAN,
         NEW points \in SUBSET (0 .. Len(c.order))
  PROVE  Answer(c, Sweep(c, packed, points, <<>>, ids)) = NearestRows(c, ToSet(ids))
<1> DEFINE t == Sweep(c, packed, points, <<>>, ids)
           S == ToSet(ids)
<1>1. IsTop(c, t, S)
  BY FreshSweep
<1>2. S \in SUBSET ToSet(c.primary) /\ IsFiniteSet(S)
  BY RowsAre, FewRows DEF IsRows
<1> HIDE DEF t, S
<1>3. Answer(c, t) = NearestRows(c, S)
  BY <1>1, <1>2, AnswerIsNearest
<1> QED
  BY <1>3 DEF t, S

(* So does every scan.                                                     *)
LEMMA ScansAnswer ==
  ASSUME NEW c, IsPosting(c), NEW offsets, NEW ids, ids = Named(c, offsets), IsRows(c, ids)
  PROVE  LET near == NearestRows(c, ToSet(ids))
         IN /\ ScanExact(c, offsets) = near /\ ScanBounded(c, offsets) = near
            /\ ScanPacked(c, offsets) = near /\ ScanPackedBounded(c, offsets) = near
            /\ ScanPackedBounded32(c, offsets) = near
            /\ ScanBlock16(c, offsets) = near /\ ScanPrefix128(c, offsets) = near
            /\ ScanGlobalIds(c, ids) = near
<1> DEFINE near == NearestRows(c, ToSet(ids))
           none == {}
           one == Checkpoints(c, 1)
           two == Checkpoints(c, 2)
           P == SUBSET (0 .. Len(c.order))
<1>1. none \in P /\ one \in P /\ two \in P /\ TRUE \in BOOLEAN /\ FALSE \in BOOLEAN
  BY CheckpointsAre
<1>2. /\ ScanExact(c, offsets) = Answer(c, Sweep(c, FALSE, none, <<>>, ids))
      /\ ScanBounded(c, offsets) = Answer(c, Sweep(c, FALSE, two, <<>>, ids))
      /\ ScanPacked(c, offsets) = Answer(c, Sweep(c, TRUE, none, <<>>, ids))
      /\ ScanPackedBounded(c, offsets) = Answer(c, Sweep(c, TRUE, two, <<>>, ids))
      /\ ScanPackedBounded32(c, offsets) = Answer(c, Sweep(c, TRUE, one, <<>>, ids))
      /\ ScanGlobalIds(c, ids) = Answer(c, Sweep(c, FALSE, none, <<>>, ids))
  BY DEF ScanExact, ScanBounded, ScanPacked, ScanPackedBounded, ScanPackedBounded32,
         ScanGlobalIds
<1> HIDE DEF none, one, two, near
<1>3. Answer(c, Sweep(c, FALSE, none, <<>>, ids)) = near
  BY <1>1, SweepAnswers DEF near
<1>4. Answer(c, Sweep(c, TRUE, none, <<>>, ids)) = near
  BY <1>1, SweepAnswers DEF near
<1>5. Answer(c, Sweep(c, FALSE, two, <<>>, ids)) = near
  BY <1>1, SweepAnswers DEF near
<1>6. Answer(c, Sweep(c, TRUE, two, <<>>, ids)) = near
  BY <1>1, SweepAnswers DEF near
<1>7. Answer(c, Sweep(c, TRUE, one, <<>>, ids)) = near
  BY <1>1, SweepAnswers DEF near
<1> DEFINE S == ToSet(ids)
<1>8. S \in SUBSET ToSet(c.primary) /\ IsFiniteSet(S)
  BY RowsAre, FewRows DEF IsRows
<1>9. \A f : IsTop(c, f, S) => Answer(c, f) = NearestRows(c, S)
  <2> HIDE DEF S
  <2> QED
    BY <1>8, AnswerIsNearest
<1>10. ScanBlock16(c, offsets) = near
  <2>1. PICK f : ScanBlock16(c, offsets) = Answer(c, f) /\ IsTop(c, f, S)
    BY BlockTops
  <2> QED
    BY <1>9, <2>1 DEF near
<1>11. ScanPrefix128(c, offsets) = near
  <2>1. PICK f : ScanPrefix128(c, offsets) = Answer(c, f) /\ IsTop(c, f, S)
    BY PrefixTops
  <2> QED
    BY <1>9, <2>1 DEF near
<1> QED
  BY <1>2, <1>3, <1>4, <1>5, <1>6, <1>7, <1>10, <1>11 DEF near

-----------------------------------------------------------------------------
(* The intersections.                                                      *)

(* Ascending places of the primary posting, of all rows the two share.     *)
IsMatch(c, m) == m \in Seq(Int) /\ Rises(m) /\ ToSet(m) = Shared(c)

(* Probing the bitmap finds the shared places.                             *)
LEMMA BitmapMatches ==
  ASSUME NEW c, IsPosting(c)
  PROVE  IsMatch(c, BitmapOffsets(c))
<1> DEFINE n == Len(c.primary)
           s == [i \in 1 .. n |-> i]
<1>1. n \in Nat
  BY DEF IsPosting
<1>2. BitmapOffsets(c) = Sieve(s, Shared(c)) /\ Shared(c) \subseteq 1 .. n
  BY DEF BitmapOffsets, Shared
<1> HIDE DEF n
<1>3. s \in Seq(Int) /\ Len(s) = n
  <2>1. s \in [1 .. n -> Int]
    OBVIOUS
  <2> HIDE DEF s
  <2> QED
    BY <1>1, <2>1
<1>4. Rises(s) /\ ToSet(s) = 1 .. n
  <2>1. \A i \in 1 .. n : s[i] = i
    OBVIOUS
  <2> HIDE DEF s
  <2>2. DOMAIN s = 1 .. n
    BY <1>3
  <2> QED
    BY <1>3, <2>1, <2>2 DEF Rises, ToSet
<1> HIDE DEF s
<1> DEFINE t == Sieve(s, Shared(c))
<1>5. t \in Seq(Int) /\ Rises(t) /\ ToSet(t) = ToSet(s) \cap Shared(c)
  BY <1>3, <1>4, SieveRises
<1> HIDE DEF t
<1>6. ToSet(t) = Shared(c) /\ BitmapOffsets(c) = t
  BY <1>2, <1>4, <1>5 DEF t
<1> QED
  BY <1>5, <1>6 DEF IsMatch

(* Both postings rise.                                                     *)
LEMMA PostingsRise ==
  ASSUME NEW c, IsPosting(c)
  PROVE  /\ Rises(c.primary) /\ Rises(c.secondary)
         /\ Len(c.primary) \in Nat /\ Len(c.secondary) \in Nat
         /\ \A i \in 1 .. Len(c.primary) : c.primary[i] \in Int
         /\ \A m \in 1 .. Len(c.secondary) : c.secondary[m] \in Int
         /\ \A x : x \in ToSet(c.secondary)
                     <=> \E m \in 1 .. Len(c.secondary) : c.secondary[m] = x
<1> DEFINE p == c.primary
           s == c.secondary
<1>1. p \in Seq(Int) /\ s \in Seq(Int) /\ Strict(p) /\ Strict(s)
  BY DEF IsPosting
<1> HIDE DEF p, s
<1>2. Rises(p) /\ Rises(s)
  BY <1>1, StrictRises
<1>3. /\ Len(p) \in Nat /\ Len(s) \in Nat
      /\ \A i \in 1 .. Len(p) : p[i] \in Int
      /\ \A m \in 1 .. Len(s) : s[m] \in Int
  BY <1>1
<1>4. \A x : x \in ToSet(s) <=> \E m \in 1 .. Len(s) : s[m] = x
  BY <1>1 DEF ToSet
<1> QED
  BY <1>2, <1>3, <1>4 DEF p, s

(* The shared places up to n.                                              *)
SharedTo(c, n) == Shared(c) \cap 1 .. n

(* The next place is one more, if its row is shared.                       *)
LEMMA SharedAdds ==
  ASSUME NEW c, IsPosting(c), NEW n \in 1 .. Len(c.primary)
  PROVE  /\ c.primary[n] \in ToSet(c.secondary) => SharedTo(c, n) = SharedTo(c, n - 1) \cup {n}
         /\ c.primary[n] \notin ToSet(c.secondary) => SharedTo(c, n) = SharedTo(c, n - 1)
<1>1. n \in Nat /\ 1 .. n = (1 .. n - 1) \cup {n}
  BY PostingsRise
<1>2. n \in Shared(c) <=> c.primary[n] \in ToSet(c.secondary)
  BY DEF Shared
<1> HIDE DEF Shared
<1> QED
  BY <1>1, <1>2 DEF SharedTo

(* The places found before n, ascending, and n.                            *)
LEMMA MatchAdds ==
  ASSUME NEW c, IsPosting(c), NEW n \in 1 .. Len(c.primary), NEW out \in Seq(Int),
         Rises(out), ToSet(out) = SharedTo(c, n - 1)
  PROVE  /\ c.primary[n] \in ToSet(c.secondary) =>
              /\ Append(out, n) \in Seq(Int) /\ Rises(Append(out, n))
              /\ ToSet(Append(out, n)) = SharedTo(c, n)
         /\ c.primary[n] \notin ToSet(c.secondary) => ToSet(out) = SharedTo(c, n)
<1>1. n \in Int /\ \A y \in ToSet(out) : y < n
  <2>1. n \in Int /\ \A y \in 1 .. n - 1 : y < n
    OBVIOUS
  <2> QED
    BY <2>1 DEF SharedTo
<1>2. Append(out, n) \in Seq(Int) /\ Rises(Append(out, n))
      /\ ToSet(Append(out, n)) = ToSet(out) \cup {n}
  BY <1>1, AppendRises
<1>3. /\ c.primary[n] \in ToSet(c.secondary) => SharedTo(c, n) = SharedTo(c, n - 1) \cup {n}
      /\ c.primary[n] \notin ToSet(c.secondary) => SharedTo(c, n) = SharedTo(c, n - 1)
  BY SharedAdds
<1> QED
  BY <1>2, <1>3

(* Galloping: the rows before the cursor are below all that is to come.    *)
GallopStates(c) == [cursor : 1 .. Len(c.secondary) + 1, out : Seq(Int)]

GallopAt(c, a, n) ==
  /\ Rises(a.out) /\ ToSet(a.out) = SharedTo(c, n)
  /\ \A m \in 1 .. a.cursor - 1, i \in n + 1 .. Len(c.primary) :
       c.secondary[m] < c.primary[i]

(* A step leaves a cursor and offsets.                                     *)
LEMMA GallopTyped ==
  ASSUME NEW c, IsPosting(c), NEW a \in GallopStates(c), NEW n \in Int
  PROVE  GallopStep(c, a, n) \in GallopStates(c)
<1> DEFINE at == {m \in a.cursor .. Len(c.secondary) : c.secondary[m] >= c.primary[n]}
           q == Min(at)
<1>1. Len(c.secondary) \in Nat /\ a.cursor \in 1 .. Len(c.secondary) + 1 /\ a.out \in Seq(Int)
      /\ a = [cursor |-> a.cursor, out |-> a.out]
  BY PostingsRise DEF GallopStates
<1>2. at \subseteq 1 .. Len(c.secondary)
  BY <1>1
<1>3. GallopStep(c, a, n) \in {[a EXCEPT !.cursor = Len(c.secondary) + 1],
                               [cursor |-> q + 1, out |-> Append(a.out, n)],
                               [a EXCEPT !.cursor = q]}
      /\ (at = {} => GallopStep(c, a, n) = [a EXCEPT !.cursor = Len(c.secondary) + 1])
  BY DEF GallopStep
<1> HIDE DEF at
<1>4. at # {} => q \in 1 .. Len(c.secondary)
  <2> SUFFICES ASSUME at # {} PROVE q \in 1 .. Len(c.secondary)
    OBVIOUS
  <2>1. at \subseteq Int /\ IsFiniteSet(at)
    BY <1>1, <1>2, FewOf
  <2> QED
    BY <1>2, <2>1, MinIs
<1> HIDE DEF q
<1>5. Append(a.out, n) \in Seq(Int)
  BY <1>1
<1>6. CASE at = {}
  BY <1>1, <1>3, <1>6 DEF GallopStates
<1>7. CASE at # {}
  <2>1. q \in 1 .. Len(c.secondary) + 1 /\ q + 1 \in 1 .. Len(c.secondary) + 1
        /\ Len(c.secondary) + 1 \in 1 .. Len(c.secondary) + 1
    BY <1>1, <1>4, <1>7
  <2> QED
    <3>1. [cursor |-> q + 1, out |-> Append(a.out, n)] \in GallopStates(c)
      BY <1>5, <2>1 DEF GallopStates
    <3>2. [a EXCEPT !.cursor = q] \in GallopStates(c)
      BY <1>1, <2>1 DEF GallopStates
    <3>3. [a EXCEPT !.cursor = Len(c.secondary) + 1] \in GallopStates(c)
      BY <1>1, <2>1 DEF GallopStates
    <3> QED
      BY <1>3, <3>1, <3>2, <3>3
<1> QED
  BY <1>6, <1>7

(* A step keeps the rows before the cursor below what is to come.          *)
LEMMA GallopKeeps ==
  ASSUME NEW c, IsPosting(c), NEW n \in 1 .. Len(c.primary), NEW a \in GallopStates(c),
         GallopAt(c, a, n - 1)
  PROVE  GallopAt(c, GallopStep(c, a, n), n)
<1> DEFINE p == c.primary
           s == c.secondary
           L == Len(s)
           x == p[n]
           at == {m \in a.cursor .. L : s[m] >= x}
           q == Min(at)
           found == x \in ToSet(s)
<1>1. /\ Rises(p) /\ Rises(s) /\ Len(p) \in Nat /\ L \in Nat
      /\ \A i \in 1 .. Len(p) : p[i] \in Int
      /\ \A m \in 1 .. L : s[m] \in Int
      /\ found <=> \E m \in 1 .. L : s[m] = x
  BY PostingsRise
<1>2. /\ a.cursor \in 1 .. L + 1 /\ a.out \in Seq(Int)
      /\ a = [cursor |-> a.cursor, out |-> a.out]
  BY DEF GallopStates
<1>3. /\ Rises(a.out) /\ ToSet(a.out) = SharedTo(c, n - 1)
      /\ \A m \in 1 .. a.cursor - 1, i \in n - 1 + 1 .. Len(p) : s[m] < p[i]
  BY DEF GallopAt
<1>4. /\ found => /\ Append(a.out, n) \in Seq(Int) /\ Rises(Append(a.out, n))
                  /\ ToSet(Append(a.out, n)) = SharedTo(c, n)
      /\ ~found => ToSet(a.out) = SharedTo(c, n)
  BY <1>2, <1>3, MatchAdds
<1>5. GallopStep(c, a, n) =
        IF at = {} THEN [a EXCEPT !.cursor = L + 1]
        ELSE IF s[q] = x THEN [cursor |-> q + 1, out |-> Append(a.out, n)]
        ELSE [a EXCEPT !.cursor = q]
  BY DEF GallopStep
<1>6. n \in 1 .. Len(p) /\ x \in Int
  BY <1>1
<1>7. \A i \in n + 1 .. Len(p) : p[i] \in Int /\ x < p[i]
  <2> TAKE i \in n + 1 .. Len(p)
  <2>1. i \in 1 .. Len(p) /\ n < i
    BY <1>1, <1>6
  <2> QED
    BY <1>1, <1>6, <2>1 DEF Rises
<1>8. \A m \in 1 .. a.cursor - 1 : s[m] < x
  <2>1. n \in n - 1 + 1 .. Len(p)
    BY <1>1, <1>6
  <2> QED
    BY <1>3, <2>1
<1>9. \A m \in 1 .. L : m \in at \/ s[m] < x
  <2> TAKE m \in 1 .. L
  <2>1. CASE m \in 1 .. a.cursor - 1
    BY <1>8, <2>1
  <2>2. CASE m \in a.cursor .. L
    BY <1>1, <1>6, <2>2
  <2> QED
    BY <1>1, <1>2, <2>1, <2>2
<1>10. at \subseteq 1 .. L /\ \A m \in at : s[m] >= x
  BY <1>2
<1> HIDE DEF at, found
<1>11. at # {} => q \in at /\ \A m \in at : q <= m
  <2>1. at \subseteq Int /\ IsFiniteSet(at)
    BY <1>1, <1>10, FewOf
  <2> QED
    BY <2>1, MinIs
<1> HIDE DEF q, p, s, L, x
<1>12. ASSUME NEW r \in 1 .. L + 1, \A m \in 1 .. r - 1 : s[m] <= x
       PROVE  \A m \in 1 .. r - 1, i \in n + 1 .. Len(p) : s[m] < p[i]
  <2> TAKE m \in 1 .. r - 1, i \in n + 1 .. Len(p)
  <2>1. m \in 1 .. L /\ s[m] <= x
    BY <1>1, <1>12
  <2>2. s[m] \in Int /\ p[i] \in Int /\ x < p[i]
    BY <1>1, <1>7, <2>1
  <2> QED
    BY <1>6, <2>1, <2>2
<1> DEFINE t == GallopStep(c, a, n)
<1>13. ASSUME NEW r \in 1 .. L + 1, t.cursor = r, \A m \in 1 .. r - 1 : s[m] <= x,
              Rises(t.out), ToSet(t.out) = SharedTo(c, n)
       PROVE  GallopAt(c, t, n)
  <2>1. \A m \in 1 .. r - 1, i \in n + 1 .. Len(p) : s[m] < p[i]
    BY <1>12, <1>13
  <2> HIDE DEF t
  <2> QED
    BY <1>13, <2>1 DEF GallopAt, p, s
<1>14. CASE at = {}
  <2>1. t.cursor = L + 1 /\ t.out = a.out
    BY <1>2, <1>5, <1>14
  <2>2. ~found /\ \A m \in 1 .. L : s[m] <= x
    BY <1>1, <1>6, <1>9, <1>14
  <2> DEFINE r == L + 1
  <2>3. r \in 1 .. L + 1 /\ r - 1 = L /\ t.cursor = r
    BY <1>1, <2>1
  <2> HIDE DEF t, r
  <2>4. Rises(t.out) /\ ToSet(t.out) = SharedTo(c, n)
    BY <1>3, <1>4, <2>1, <2>2
  <2> QED
    BY <1>13, <2>2, <2>3, <2>4 DEF t
<1>15. CASE at # {} /\ s[q] = x
  <2>1. t.cursor = q + 1 /\ t.out = Append(a.out, n)
    BY <1>5, <1>15
  <2>2. q \in 1 .. L /\ found
    BY <1>1, <1>10, <1>11, <1>15
  <2> DEFINE r == q + 1
  <2>3. r \in 1 .. L + 1 /\ r - 1 = q /\ t.cursor = r
    BY <1>1, <2>1, <2>2
  <2> HIDE DEF r
  <2>4. \A m \in 1 .. q : s[m] <= x
    <3> TAKE m \in 1 .. q
    <3>1. m \in 1 .. L /\ s[m] \in Int /\ s[q] \in Int
      BY <1>1, <2>2
    <3>2. m = q \/ m < q
      BY <2>2
    <3>3. m < q => s[m] < s[q]
      BY <1>1, <2>2, <3>1 DEF Rises, L
    <3> QED
      BY <1>15, <3>1, <3>2, <3>3
  <2> HIDE DEF t
  <2>5. Rises(t.out) /\ ToSet(t.out) = SharedTo(c, n)
    BY <1>4, <2>1, <2>2
  <2> QED
    BY <1>13, <2>3, <2>4, <2>5 DEF t
<1>16. CASE at # {} /\ s[q] # x
  <2>1. t.cursor = q /\ t.out = a.out
    BY <1>2, <1>5, <1>16
  <2>2. q \in 1 .. L /\ s[q] \in Int /\ s[q] > x
    <3>1. q \in 1 .. L /\ s[q] >= x
      BY <1>10, <1>11, <1>16
    <3> QED
      BY <1>1, <1>6, <1>16, <3>1
  <2>3. q \in 1 .. L + 1
    BY <1>1, <2>2
  <2>4. \A m \in 1 .. q - 1 : s[m] < x /\ s[m] \in Int
    <3> TAKE m \in 1 .. q - 1
    <3>1. m \in 1 .. L /\ ~ (q <= m)
      BY <1>1, <2>2
    <3> QED
      BY <1>1, <1>9, <1>11, <1>16, <3>1
  <2>5. ~found
    <3> SUFFICES ASSUME NEW m \in 1 .. L, s[m] = x PROVE FALSE
      BY <1>1
    <3>1. m \in at
      BY <1>1, <1>6, <1>9
    <3>2. q = m \/ q < m
      BY <1>1, <1>11, <1>16, <2>2, <3>1
    <3>3. q < m => s[q] < s[m]
      BY <1>1, <2>2 DEF Rises, L
    <3> QED
      BY <1>6, <1>16, <2>2, <3>2, <3>3
  <2> HIDE DEF t
  <2>6. Rises(t.out) /\ ToSet(t.out) = SharedTo(c, n)
    BY <1>3, <1>4, <2>1, <2>5
  <2>7. \A m \in 1 .. q - 1 : s[m] <= x
    BY <1>6, <2>4
  <2> QED
    BY <1>13, <2>1, <2>3, <2>6, <2>7 DEF t
<1> QED
  BY <1>14, <1>15, <1>16

(* The steps of galloping.                                                 *)
LEMMA GallopRuns ==
  ASSUME NEW c, IsPosting(c)
  PROVE  \E f : /\ \A n \in 0 .. Len(c.primary) : f[n] \in GallopStates(c)
                /\ f[0] = [cursor |-> 1, out |-> <<>>]
                /\ GallopOffsets(c) = f[Len(c.primary)].out
                /\ \A n \in 0 .. Len(c.primary) - 1 : f[n + 1] = GallopStep(c, f[n], n + 1)
<1> DEFINE q == Len(c.primary)
           T == GallopStates(c)
           e == [cursor |-> 1, out |-> <<>>]
           Turn(t, n) == GallopStep(c, t, n)
           G == [p \in (0 .. q - 1) \X T |-> Turn(p[2], p[1] + 1)]
           Eq(f) == f = [n \in 0 .. q |-> IF n = 0 THEN e ELSE Turn(f[n - 1], n)]
           f == CHOOSE h : Eq(h)
<1>1. e \in T /\ q \in Nat
  <2>1. 1 \in 1 .. Len(c.secondary) + 1 /\ q \in Nat /\ <<>> \in Seq(Int)
    BY PostingsRise
  <2> QED
    BY <2>1 DEF GallopStates
<1>2. IsStep(G, q, T) /\ \A n \in 0 .. q - 1, t \in T : G[<<n, t>>] = Turn(t, n + 1)
  <2>1. \A n \in 0 .. q - 1, t \in T : Turn(t, n + 1) \in T
    <3> TAKE n \in 0 .. q - 1, t \in T
    <3>1. n + 1 \in Int
      OBVIOUS
    <3> QED
      BY <3>1, GallopTyped
  <2> HIDE DEF Turn, T
  <2>2. \A p \in (0 .. q - 1) \X T : Turn(p[2], p[1] + 1) \in T
    BY <2>1
  <2> QED
    BY <2>2 DEF IsStep
<1>3. GallopOffsets(c) = f[q].out
  BY DEF GallopOffsets
<1> HIDE DEF G, T, Turn, e, q
<1>4. PICK r \in [0 .. q -> T] : IsRun(r, q, e, G)
  BY <1>1, <1>2, RunExists
<1>5. \A n \in 0 .. q - 1 : r[n] \in T /\ r[n + 1] = Turn(r[n], n + 1)
  <2>1. \A n \in 0 .. q - 1 : r[n] \in T
    BY <1>1
  <2> QED
    BY <1>2, <1>4, <2>1 DEF IsRun
<1>6. \E h : Eq(h)
  <2>1. \A n \in 0 .. q : n # 0 => n - 1 \in 0 .. q - 1 /\ n - 1 + 1 = n
    BY <1>1
  <2>2. \A n \in 0 .. q : r[n] = IF n = 0 THEN e ELSE Turn(r[n - 1], n)
    BY <1>4, <1>5, <2>1 DEF IsRun
  <2>3. r = [n \in 0 .. q |-> r[n]]
    OBVIOUS
  <2> QED
    BY <2>2, <2>3
<1>7. f = [n \in 0 .. q |-> IF n = 0 THEN e ELSE Turn(f[n - 1], n)]
  <2>1. Eq(f)
    <3> HIDE DEF Eq
    <3> QED
      BY <1>6
  <2> QED
    BY <2>1
<1> HIDE DEF f, Eq
<1>8. f[0] = e /\ \A n \in 0 .. q - 1 : f[n + 1] = Turn(f[n], n + 1)
  <2>1. f[0] = e
    BY <1>1, <1>7
  <2>2. ASSUME NEW n \in 0 .. q - 1 PROVE f[n + 1] = Turn(f[n], n + 1)
    <3> DEFINE h == n + 1
    <3>1. h \in 0 .. q /\ h # 0 /\ h - 1 = n
      BY <1>1
    <3> HIDE DEF h
    <3>2. f[h] = Turn(f[n], h)
      BY <1>7, <3>1
    <3> QED
      BY <3>2 DEF h
  <2> QED
    BY <2>1, <2>2
<1>9. \A n \in 0 .. q : f[n] \in T
  <2>1. \A n \in 0 .. q - 1 : f[n] \in T => f[n + 1] = G[<<n, f[n]>>]
    BY <1>2, <1>8
  <2> QED
    BY <1>1, <1>2, <1>8, <2>1, RunStays
<1> QED
  BY <1>3, <1>8, <1>9 DEF q, T, Turn, e

(* Galloping finds the shared places.                                      *)
LEMMA GallopMatches ==
  ASSUME NEW c, IsPosting(c)
  PROVE  IsMatch(c, GallopOffsets(c))
<1> DEFINE L == Len(c.primary)
<1>1. L \in Nat
  BY PostingsRise
<1>2. PICK f : /\ \A n \in 0 .. L : f[n] \in GallopStates(c)
               /\ f[0] = [cursor |-> 1, out |-> <<>>]
               /\ GallopOffsets(c) = f[L].out
               /\ \A n \in 0 .. L - 1 : f[n + 1] = GallopStep(c, f[n], n + 1)
  BY GallopRuns
<1> DEFINE P(n) == GallopAt(c, f[n], n)
           R == {n \in 0 .. L : P(n)}
<1>3. 0 \in R
  <2> DEFINE a == f[0]
  <2>1. a.out = <<>> /\ a.cursor - 1 = 0
    BY <1>2
  <2>2. SharedTo(c, 0) = {} /\ ToSet(<<>>) = {} /\ Rises(<<>>) /\ 1 .. 0 = {}
    BY DEF SharedTo, ToSet, Rises
  <2> HIDE DEF a
  <2>3. Rises(a.out) /\ ToSet(a.out) = SharedTo(c, 0) /\ 1 .. a.cursor - 1 = {}
    BY <2>1, <2>2
  <2>4. GallopAt(c, a, 0)
    BY <2>3 DEF GallopAt
  <2> QED
    BY <1>1, <2>4 DEF a
<1>4. ASSUME NEW n \in 0 .. L - 1, n \in R PROVE n + 1 \in R
  <2> DEFINE a == f[n]
             h == n + 1
  <2>1. n \in 0 .. L /\ h \in 0 .. L /\ h \in 1 .. L /\ h - 1 = n
    BY <1>1
  <2>2. a \in GallopStates(c) /\ f[h] = GallopStep(c, a, h)
    BY <1>2, <2>1
  <2>3. P(n)
    <3> HIDE DEF P
    <3> QED
      BY <1>4
  <2> HIDE DEF a, h
  <2>4. GallopAt(c, a, h - 1)
    BY <2>1, <2>3 DEF a
  <2>5. GallopAt(c, GallopStep(c, a, h), h)
    BY <2>1, <2>2, <2>4, GallopKeeps
  <2>6. P(h)
    BY <2>2, <2>5
  <2>7. h \in R
    BY <2>1, <2>6
  <2> QED
    BY <2>7 DEF h
<1>5. P(L)
  <2> HIDE DEF P
  <2>1. \A n \in 0 .. L : n \in R
    <3> HIDE DEF R
    <3> QED
      BY <1>1, <1>3, <1>4, CountUp
  <2> QED
    BY <1>1, <2>1
<1> DEFINE a == f[L]
<1>6. a \in GallopStates(c) /\ GallopAt(c, a, L) /\ GallopOffsets(c) = a.out
  BY <1>1, <1>2, <1>5
<1> HIDE DEF a
<1>7. SharedTo(c, L) = Shared(c)
  BY DEF SharedTo, Shared
<1> QED
  BY <1>6, <1>7 DEF GallopAt, GallopStates, IsMatch

-----------------------------------------------------------------------------
(* Merging: the rows before j are below all that is to come.               *)
MergeStates(c) ==
  [i : 1 .. Len(c.primary) + 1, j : 1 .. Len(c.secondary) + 1, out : Seq(Int)]

MergeAt(c, a) ==
  /\ Rises(a.out) /\ ToSet(a.out) = SharedTo(c, a.i - 1)
  /\ \A m \in 1 .. a.j - 1, h \in a.i .. Len(c.primary) :
       c.secondary[m] < c.primary[h]

(* One of the cursors is at its end, or together they have come n places.  *)
Come(c, a, n) ==
  a.i > Len(c.primary) \/ a.j > Len(c.secondary) \/ a.i + a.j - 2 >= n

(* A step leaves two cursors and offsets.                                  *)
LEMMA MergeTyped ==
  ASSUME NEW c, IsPosting(c), NEW a \in MergeStates(c)
  PROVE  MergeStep(c, a) \in MergeStates(c)
<1> DEFINE p == c.primary
           s == c.secondary
<1>1. /\ Len(p) \in Nat /\ Len(s) \in Nat
      /\ a.i \in 1 .. Len(p) + 1 /\ a.j \in 1 .. Len(s) + 1 /\ a.out \in Seq(Int)
      /\ a = [i |-> a.i, j |-> a.j, out |-> a.out]
      /\ \A i \in 1 .. Len(p) : p[i] \in Int
      /\ \A m \in 1 .. Len(s) : s[m] \in Int
  BY PostingsRise DEF MergeStates
<1>2. CASE a.i > Len(p) \/ a.j > Len(s)
  BY <1>2 DEF MergeStep
<1>3. CASE ~ (a.i > Len(p) \/ a.j > Len(s))
  <2> DEFINE x == p[a.i]
             y == s[a.j]
             both == [i |-> a.i + 1, j |-> a.j + 1, out |-> Append(a.out, a.i)]
  <2>1. /\ x \in Int /\ y \in Int /\ Append(a.out, a.i) \in Seq(Int)
        /\ a.i + 1 \in 1 .. Len(p) + 1 /\ a.j + 1 \in 1 .. Len(s) + 1
    BY <1>1, <1>3
  <2>2. MergeStep(c, a) = CASE x < y -> [a EXCEPT !.i = @ + 1]
                            [] y < x -> [a EXCEPT !.j = @ + 1]
                            [] x = y -> both
    BY <1>3 DEF MergeStep
  <2> HIDE DEF x, y
  <2>3. x < y \/ y < x \/ x = y
    BY <2>1
  <2>4. /\ [a EXCEPT !.i = @ + 1] \in MergeStates(c)
        /\ [a EXCEPT !.j = @ + 1] \in MergeStates(c)
    BY <1>1, <2>1 DEF MergeStates
  <2>5. both \in MergeStates(c)
    BY <1>1, <2>1 DEF MergeStates
  <2> HIDE DEF both
  <2> QED
    BY <2>2, <2>3, <2>4, <2>5
<1> QED
  BY <1>2, <1>3

(* What a step of the merge does.                                          *)
LEMMA MergeSteps ==
  ASSUME NEW c, IsPosting(c), NEW a \in MergeStates(c)
  PROVE  LET t == MergeStep(c, a)
             x == c.primary[a.i]
             y == c.secondary[a.j]
         IN \/ (a.i > Len(c.primary) \/ a.j > Len(c.secondary)) /\ t = a
            \/ /\ a.i \in 1 .. Len(c.primary) /\ a.j \in 1 .. Len(c.secondary)
               /\ \/ x < y /\ t.i = a.i + 1 /\ t.j = a.j /\ t.out = a.out
                  \/ y < x /\ t.i = a.i /\ t.j = a.j + 1 /\ t.out = a.out
                  \/ x = y /\ t.i = a.i + 1 /\ t.j = a.j + 1 /\ t.out = Append(a.out, a.i)
<1> DEFINE p == c.primary
           s == c.secondary
           x == p[a.i]
           y == s[a.j]
           t == MergeStep(c, a)
<1>1. /\ Len(p) \in Nat /\ Len(s) \in Nat
      /\ a.i \in 1 .. Len(p) + 1 /\ a.j \in 1 .. Len(s) + 1
      /\ a = [i |-> a.i, j |-> a.j, out |-> a.out]
      /\ \A i \in 1 .. Len(p) : p[i] \in Int
      /\ \A m \in 1 .. Len(s) : s[m] \in Int
  BY PostingsRise DEF MergeStates
<1>2. CASE a.i > Len(p) \/ a.j > Len(s)
  BY <1>2 DEF MergeStep
<1>3. CASE ~ (a.i > Len(p) \/ a.j > Len(s))
  <2>1. /\ a.i \in 1 .. Len(p) /\ a.j \in 1 .. Len(s) /\ x \in Int /\ y \in Int
    BY <1>1, <1>3
  <2>2. t = CASE x < y -> [a EXCEPT !.i = @ + 1]
              [] y < x -> [a EXCEPT !.j = @ + 1]
              [] x = y -> [i |-> a.i + 1, j |-> a.j + 1, out |-> Append(a.out, a.i)]
    BY <1>3 DEF MergeStep
  <2> DEFINE n == Append(a.out, a.i)
  <2> HIDE DEF x, y, t
  <2>3. CASE x < y
    <3>1. t = [a EXCEPT !.i = @ + 1]
      BY <2>1, <2>2, <2>3
    <3>2. t.i = a.i + 1 /\ t.j = a.j /\ t.out = a.out
      BY <1>1, <3>1
    <3> QED
      BY <2>1, <2>3, <3>2 DEF t, x, y
  <2>4. CASE y < x
    <3>1. t = [a EXCEPT !.j = @ + 1]
      BY <2>1, <2>2, <2>4
    <3>2. t.i = a.i /\ t.j = a.j + 1 /\ t.out = a.out
      BY <1>1, <3>1
    <3> QED
      BY <2>1, <2>4, <3>2 DEF t, x, y
  <2>5. CASE x = y
    <3>1. t = [i |-> a.i + 1, j |-> a.j + 1, out |-> n]
      BY <2>1, <2>2, <2>5
    <3> HIDE DEF n
    <3>2. t.i = a.i + 1 /\ t.j = a.j + 1 /\ t.out = n
      BY <3>1
    <3> QED
      BY <2>1, <2>5, <3>2 DEF t, x, y, n
  <2> QED
    BY <2>1, <2>3, <2>4, <2>5
<1> QED
  BY <1>2, <1>3

(* A step keeps the rows before j below, and comes one place further.      *)
LEMMA MergeKeeps ==
  ASSUME NEW c, IsPosting(c), NEW a \in MergeStates(c), MergeAt(c, a),
         NEW n \in Nat, Come(c, a, n)
  PROVE  LET t == MergeStep(c, a) IN MergeAt(c, t) /\ Come(c, t, n + 1)
<1> DEFINE p == c.primary
           s == c.secondary
           i == a.i
           j == a.j
           x == p[i]
           y == s[j]
           t == MergeStep(c, a)
           found == x \in ToSet(s)
<1>1. /\ Rises(p) /\ Rises(s) /\ Len(p) \in Nat /\ Len(s) \in Nat
      /\ \A h \in 1 .. Len(p) : p[h] \in Int
      /\ \A m \in 1 .. Len(s) : s[m] \in Int
      /\ found <=> \E m \in 1 .. Len(s) : s[m] = x
  <2>1. Rises(p) /\ Rises(s) /\ Len(p) \in Nat /\ Len(s) \in Nat
    BY PostingsRise, Zenon
  <2>2. /\ \A h \in 1 .. Len(p) : p[h] \in Int
        /\ \A m \in 1 .. Len(s) : s[m] \in Int
    BY PostingsRise, Zenon
  <2>3. \A r : r \in ToSet(s) <=> \E m \in 1 .. Len(s) : s[m] = r
    BY PostingsRise, Zenon
  <2>4. found <=> \E m \in 1 .. Len(s) : s[m] = x
    <3> HIDE DEF x, s
    <3> QED
      BY <2>3, Zenon
  <2> QED
    BY <2>1, <2>2, <2>4, Zenon
<1>2. i \in 1 .. Len(p) + 1 /\ j \in 1 .. Len(s) + 1 /\ a.out \in Seq(Int)
  BY DEF MergeStates
<1>3. /\ Rises(a.out) /\ ToSet(a.out) = SharedTo(c, i - 1)
      /\ \A m \in 1 .. j - 1, h \in i .. Len(p) : s[m] < p[h]
  BY DEF MergeAt
<1>4. i > Len(p) \/ j > Len(s) \/ i + j - 2 >= n
  BY DEF Come
<1>5. \/ (i > Len(p) \/ j > Len(s)) /\ t = a
      \/ /\ i \in 1 .. Len(p) /\ j \in 1 .. Len(s)
         /\ \/ x < y /\ t.i = i + 1 /\ t.j = j /\ t.out = a.out
            \/ y < x /\ t.i = i /\ t.j = j + 1 /\ t.out = a.out
            \/ x = y /\ t.i = i + 1 /\ t.j = j + 1 /\ t.out = Append(a.out, i)
  BY MergeSteps
<1>6. CASE i > Len(p) \/ j > Len(s)
  <2>1. t = a
    BY <1>5, <1>6
  <2> QED
    BY <1>6, <2>1 DEF Come
<1>7. CASE i \in 1 .. Len(p) /\ j \in 1 .. Len(s)
  <2>1. /\ found => /\ Append(a.out, i) \in Seq(Int) /\ Rises(Append(a.out, i))
                    /\ ToSet(Append(a.out, i)) = SharedTo(c, i)
        /\ ~found => ToSet(a.out) = SharedTo(c, i)
    BY <1>2, <1>3, <1>7, MatchAdds
  <2>2. x \in Int /\ y \in Int /\ i \in Int /\ j \in Int
    BY <1>1, <1>7
  <2>3. \A m \in 1 .. j - 1 : s[m] < x
    <3>1. i \in i .. Len(p)
      BY <1>7
    <3> QED
      BY <1>3, <3>1
  <2>4. \A m \in j + 1 .. Len(s) : y < s[m]
    <3> TAKE m \in j + 1 .. Len(s)
    <3>1. m \in 1 .. Len(s) /\ j < m
      BY <1>7
    <3> QED
      BY <1>1, <1>7, <3>1 DEF Rises
  <2>5. \A h \in i + 1 .. Len(p) : x < p[h]
    <3> TAKE h \in i + 1 .. Len(p)
    <3>1. h \in 1 .. Len(p) /\ i < h
      BY <1>7
    <3> QED
      BY <1>1, <1>7, <3>1 DEF Rises
  <2> HIDE DEF x, y, i, j, p, s, found, t
  <2>6. \A m \in 1 .. j - 1, h \in i + 1 .. Len(p) : s[m] < p[h]
    <3> TAKE m \in 1 .. j - 1, h \in i + 1 .. Len(p)
    <3>1. h \in i .. Len(p)
      BY <2>2
    <3> QED
      BY <1>3, <3>1
  <2>7. CASE x < y /\ t.i = i + 1 /\ t.j = j /\ t.out = a.out
    <3>1. ~found
      <4> SUFFICES ASSUME NEW m \in 1 .. Len(s), s[m] = x PROVE FALSE
        BY <1>1
      <4>1. m \in 1 .. j - 1 \/ m = j \/ m \in j + 1 .. Len(s)
        BY <1>7
      <4>2. m = j => s[m] = y
        BY DEF y
      <4> QED
        BY <1>1, <2>2, <2>3, <2>4, <2>7, <4>1, <4>2
    <3>2. t.i - 1 = i
      BY <2>2, <2>7
    <3>3. MergeAt(c, t)
      BY <1>3, <2>1, <2>6, <2>7, <3>1, <3>2 DEF MergeAt, p, s
    <3>4. t.i + t.j - 2 >= n + 1 \/ t.i > Len(p) \/ t.j > Len(s)
      BY <1>4, <1>7, <2>2, <2>7
    <3> QED
      BY <3>3, <3>4 DEF Come, p, s, t
  <2>8. CASE y < x /\ t.i = i /\ t.j = j + 1 /\ t.out = a.out
    <3>1. \A m \in 1 .. j, h \in i .. Len(p) : s[m] < p[h]
      <4> TAKE m \in 1 .. j, h \in i .. Len(p)
      <4>1. m \in 1 .. j - 1 \/ m = j
        BY <2>2
      <4>2. s[j] = y /\ p[i] = x
        BY DEF x, y
      <4>3. h = i \/ (h \in i + 1 .. Len(p) /\ x < p[h] /\ h \in 1 .. Len(p))
        BY <1>7, <2>2, <2>5
      <4>4. s[j] < p[h]
        BY <1>1, <2>2, <2>8, <4>2, <4>3
      <4> QED
        BY <1>3, <4>1, <4>4
    <3>2. t.j - 1 = j
      BY <2>2, <2>8
    <3>3. MergeAt(c, t)
      BY <1>3, <2>8, <3>1, <3>2 DEF MergeAt, p, s
    <3>4. t.i + t.j - 2 >= n + 1 \/ t.i > Len(p) \/ t.j > Len(s)
      BY <1>4, <1>7, <2>2, <2>8
    <3> QED
      BY <3>3, <3>4 DEF Come, p, s, t
  <2>9. CASE x = y /\ t.i = i + 1 /\ t.j = j + 1 /\ t.out = Append(a.out, i)
    <3>1. found
      BY <1>1, <1>7, <2>9 DEF y
    <3>2. \A m \in 1 .. j, h \in i + 1 .. Len(p) : s[m] < p[h]
      <4> TAKE m \in 1 .. j, h \in i + 1 .. Len(p)
      <4>1. m \in 1 .. j - 1 \/ m = j
        BY <2>2
      <4>2. s[j] = x /\ x < p[h]
        BY <2>5, <2>9 DEF y
      <4> QED
        BY <2>6, <4>1, <4>2
    <3>3. t.i - 1 = i /\ t.j - 1 = j
      BY <2>2, <2>9
    <3>4. MergeAt(c, t)
      BY <2>1, <2>9, <3>1, <3>2, <3>3 DEF MergeAt, p, s
    <3>5. t.i + t.j - 2 >= n + 1 \/ t.i > Len(p) \/ t.j > Len(s)
      BY <1>4, <1>7, <2>2, <2>9
    <3> QED
      BY <3>4, <3>5 DEF Come, p, s, t
  <2>10. \/ x < y /\ t.i = i + 1 /\ t.j = j /\ t.out = a.out
         \/ y < x /\ t.i = i /\ t.j = j + 1 /\ t.out = a.out
         \/ x = y /\ t.i = i + 1 /\ t.j = j + 1 /\ t.out = Append(a.out, i)
    BY <1>1, <1>5, <1>7
  <2> QED
    BY <2>7, <2>8, <2>9, <2>10 DEF t
<1> QED
  BY <1>5, <1>6, <1>7

(* The places of both postings.                                            *)
LEMMA BothAre ==
  ASSUME NEW c, IsPosting(c)
  PROVE  Len(c.primary) + Len(c.secondary) \in Nat
<1> DEFINE m == Len(c.primary)
           n == Len(c.secondary)
<1>1. m \in Nat /\ n \in Nat
  BY PostingsRise
<1> HIDE DEF m, n
<1>2. m + n \in Nat
  BY <1>1
<1> QED
  BY <1>2 DEF m, n

(* The steps of the merge.                                                 *)
LEMMA MergeRuns ==
  ASSUME NEW c, IsPosting(c)
  PROVE  LET most == Len(c.primary) + Len(c.secondary)
         IN \E f : /\ \A n \in 0 .. most : f[n] \in MergeStates(c)
                   /\ f[0] = [i |-> 1, j |-> 1, out |-> <<>>]
                   /\ MergeOffsets(c) = f[most].out
                   /\ \A n \in 0 .. most - 1 : f[n + 1] = MergeStep(c, f[n])
<1> DEFINE q == Len(c.primary) + Len(c.secondary)
           T == MergeStates(c)
           e == [i |-> 1, j |-> 1, out |-> <<>>]
           Turn(t) == MergeStep(c, t)
           G == [p \in (0 .. q - 1) \X T |-> Turn(p[2])]
           Eq(f) == f = [n \in 0 .. q |-> IF n = 0 THEN e ELSE Turn(f[n - 1])]
           f == CHOOSE h : Eq(h)
<1>1. e \in T /\ q \in Nat
  <2>1. Len(c.primary) \in Nat /\ Len(c.secondary) \in Nat
    BY PostingsRise
  <2>2. /\ 1 \in 1 .. Len(c.primary) + 1 /\ 1 \in 1 .. Len(c.secondary) + 1
        /\ <<>> \in Seq(Int)
    BY <2>1
  <2>3. q \in Nat
    BY BothAre
  <2> QED
    BY <2>2, <2>3 DEF MergeStates
<1>2. IsStep(G, q, T) /\ \A n \in 0 .. q - 1, t \in T : G[<<n, t>>] = Turn(t)
  <2>1. \A t \in T : Turn(t) \in T
    BY MergeTyped
  <2> HIDE DEF Turn, T
  <2>2. \A p \in (0 .. q - 1) \X T : Turn(p[2]) \in T
    BY <2>1
  <2> QED
    BY <2>2 DEF IsStep
<1>3. MergeOffsets(c) = f[q].out
  BY DEF MergeOffsets
<1> HIDE DEF G, T, Turn, e, q
<1>4. PICK r \in [0 .. q -> T] : IsRun(r, q, e, G)
  BY <1>1, <1>2, RunExists
<1>5. \A n \in 0 .. q - 1 : r[n] \in T /\ r[n + 1] = Turn(r[n])
  <2>1. \A n \in 0 .. q - 1 : r[n] \in T
    BY <1>1
  <2> QED
    BY <1>2, <1>4, <2>1 DEF IsRun
<1>6. \E h : Eq(h)
  <2>1. \A n \in 0 .. q : n # 0 => n - 1 \in 0 .. q - 1 /\ n - 1 + 1 = n
    BY <1>1
  <2>2. \A n \in 0 .. q : r[n] = IF n = 0 THEN e ELSE Turn(r[n - 1])
    BY <1>4, <1>5, <2>1 DEF IsRun
  <2>3. r = [n \in 0 .. q |-> r[n]]
    OBVIOUS
  <2> QED
    BY <2>2, <2>3
<1>7. f = [n \in 0 .. q |-> IF n = 0 THEN e ELSE Turn(f[n - 1])]
  <2>1. Eq(f)
    <3> HIDE DEF Eq
    <3> QED
      BY <1>6
  <2> QED
    BY <2>1
<1> HIDE DEF f, Eq
<1>8. f[0] = e /\ \A n \in 0 .. q - 1 : f[n + 1] = Turn(f[n])
  <2>1. f[0] = e
    BY <1>1, <1>7
  <2>2. ASSUME NEW n \in 0 .. q - 1 PROVE f[n + 1] = Turn(f[n])
    <3> DEFINE h == n + 1
    <3>1. h \in 0 .. q /\ h # 0 /\ h - 1 = n
      BY <1>1
    <3> HIDE DEF h
    <3>2. f[h] = Turn(f[n])
      BY <1>7, <3>1
    <3> QED
      BY <3>2 DEF h
  <2> QED
    BY <2>1, <2>2
<1>9. \A n \in 0 .. q : f[n] \in T
  <2>1. \A n \in 0 .. q - 1 : f[n] \in T => f[n + 1] = G[<<n, f[n]>>]
    BY <1>2, <1>8
  <2> QED
    BY <1>1, <1>2, <1>8, <2>1, RunStays
<1> QED
  BY <1>3, <1>8, <1>9 DEF q, T, Turn, e

(* The merge finds the shared places.                                      *)
LEMMA MergeMatches ==
  ASSUME NEW c, IsPosting(c)
  PROVE  IsMatch(c, MergeOffsets(c))
<1> DEFINE q == Len(c.primary) + Len(c.secondary)
<1>1. q \in Nat /\ Len(c.primary) \in Nat /\ Len(c.secondary) \in Nat
  <2>1. Len(c.primary) \in Nat /\ Len(c.secondary) \in Nat
    BY PostingsRise
  <2> QED
    BY <2>1, BothAre
<1>2. PICK f : /\ \A n \in 0 .. q : f[n] \in MergeStates(c)
               /\ f[0] = [i |-> 1, j |-> 1, out |-> <<>>]
               /\ MergeOffsets(c) = f[q].out
               /\ \A n \in 0 .. q - 1 : f[n + 1] = MergeStep(c, f[n])
  BY MergeRuns
<1> HIDE DEF q
<1> DEFINE P(n) == MergeAt(c, f[n]) /\ Come(c, f[n], n)
           R == {n \in 0 .. q : P(n)}
<1>3. 0 \in R
  <2> DEFINE a == f[0]
  <2>1. a.out = <<>> /\ a.i - 1 = 0 /\ a.j - 1 = 0 /\ a.i + a.j - 2 >= 0
    BY <1>2
  <2>2. SharedTo(c, 0) = {} /\ ToSet(<<>>) = {} /\ Rises(<<>>) /\ 1 .. 0 = {}
    BY DEF SharedTo, ToSet, Rises
  <2> HIDE DEF a
  <2>3. Rises(a.out) /\ ToSet(a.out) = SharedTo(c, a.i - 1) /\ 1 .. a.j - 1 = {}
    BY <2>1, <2>2
  <2>4. MergeAt(c, a) /\ Come(c, a, 0)
    BY <2>1, <2>3 DEF MergeAt, Come
  <2> QED
    BY <1>1, <2>4 DEF a
<1>4. ASSUME NEW n \in 0 .. q - 1, n \in R PROVE n + 1 \in R
  <2> DEFINE a == f[n]
             h == n + 1
  <2>1. n \in 0 .. q /\ h \in 0 .. q /\ n \in Nat
    BY <1>1
  <2>2. a \in MergeStates(c) /\ f[h] = MergeStep(c, a)
    BY <1>2, <2>1
  <2>3. P(n)
    <3> HIDE DEF P
    <3> QED
      BY <1>4
  <2> HIDE DEF a
  <2>4. MergeAt(c, a) /\ Come(c, a, n)
    BY <2>3 DEF a
  <2> DEFINE t == MergeStep(c, a)
  <2>5. MergeAt(c, t) /\ Come(c, t, n + 1)
    BY <2>1, <2>2, <2>4, MergeKeeps
  <2> HIDE DEF t
  <2>6. f[h] = t
    BY <2>2 DEF t
  <2>7. P(h)
    BY <2>5, <2>6
  <2> HIDE DEF P
  <2> QED
    BY <2>1, <2>7
<1>5. P(q)
  <2> HIDE DEF P
  <2>1. \A n \in 0 .. q : n \in R
    <3> HIDE DEF R
    <3> QED
      BY <1>1, <1>3, <1>4, CountUp
  <2> QED
    BY <1>1, <2>1
<1> DEFINE a == f[q]
<1>6. a \in MergeStates(c) /\ MergeAt(c, a) /\ Come(c, a, q) /\ MergeOffsets(c) = a.out
  BY <1>1, <1>2, <1>5
<1> HIDE DEF a
<1>7. /\ a.i \in 1 .. Len(c.primary) + 1 /\ a.j \in 1 .. Len(c.secondary) + 1
      /\ a.out \in Seq(Int)
      /\ Rises(a.out) /\ ToSet(a.out) = SharedTo(c, a.i - 1)
      /\ \A m \in 1 .. a.j - 1, h \in a.i .. Len(c.primary) :
           c.secondary[m] < c.primary[h]
  BY <1>6 DEF MergeStates, MergeAt
<1> DEFINE i == a.i
           j == a.j
           m == Len(c.primary)
           n == Len(c.secondary)
<1>8. /\ i \in 1 .. m + 1 /\ j \in 1 .. n + 1 /\ m \in Nat /\ n \in Nat
      /\ i > m \/ j > n \/ i + j - 2 >= m + n
  <2>1. i > m \/ j > n \/ i + j - 2 >= m + n
    BY <1>6 DEF Come, q
  <2> QED
    BY <1>1, <1>7, <2>1
<1> HIDE DEF i, j, m, n
<1>9. (i > m \/ j > n) /\ (i > m => i - 1 = m) /\ (j > n => j - 1 = n)
  BY <1>8
<1>10. SharedTo(c, i - 1) = Shared(c)
  <2>1. Shared(c) \subseteq 1 .. m
    BY DEF Shared, m
  <2>2. CASE i > m
    BY <1>9, <2>1, <2>2 DEF SharedTo
  <2>3. CASE j > n
    <3>1. ASSUME NEW h \in Shared(c) PROVE h \in 1 .. i - 1
      <4>1. h \in 1 .. m /\ c.primary[h] \in ToSet(c.secondary)
        BY DEF Shared, m
      <4>2. PICK l \in 1 .. n : c.secondary[l] = c.primary[h]
        BY <4>1, PostingsRise DEF n
      <4>3. l \in 1 .. j - 1 /\ c.primary[h] \in Int
        BY <1>9, <2>3, <4>1, PostingsRise DEF m
      <4>4. h \notin i .. m
        BY <1>7, <4>2, <4>3 DEF i, j, m
      <4> QED
        BY <1>8, <4>1, <4>4
    <3> QED
      BY <3>1 DEF SharedTo
  <2> QED
    BY <1>9, <2>2, <2>3
<1> QED
  BY <1>6, <1>7, <1>10 DEF IsMatch, i

(* Whatever the strategy, it finds the shared places.                      *)
LEMMA MatchesAre ==
  ASSUME NEW c, IsPosting(c), NEW strategy \in Strategies
  PROVE  IsMatch(c, Matches(c, strategy))
<1>1. strategy \in {"bitmap", "merge", "gallop"}
  BY DEF Strategies
<1>2. CASE strategy = "bitmap"
  BY <1>2, BitmapMatches DEF Matches
<1>3. CASE strategy = "merge"
  BY <1>3, MergeMatches DEF Matches
<1>4. CASE strategy = "gallop"
  BY <1>4, GallopMatches DEF Matches
<1> QED
  BY <1>1, <1>2, <1>3, <1>4

(* The rows at the shared places are the common rows, ascending.           *)
LEMMA MatchedRows ==
  ASSUME NEW c, IsPosting(c), NEW m, IsMatch(c, m)
  PROVE  LET ids == [n \in 1 .. Len(m) |-> c.primary[m[n]]]
         IN /\ \A n \in 1 .. Len(m) : m[n] \in 1 .. Len(c.primary)
            /\ ids \in Seq(Int) /\ IsRows(c, ids) /\ Len(ids) = Len(m)
            /\ ToSet(ids) = ToSet(c.primary) \cap ToSet(c.secondary)
<1> DEFINE p == c.primary
           ids == [n \in 1 .. Len(m) |-> p[m[n]]]
           D == ToSet(p)
           l == Len(m)
<1>1. m \in Seq(Int) /\ Rises(m) /\ ToSet(m) = Shared(c) /\ l \in Nat
  BY DEF IsMatch
<1>2. Rises(p) /\ Len(p) \in Nat /\ \A i \in 1 .. Len(p) : p[i] \in Int
  BY PostingsRise
<1>3. D = {p[i] : i \in 1 .. Len(p)}
  <2>1. p \in Seq(Int)
    BY DEF IsPosting
  <2> HIDE DEF p
  <2> QED
    BY <2>1 DEF ToSet
<1>4. \A i \in 1 .. Len(p) : i \in Shared(c) <=> p[i] \in ToSet(c.secondary)
  BY DEF Shared
<1>5. Shared(c) \subseteq 1 .. Len(p)
  BY DEF Shared
<1>6. ToSet(m) = {m[n] : n \in 1 .. l}
  BY <1>1 DEF ToSet
<1> HIDE DEF p, l, D
<1>7. \A n \in 1 .. l : m[n] \in Shared(c) /\ m[n] \in 1 .. Len(p)
  BY <1>1, <1>5, <1>6
<1>8. \A n \in 1 .. l : p[m[n]] \in D
  BY <1>3, <1>7
<1>9. ids \in Seq(D) /\ ids \in Seq(Int) /\ Len(ids) = l /\ \A n \in 1 .. l : ids[n] = p[m[n]]
  <2>1. ids \in [1 .. l -> D] /\ ids \in [1 .. l -> Int]
    BY <1>2, <1>7, <1>8 DEF l
  <2>2. \A n \in 1 .. l : ids[n] = p[m[n]]
    BY DEF l
  <2> HIDE DEF ids
  <2> QED
    BY <1>1, <2>1, <2>2
<1> HIDE DEF ids
<1>10. Rises(ids)
  <2> SUFFICES ASSUME NEW i \in 1 .. l, NEW j \in 1 .. l, i < j PROVE ids[i] < ids[j]
    BY <1>9 DEF Rises
  <2>1. m[i] < m[j]
    BY <1>1 DEF Rises, l
  <2> QED
    BY <1>2, <1>7, <1>9, <2>1 DEF Rises
<1>11. ToSet(ids) = ToSet(p) \cap ToSet(c.secondary)
  <2>1. ToSet(ids) = {ids[n] : n \in 1 .. l}
    BY <1>9 DEF ToSet
  <2>2. ASSUME NEW n \in 1 .. l PROVE ids[n] \in D /\ ids[n] \in ToSet(c.secondary)
    BY <1>4, <1>7, <1>8, <1>9
  <2>3. ASSUME NEW x \in D, x \in ToSet(c.secondary) PROVE \E n \in 1 .. l : ids[n] = x
    <3>1. PICK i \in 1 .. Len(p) : p[i] = x
      BY <1>3
    <3>2. i \in ToSet(m)
      BY <1>1, <1>4, <2>3, <3>1
    <3>3. PICK n \in 1 .. l : m[n] = i
      BY <1>6, <3>2
    <3> QED
      BY <1>9, <3>1, <3>3
  <2> QED
    BY <2>1, <2>2, <2>3 DEF D
<1> QED
  BY <1>7, <1>9, <1>10, <1>11 DEF IsRows, D, l, p, ids

(* A place of a posting that offsets can name is its own offset.           *)
LEMMA Offset16Is ==
  ASSUME NEW n \in 0 .. MaximumPrimarySupport - 1
  PROVE  Offset16(n) = n
<1>1. MaximumPrimarySupport \in Nat \ {0} /\ n \in Nat /\ n < MaximumPrimarySupport
  BY PairAssumption
<1>2. n % MaximumPrimarySupport = n
  BY <1>1
<1> QED
  BY <1>2 DEF Offset16

(* No more elements rise than there are numbers for them.                  *)
LEMMA RisesBelow ==
  ASSUME NEW s \in Seq(Int), Rises(s), NEW n \in Nat, ToSet(s) \subseteq 1 .. n
  PROVE  Len(s) <= n
<1> DEFINE l == Len(s)
           N == 1 .. l
           T == {s[i] : i \in N}
           M == 1 .. n
<1>1. l \in Nat /\ T \subseteq M
  BY DEF ToSet
<1>2. \A i, j \in N : s[i] = s[j] => i = j
  BY RisesStrict DEF Distinct
<1> HIDE DEF l
<1>3. IsFiniteSet(N) /\ Cardinality(N) = l /\ IsFiniteSet(M) /\ Cardinality(M) = n
  BY <1>1, FS_Interval
<1> HIDE DEF N, M
<1>4. IsFiniteSet(T) /\ Cardinality(T) = Cardinality(N)
  BY <1>2, <1>3, ImageCard
<1> HIDE DEF T
<1>5. Cardinality(T) <= Cardinality(M)
  BY <1>1, <1>3, FS_Subset
<1> QED
  BY <1>3, <1>4, <1>5 DEF l

(* Offsets of a posting that they can name are accepted, and lead back to  *)
(* the rows they are for.                                                  *)
LEMMA OffsetsLeadBack ==
  ASSUME NEW c, IsPosting(c), NEW m, IsMatch(c, m), Len(c.primary) <= MaximumPrimarySupport
  PROVE  LET offsets == [n \in 1 .. Len(m) |-> Offset16(m[n] - 1)]
             ids == [n \in 1 .. Len(m) |-> c.primary[m[n]]]
         IN /\ AcceptedPacked(c, offsets) /\ Named(c, offsets) = ids
            /\ \A n \in 1 .. Len(m) : c.primary[offsets[n] + 1] = ids[n]
<1> DEFINE l == Len(m)
           p == c.primary
           o == [n \in 1 .. l |-> Offset16(m[n] - 1)]
           ids == [n \in 1 .. l |-> p[m[n]]]
<1>1. m \in Seq(Int) /\ Rises(m) /\ l \in Nat /\ ToSet(m) = Shared(c)
  BY DEF IsMatch
<1>2. Len(p) \in Nat /\ Strict(p) /\ ToSet(p) \subseteq DOMAIN c.base
  <2>1. Len(p) \in Nat
    BY PostingsRise
  <2> QED
    BY <2>1 DEF IsPosting
<1>3. \A n \in 1 .. l : m[n] \in 1 .. Len(p) /\ m[n] \in Int
  <2>1. \A n \in 1 .. l : m[n] \in 1 .. Len(p)
    BY MatchedRows
  <2> QED
    BY <1>1, <2>1
<1>4. Len(p) <= MaximumPrimarySupport /\ MaximumPrimarySupport \in Nat
  BY PairAssumption
<1>5. l <= Len(p)
  <2>1. ToSet(m) \subseteq 1 .. Len(p)
    BY <1>1 DEF Shared
  <2> QED
    BY <1>1, <1>2, <2>1, RisesBelow
<1> HIDE DEF p, l
<1>6. \A n \in 1 .. l : Offset16(m[n] - 1) = m[n] - 1
  <2> TAKE n \in 1 .. l
  <2>1. m[n] - 1 \in 0 .. MaximumPrimarySupport - 1
    BY <1>2, <1>3, <1>4
  <2> QED
    BY <2>1, Offset16Is
<1>7. o \in [1 .. l -> Int] /\ \A n \in 1 .. l : o[n] = m[n] - 1
  BY <1>3, <1>6
<1> HIDE DEF o
<1>8. o \in Seq(Int) /\ Len(o) = l
  BY <1>1, <1>7
<1>9. Strict(o)
  <2> SUFFICES ASSUME NEW n \in 2 .. l PROVE o[n - 1] < o[n]
    BY <1>8 DEF Strict
  <2>1. n - 1 \in 1 .. l /\ n \in 1 .. l /\ n - 1 < n
    BY <1>1
  <2>2. m[n - 1] < m[n]
    BY <1>1, <2>1 DEF Rises, l
  <2> DEFINE h == n - 1
  <2> HIDE DEF h
  <2>3. h \in 1 .. l /\ m[h] < m[n]
    BY <2>1, <2>2 DEF h
  <2>4. o[h] < o[n]
    BY <1>3, <1>7, <2>1, <2>3
  <2> QED
    BY <2>4 DEF h
<1>10. ToSet(o) \subseteq 0 .. Len(p) - 1
  <2>1. ToSet(o) = {o[n] : n \in 1 .. l}
    BY <1>7 DEF ToSet
  <2>2. \A n \in 1 .. l : o[n] \in 0 .. Len(p) - 1
    BY <1>2, <1>3, <1>7
  <2> QED
    BY <2>1, <2>2
<1>11. AcceptedPacked(c, o)
  BY <1>2, <1>4, <1>5, <1>8, <1>9, <1>10 DEF AcceptedPacked, Accepted, p
<1>12. \A n \in 1 .. l : p[o[n] + 1] = ids[n] /\ p[o[n] + 1] = p[m[n]]
  <2> TAKE n \in 1 .. l
  <2>1. o[n] + 1 = m[n]
    BY <1>3, <1>7
  <2> QED
    BY <2>1
<1>13. Named(c, o) = ids
  <2>1. Named(c, o) = [n \in 1 .. l |-> p[o[n] + 1]]
    BY <1>8 DEF Named, p
  <2> QED
    BY <1>12, <2>1
<1> QED
  BY <1>11, <1>12, <1>13 DEF o, p, l

(* Every intersection, and every scan over it, is that of the common rows. *)
LEMMA PairAnswers ==
  ASSUME NEW c, IsPosting(c), NEW s \in Strategies
  PROVE  LET r == PairResult(c, s)
         IN /\ ToSet(r.support) = Common(c) /\ Strict(r.support)
            /\ r.answers = {NearestOfPair(c)}
<1> DEFINE m == Matches(c, s)
           l == Len(m)
           ids == [n \in 1 .. l |-> c.primary[m[n]]]
           o == [n \in 1 .. l |-> Offset16(m[n] - 1)]
           near == NearestRows(c, ToSet(ids))
           back == [n \in DOMAIN ids |-> c.primary[o[n] + 1]]
<1>1. GlobalIds(c, s) = ids /\ LocalOffsets(c, s) = o
  BY DEF GlobalIds, LocalOffsets
<1>2. IsMatch(c, m)
  BY MatchesAre
<1> HIDE DEF m
<1>3. /\ ids \in Seq(Int) /\ IsRows(c, ids)
      /\ ToSet(ids) = ToSet(c.primary) \cap ToSet(c.secondary)
  BY <1>2, MatchedRows
<1>4. Strict(ids)
  <2> HIDE DEF ids
  <2> QED
    BY <1>3, RisesStrict DEF IsRows
<1>5. Len(c.primary) <= MaximumPrimarySupport =>
        /\ AcceptedPacked(c, o) /\ Named(c, o) = ids
        /\ \A n \in 1 .. l : c.primary[o[n] + 1] = ids[n]
  BY <1>2, OffsetsLeadBack
<1>6. ids = [n \in 1 .. l |-> ids[n]] /\ DOMAIN ids = 1 .. l
  OBVIOUS
<1> HIDE DEF ids, o, near, l
<1>7. ToSet(ids) = Common(c)
  BY <1>3 DEF Common
<1>8. NearestOfPair(c) = near
  BY <1>7 DEF NearestOfPair, NearestRows, near
<1>9. ScanGlobalIds(c, ids) = near
  <2> DEFINE none == {}
             t == Answer(c, Sweep(c, FALSE, none, <<>>, ids))
  <2>1. none \in SUBSET (0 .. Len(c.order)) /\ FALSE \in BOOLEAN
    OBVIOUS
  <2>2. ScanGlobalIds(c, ids) = t
    BY DEF ScanGlobalIds
  <2> HIDE DEF none
  <2>3. t = NearestRows(c, ToSet(ids))
    BY <1>3, <2>1, SweepAnswers
  <2> QED
    BY <2>2, <2>3 DEF near
<1>10. CASE Scratch(c) = "global32"
  <2>1. PairResult(c, s) = [support |-> ids, answers |-> {near}]
    BY <1>1, <1>9, <1>10 DEF PairResult
  <2> QED
    BY <1>4, <1>7, <1>8, <2>1
<1>11. CASE Scratch(c) # "global32"
  <2>1. Len(c.primary) <= MaximumPrimarySupport
    BY <1>11 DEF Scratch
  <2>2. AcceptedPacked(c, o) /\ Named(c, o) = ids
        /\ \A n \in 1 .. l : c.primary[o[n] + 1] = ids[n]
    BY <1>5, <2>1
  <2>3. back = ids
    BY <1>6, <2>2
  <2>4. /\ ScanExact(c, o) = near /\ ScanBounded(c, o) = near
        /\ ScanPacked(c, o) = near /\ ScanPackedBounded(c, o) = near
        /\ ScanPackedBounded32(c, o) = near
        /\ ScanBlock16(c, o) = near /\ ScanPrefix128(c, o) = near
    BY <1>3, <2>2, ScansAnswer DEF near
  <2>5. CheckedScans(c, s) = {near}
    BY <1>1, <2>2, <2>4 DEF CheckedScans
  <2>6. PairResult(c, s) = [support |-> back, answers |-> CheckedScans(c, s) \cup {near}]
    BY <1>1, <1>9, <1>11 DEF PairResult
  <2> HIDE DEF back
  <2>7. PairResult(c, s) = [support |-> ids, answers |-> {near}]
    BY <2>3, <2>5, <2>6
  <2> QED
    BY <1>4, <1>7, <1>8, <2>7
<1> QED
  BY <1>10, <1>11

-----------------------------------------------------------------------------
(* The kernel of the pairs answers once, with what its strategies give.    *)
PairsAreSound ==
  kernel = "pair" =>
    /\ "pair" \in DOMAIN Calls /\ call \in Calls["pair"]
    /\ result # Unanswered =>
         result = [pc |-> "done",
                   chosen |-> ChosenStrategy(call),
                   complement |-> ComplementStrategy(call),
                   of |-> [s \in Strategies |-> PairResult(call, s)]]

(* What the kernel of the pairs answers is what its strategies give.       *)
THEOREM PairsStaySound == Spec => []PairsAreSound
<1>1. Init => PairsAreSound
  BY DEF Init, PairsAreSound
<1>2. PairsAreSound /\ [Next]_vars => PairsAreSound'
  <2> SUFFICES ASSUME PairsAreSound, Next, kernel' = "pair"
               PROVE  PairsAreSound'
    BY DEF PairsAreSound, vars
  <2>1. kernel = "pair" /\ UNCHANGED <<kernel, call>> /\ CallPair
    BY StepsOfKernels
  <2> QED
    BY <2>1 DEF PairsAreSound, CallPair
<1> QED
  BY <1>1, <1>2, PTL DEF Spec

(* Whatever the two postings, the rows, the order of the packed groups and *)
(* k: the bitmap, the merge and galloping find the rows common to both,    *)
(* ascending, and the offsets of a posting no longer than they can name    *)
(* are accepted and lead back to them; and the full, bounded, packed,      *)
(* blockwise and prefix scans all answer with the k nearest of the common  *)
(* rows, ties by row, so that no partial sum cuts one of them short        *)
(* (pair_offset16_kernel.h, its block16 and its prefix128 kernels).        *)
THEOREM PairExact == Spec => []PairIsExact
<1>1. PairsAreSound => PairIsExact
  <2> SUFFICES ASSUME PairsAreSound, Done, kernel = "pair", NEW s \in Strategies
               PROVE  /\ ToSet(result.of[s].support) = Common(call)
                      /\ Strict(result.of[s].support)
                      /\ result.of[s].answers = {NearestOfPair(call)}
    BY DEF PairIsExact
  <2>1. result # Unanswered
    BY DEF Done, Unanswered
  <2>2. /\ "pair" \in DOMAIN Calls /\ call \in Calls["pair"]
        /\ result.of[s] = PairResult(call, s)
    BY <2>1 DEF PairsAreSound
  <2>3. IsPosting(call)
    BY <2>2, PostingAssumption DEF IsPosting
  <2> QED
    BY <2>2, <2>3, PairAnswers
<1> QED
  BY <1>1, PairsStaySound, PTL

=============================================================================
