---------------------------- MODULE RangeProvider ----------------------------
(***************************************************************************)
(* The stages of the hierarchical range bench as a child of its            *)
(* supervisor: each stage's raw files and summary are published once, and  *)
(* the next stage runs only on a release that leads, by digests, to an     *)
(* audit of just these files.  A digest is the content it is of.  A call c *)
(* holds the coordinate of the process, the stages whose results an audit  *)
(* finds wrong, and the files an earlier attempt has left.  The supervisor *)
(* is external: it audits honestly, but any of its documents may come.     *)
(***************************************************************************)
EXTENDS Integers, SequencesExt, FiniteSets

CONSTANT LastStage      (* stages are 0 (Q16) to LastStage (6, PASS_6)     *)

ASSUME StageAssumption == LastStage \in Nat

RawKinds == <<"ids", "distances", "summary">>

(* What this process writes; a summary holds the digests of the raw files. *)
Content(c, s, kind) ==
  [by |-> "child", stage |-> s, kind |-> kind, good |-> s \notin c.bad]

LeftContent(s, kind) ==
  [by |-> "earlier", stage |-> s, kind |-> kind, good |-> TRUE]

LeftFiles(c) == [leaf \in c.left |-> LeftContent(leaf[1], leaf[2])]

Created(files, leaf, x) ==
  [n \in DOMAIN files \cup {leaf} |-> IF n = leaf THEN x ELSE files[n]]

(* O_EXCL, then the digest of what is read back.                           *)
Publish(c, s, a, kind) ==
  IF a.pc = "failed" \/ <<s, kind>> \in DOMAIN a.files
  THEN [a EXCEPT !.pc = "failed"]
  ELSE [a EXCEPT !.files = Created(@, <<s, kind>>, Content(c, s, kind))]

PublishStage(c, a) ==
  FoldLeft(LAMBDA acc, kind : Publish(c, a.stage, acc, kind),
           [a EXCEPT !.pc = "ready"], RawKinds)

-----------------------------------------------------------------------------
(* The supervisor's documents.                                             *)

BindingsOf(files, s) ==
  [k \in ToSet(RawKinds) |->
     IF <<s, k>> \in DOMAIN files THEN files[<<s, k>>] ELSE LeftContent(s, k)]

AuditOf(coordinate, s, raw) ==
  [coordinate |-> coordinate, stage |-> s, raw |-> raw,
   valid |-> \A k \in DOMAIN raw : raw[k].good]

(* Audits of this process's files, and of those another one has published  *)
(* under the same names.                                                   *)
Audits(c, a) ==
  {AuditOf(c.coordinate, s, BindingsOf(a.files, s)) : s \in 0 .. a.stage}
    \cup {AuditOf(c.other, s, BindingsOf(LeftFiles(c), s)) : s \in 0 .. a.stage}
    \cup {AuditOf(c.other, s, BindingsOf(a.files, s)) : s \in {a.stage}}

Acks(audits) ==
  {[stem |-> u.stage, valid |-> u.valid, raw |-> u.raw, audit |-> u] : u \in audits}

Releases(acks) ==
  {[stem |-> k.stem, action |-> action, durable |-> durable, ack |-> k] :
     k \in acks, action \in {"START_NEXT_STAGE", "STOP"}, durable \in BOOLEAN}

(* The digest in a message may be that of another release.                 *)
Messages(c, a) ==
  LET releases == Releases(Acks(Audits(c, a))) IN
  {[event |-> event, stage |-> a.stage - d, leaf |-> r.stem, digest |-> r, file |-> r] :
     event \in {"RELEASE", "ABORT"}, d \in {0, 1}, r \in releases}
    \cup {[event |-> "RELEASE", stage |-> a.stage, leaf |-> a.stage,
           digest |-> r, file |-> f] : r \in releases, f \in releases}

-----------------------------------------------------------------------------

(* Faulty validation: what the audit found is not looked at.               *)
ValidateReleaseUnread(c, a, m) ==
  /\ m.event = "RELEASE" /\ m.stage = a.stage /\ m.leaf = a.stage
  /\ m.file = m.digest /\ m.file.stem = a.stage
  /\ m.file.action = "START_NEXT_STAGE" /\ m.file.durable
  /\ m.file.ack.raw = BindingsOf(a.files, a.stage)

(* Message, release, acknowledgement, audit: each is found by the digest   *)
(* the one before it holds, and each must be of this stage.                *)
ValidateRelease(c, a, m) ==
  LET ack == m.file.ack
      raw == BindingsOf(a.files, a.stage)
  IN /\ m.event = "RELEASE" /\ m.stage = a.stage /\ m.leaf = a.stage
     /\ m.file = m.digest
     /\ m.file.stem = a.stage
     /\ m.file.action = "START_NEXT_STAGE" /\ m.file.durable
     /\ ack.stem = a.stage /\ ack.valid /\ ack.raw = raw
     /\ ack.audit.coordinate = c.coordinate /\ ack.audit.stage = a.stage
     /\ ack.audit.valid /\ ack.audit.raw = raw

ProviderStart(c) ==
  [pc |-> "running", stage |-> 0, files |-> LeftFiles(c), accepted |-> {}]

(* The message is taken: the next stage, the end, or a closed failure.     *)
TakeRelease(c, a, m) ==
  IF ~ValidateRelease(c, a, m) THEN [a EXCEPT !.pc = "failed"]
  ELSE [a EXCEPT !.accepted = @ \cup {a.stage}, !.stage = @ + 1,
                 !.pc = IF a.stage = LastStage THEN "done" ELSE "running"]

=============================================================================
