-------------------------- MODULE CategoricalPasses --------------------------
(***************************************************************************)
(* The pass barrier of the categorical executor: after every timed pass it *)
(* publishes the raw results and then a ready record, each written under a *)
(* partial name, synced, linked and unlinked, and waits for a release that *)
(* leads to an acknowledgement of both.  The directory outlives the        *)
(* program, which may die and be started again, and the machine may crash. *)
(*                                                                         *)
(* A state a holds the position of the program (pc, pass, kind), the       *)
(* attempt, the directory as it is seen (seen) and as a crash would leave  *)
(* it (kept), the contents that are on the disk (flushed), and the CSV     *)
(* files that exist (csv).  A digest is the content it is of.  A call c    *)
(* holds the passes whose results are not right, whether all attempts have *)
(* one run token and one CSV path, and whether the supervisor, which is    *)
(* external, publishes a release in one step.                              *)
(***************************************************************************)
EXTENDS Integers, SequencesExt, FiniteSets

CONSTANTS
  PassRuns,       (* n_runs, passes over the query batch                   *)
  Attempts        (* times the program is started                          *)

ASSUME PassAssumption ==
  PassRuns \in Nat \ {0} /\ Attempts \in Nat \ {0}

Final(p, kind) == <<p, kind, "final">>
Draft(p, kind) == <<p, kind, "partial">>

Torn == [what |-> "torn"]

Put(files, name, x) ==
  [n \in DOMAIN files \cup {name} |-> IF n = name THEN x ELSE files[n]]

Token(c, attempt) == IF c.oneToken THEN 1 ELSE attempt
CsvPath(c, attempt) == IF c.oneCsv THEN 1 ELSE attempt

(* What this attempt writes; its wall time tells it from any other.        *)
PassContent(c, a, kind) ==
  [what |-> kind, pass |-> a.pass, by |-> a.attempt, good |-> a.pass \notin c.bad]

Attempted(c, attempt, a) ==
  IF CsvPath(c, attempt) \in a.csv
  THEN [a EXCEPT !.pc = "failed", !.attempt = attempt, !.pass = 1]
  ELSE [a EXCEPT !.pc = "timing", !.attempt = attempt, !.pass = 1,
                 !.csv = @ \cup {CsvPath(c, attempt)}]

BarrierStart(c) ==
  Attempted(c, 1, [pc |-> "failed", pass |-> 1, kind |-> "raw", attempt |-> 0,
                   seen |-> <<>>, kept |-> <<>>, flushed |-> {}, csv |-> {}])

-----------------------------------------------------------------------------
(* The program.                                                            *)

InTheWay(a) ==
  {Draft(a.pass, "raw"), Final(a.pass, "raw"), Draft(a.pass, "ready"),
   Final(a.pass, "ready"), Final(a.pass, "release")}

(* Write the partial file and durable_publish_no_replace it.               *)
Publication(c, a) ==
  LET draft == Draft(a.pass, a.kind)
      final == Final(a.pass, a.kind)
  IN CASE a.pc = "write" ->
            [a EXCEPT !.pc = "sync",
                      !.seen = Put(@, draft, PassContent(c, a, a.kind))]
       [] a.pc = "sync" ->
            [a EXCEPT !.pc = "link", !.flushed = @ \cup {a.seen[draft]}]
       [] a.pc = "link" ->
            IF final \in DOMAIN a.seen THEN [a EXCEPT !.pc = "failed"]
            ELSE [a EXCEPT !.pc = "settle", !.seen = Put(@, final, @[draft])]
       [] a.pc = "settle" -> [a EXCEPT !.pc = "unlink", !.kept = a.seen]
       [] a.pc = "unlink" ->
            [a EXCEPT !.pc = "settled",
                      !.seen = Restrict(@, DOMAIN @ \ {draft})]
       [] a.pc = "settled" ->
            [a EXCEPT !.pc = IF a.kind = "raw" THEN "write" ELSE "waiting",
                      !.kind = "ready", !.kept = a.seen]

Publishing == {"write", "sync", "link", "settle", "unlink", "settled"}

(* The release names the acknowledgement, which names what was published.  *)
BarrierReleased(c, a) ==
  LET release == a.seen[Final(a.pass, "release")]
      ack == a.seen[Final(a.pass, "ack")]
      token == Token(c, a.attempt)
  IN /\ release.what = "release"
     /\ release.token = token /\ release.pass = a.pass
     /\ Final(a.pass, "ack") \in DOMAIN a.seen
     /\ ack.what = "ack" /\ ack.token = token /\ ack.pass = a.pass /\ ack.good
     /\ ack.raw = a.seen[Final(a.pass, "raw")]
     /\ ack.ready = a.seen[Final(a.pass, "ready")]
     /\ ack.ready = PassContent(c, a, "ready")
     /\ release.ack = ack

(* Nothing of the pass may be there when its results are.                  *)
PassTimed(a) ==
  [a EXCEPT !.pc = IF InTheWay(a) \cap DOMAIN a.seen = {} THEN "write" ELSE "failed",
            !.kind = "raw"]

PassStep(c, a) ==
  CASE a.pc = "timing" -> {PassTimed(a)}
    [] a.pc \in Publishing -> {Publication(c, a)}
    [] a.pc = "waiting" /\ Final(a.pass, "release") \in DOMAIN a.seen ->
         {IF ~BarrierReleased(c, a) THEN [a EXCEPT !.pc = "failed"]
          ELSE IF a.pass = PassRuns THEN [a EXCEPT !.pc = "done"]
          ELSE [a EXCEPT !.pc = "timing", !.pass = @ + 1]}
    [] OTHER -> {}

(* An exception, the barrier's timeout or a kill, and a later attempt.     *)
PassEnds(a) ==
  IF a.pc \in {"failed", "done"} THEN {} ELSE {[a EXCEPT !.pc = "failed"]}

AttemptAgain(c, a) ==
  IF a.pc = "failed" /\ a.attempt < Attempts
  THEN {Attempted(c, a.attempt + 1, a)} ELSE {}

-----------------------------------------------------------------------------
(* The supervisors of all attempts so far, and the machine.                *)

AckOf(c, attempt, raw, ready, p) ==
  [what |-> "ack", token |-> Token(c, attempt), pass |-> p,
   raw |-> raw, ready |-> ready,
   good |-> raw # Torn /\ ready # Torn /\ raw.good]

Acknowledge(c, a) ==
  {[a EXCEPT !.seen = Put(@, Final(p, "ack"),
        AckOf(c, s, @[Final(p, "raw")], @[Final(p, "ready")], p))] :
     s \in 1 .. a.attempt,
     p \in {p \in 1 .. PassRuns :
              /\ {Final(p, "raw"), Final(p, "ready")} \subseteq DOMAIN a.seen
              /\ Final(p, "ack") \notin DOMAIN a.seen}}

Released(c, a, p, s) ==
  [what |-> "release", token |-> Token(c, s), pass |-> p,
   ack |-> a.seen[Final(p, "ack")]]

(* A release that is not published in one step is read torn for a while.   *)
ReleasePass(c, a) ==
  LET Acked == {p \in 1 .. PassRuns : Final(p, "ack") \in DOMAIN a.seen}
      Absent(p) == Final(p, "release") \notin DOMAIN a.seen
      Begun(p) == ~Absent(p) /\ a.seen[Final(p, "release")] = Torn
      With(p, r) == [a EXCEPT !.seen = Put(@, Final(p, "release"), r)]
  IN {With(p, Released(c, a, p, s)) :
        s \in 1 .. a.attempt,
        p \in {p \in Acked : IF c.atomic THEN Absent(p) ELSE Begun(p)}}
     \cup {With(p, Torn) : p \in {p \in Acked : ~c.atomic /\ Absent(p)}}

(* The directory with the changes of the names in new and of no other.     *)
Changed(a, new) ==
  LET Of(n) == IF n \in new THEN a.seen ELSE a.kept
      left == {n \in DOMAIN a.seen \cup DOMAIN a.kept : n \in DOMAIN Of(n)}
  IN [n \in left |-> Of(n)[n]]

Tear(d, torn) == [n \in DOMAIN d |-> IF n \in torn THEN Torn ELSE d[n]]

Fallen(a, d, csv) ==
  [a EXCEPT !.pc = "failed", !.seen = d, !.kept = d, !.csv = csv]

(* A crash keeps of every name that is not settled either state of it, and *)
(* may tear what was not synced.                                           *)
CrashMachine(a) ==
  LET settled == {n \in DOMAIN a.seen \cap DOMAIN a.kept : a.seen[n] = a.kept[n]}
      unsettled == (DOMAIN a.seen \cup DOMAIN a.kept) \ settled
      Unsynced(d) == {n \in DOMAIN d : d[n] \notin a.flushed}
      remains == UNION {{Tear(Changed(a, new), torn) :
                           torn \in SUBSET Unsynced(Changed(a, new))} :
                          new \in SUBSET unsettled}
  IN {Fallen(a, d, csv) : d \in remains, csv \in SUBSET a.csv}

=============================================================================
