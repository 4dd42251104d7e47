------------------------------ MODULE EliasFano ------------------------------
(***************************************************************************)
(* The Elias-Fano codec of a support and the scan that decodes it row by   *)
(* row into a ring of pending ids.  The low bits of the ids are packed     *)
(* into words, each id's high bits are one bit of a second stream at       *)
(* high part + index; both streams end at a word.  An object holds rows,   *)
(* lower, the place of the high stream and the words.  Capacity and        *)
(* pointer checks, the processor and its rounding mode are left out.       *)
(***************************************************************************)
EXTENDS RetainedTop

CONSTANTS
  EFUniverse,     (* kEfUniverse, 1 000 000                                *)
  WordBits,       (* 64                                                    *)
  PendingCapacity,(* kEfPendingCapacity, 32                                *)
  Lanes           (* kRetainedInterleaveRows, 8                            *)

ASSUME EFAssumption ==
  /\ EFUniverse \in Nat \ {0} /\ WordBits \in Nat \ {0}
  /\ Lanes \in Nat \ {0} /\ PendingCapacity \in Nat
  /\ Lanes <= PendingCapacity

EfOk == 0
BadArgument == -2
BadInputOrder == -3
CorruptDirectory == -5
CorruptPayload == -6
SupportBelowK == -7
NonfiniteDistance == -8

RoundUp(bits) == (bits + WordBits - 1) \div WordBits

LowerBits(rows) ==
  Max({0} \cup {b \in 1 .. 20 : 2 ^ b <= EFUniverse \div rows})

Account(rows) ==
  LET b == LowerBits(rows) IN
  [lower |-> b,
   lowBits |-> rows * b,
   highBits |-> (EFUniverse \div 2 ^ b) + rows,
   lowWords |-> RoundUp(rows * b),
   highWords |-> RoundUp((EFUniverse \div 2 ^ b) + rows)]

AllZero(n) == <<>> \o [w \in 1 .. n |-> 0]

Bit(words, p) == (words[p \div WordBits + 1] \div 2 ^ (p % WordBits)) % 2

(* One id goes into a low word, into the next one if it does not fit, and  *)
(* into one bit of the high stream.                                        *)
PutLow(words, at, lower, id) ==
  LET w == at \div WordBits + 1
      shift == at % WordBits
      low == id % 2 ^ lower
      first == [words EXCEPT ![w] = @ + ((low * 2 ^ shift) % 2 ^ WordBits)]
  IN IF lower = 0 THEN words
     ELSE IF shift + lower > WordBits
     THEN [first EXCEPT ![w + 1] = @ + (low \div 2 ^ (WordBits - shift))]
     ELSE first

SetBit(words, p) ==
  IF Bit(words, p) = 1 THEN words
  ELSE [words EXCEPT ![p \div WordBits + 1] = @ + 2 ^ (p % WordBits)]

Encode(ids) ==
  LET a == Account(Len(ids))
      words == FoldLeft(LAMBDA ws, n :
                 SetBit(PutLow(ws, (n - 1) * a.lower, a.lower, ids[n]),
                        WordBits * a.lowWords
                          + ids[n] \div 2 ^ a.lower + n - 1),
                 AllZero(a.lowWords + a.highWords),
                 [n \in 1 .. Len(ids) |-> n])
  IN [rows |-> Len(ids), lower |-> a.lower, high |-> a.lowWords,
      words |-> words]

OrderedIds(ids) ==
  ToSet(ids) \subseteq 0 .. EFUniverse - 1
  /\ \A n \in 2 .. Len(ids) : ids[n - 1] < ids[n]

EncodeSorted(ids) ==
  IF ids = <<>> THEN [status |-> BadArgument]
  ELSE IF ~OrderedIds(ids) THEN [status |-> BadInputOrder]
  ELSE [status |-> EfOk, object |-> Encode(ids)]

(* One id per step, the lower head of the two, both on a match.            *)
UnionStep(l, r, a) ==
  IF a.i > Len(l) /\ a.j > Len(r) THEN a
  ELSE LET left == IF a.i > Len(l) THEN EFUniverse ELSE l[a.i]
           right == IF a.j > Len(r) THEN EFUniverse ELSE r[a.j]
           id == Min({left, right})
       IN [i |-> IF left = id THEN a.i + 1 ELSE a.i,
           j |-> IF right = id THEN a.j + 1 ELSE a.j,
           out |-> Append(a.out, id)]

EncodeUnion(l, r) ==
  IF l = <<>> \/ r = <<>> THEN [status |-> BadArgument]
  ELSE IF ~OrderedIds(l) \/ ~OrderedIds(r) THEN [status |-> BadInputOrder]
  ELSE [status |-> EfOk,
        object |-> Encode(FoldLeft(LAMBDA a, n : UnionStep(l, r, a),
                                   [i |-> 1, j |-> 1, out |-> <<>>],
                                   l \o r).out)]

-----------------------------------------------------------------------------

DirectoryIsValid(o) ==
  /\ o.rows \in 1 .. EFUniverse
  /\ LET a == Account(o.rows)
     IN o.lower = a.lower /\ o.high = a.lowWords
        /\ o.high + a.highWords <= Len(o.words)

LowPart(o, n) ==
  LET at == n * o.lower
      w == at \div WordBits + 1
      shift == at % WordBits
      next == IF shift + o.lower > WordBits
              THEN o.words[w + 1] * 2 ^ (WordBits - shift) ELSE 0
  IN IF o.lower = 0 THEN 0
     ELSE ((o.words[w] \div 2 ^ shift) + next) % 2 ^ o.lower

(* The bits set in the high stream, in order, as positions in it.          *)
HighOnes(o) ==
  LET p == {n \in 0 .. WordBits * Account(o.rows).highWords - 1 :
              Bit(o.words, WordBits * o.high + n) = 1}
  IN Ascending(p)

(* The n-th id, None where the decoder gives up.                           *)
NoId == -1

DecodedId(o, ones, n) ==
  LET p == ones[n + 1]
      id == (p - n) * 2 ^ o.lower + LowPart(o, n)
  IN IF n >= Len(ones) \/ p < n \/ p >= Account(o.rows).highBits
        \/ id >= EFUniverse
     THEN NoId ELSE id

(* Faulty end: what follows the last row is not looked at.                 *)
EndIsCleanRows(o, ones) == Len(ones) >= o.rows

(* Nothing is left in the high stream, nor in the padding of the low one.  *)
EndIsClean(o, ones) ==
  LET used == Account(o.rows).lowBits % WordBits
  IN Len(ones) = o.rows
     /\ (used # 0 => o.words[o.high] < 2 ^ used)

DecodedIds(o) ==
  FoldLeft(LAMBDA a, n :
             LET id == DecodedId(o, HighOnes(o), n)
             IN IF a.status # EfOk THEN a
                ELSE IF id = NoId \/ (a.ids # <<>> /\ id <= Last(a.ids))
                THEN [a EXCEPT !.status = CorruptPayload]
                ELSE [a EXCEPT !.ids = Append(@, id)],
           [status |-> EfOk, ids |-> <<>>], [n \in 1 .. o.rows |-> n - 1])

Validate(o) ==
  IF ~DirectoryIsValid(o) THEN CorruptDirectory
  ELSE IF DecodedIds(o).status # EfOk \/ ~EndIsClean(o, HighOnes(o))
  THEN CorruptPayload ELSE EfOk

(* A first pass validates the object, a second one fills the output.       *)
Decode(o) ==
  IF Validate(o) # EfOk THEN [status |-> Validate(o), ids |-> <<>>]
  ELSE DecodedIds(o)

-----------------------------------------------------------------------------
(* The ring of pending ids: scored in batches once it is full.             *)

Stream == [ring |-> [n \in 0 .. PendingCapacity - 1 |-> NoId], begin |-> 0,
           count |-> 0, best |-> {}, scored |-> 0, status |-> 0]

Scored(c, s, x) ==
  IF s.status # 0 THEN s
  ELSE IF c.dist[x] < 0 THEN [s EXCEPT !.status = NonfiniteDistance]
  ELSE [s EXCEPT !.best = Retain(c, @, TopK + 1, x)]

(* The front of the ring, up to n ids of it, leaves together.              *)
ScoreFront(c, s, n) ==
  LET t == FoldLeft(LAMBDA a, lane :
                      Scored(c, a, s.ring[(s.begin + lane) % PendingCapacity]),
                    s, [lane \in 1 .. n |-> lane - 1])
  IN IF t.status # 0 THEN t
     ELSE [t EXCEPT !.begin = (@ + n) % PendingCapacity, !.count = @ - n,
                    !.scored = @ + n]

AppendId(c, s, x) ==
  LET t == [s EXCEPT !.ring[(s.begin + s.count) % PendingCapacity] = x,
                     !.count = @ + 1]
  IN IF t.count = PendingCapacity THEN ScoreFront(c, t, Lanes) ELSE t

(* Whole batches, then one id at a time.                                   *)
Drained(c, s) ==
  FoldLeft(LAMBDA t, n :
             IF t.status # 0 \/ t.count = 0 THEN t
             ELSE ScoreFront(c, t, IF t.count >= Lanes THEN Lanes
                                   ELSE 1),
           s, [n \in 1 .. PendingCapacity |-> n])

(* Ids as they are decoded, the query's own one left out.                  *)
Streamed(c, o) ==
  FoldLeft(LAMBDA s, n :
             LET id == DecodedId(o, HighOnes(o), n)
                 stale == s.last # NoId /\ id <= s.last
             IN IF s.status # 0 THEN s
                ELSE IF id = NoId \/ stale \/ id >= c.rows
                THEN [s EXCEPT !.status = CorruptPayload]
                ELSE IF id = c.self THEN [s EXCEPT !.last = id]
                ELSE [AppendId(c, s, id) EXCEPT !.last = id,
                                                !.kept = s.kept + 1],
           Stream @@ [last |-> NoId, kept |-> 0],
           [n \in 1 .. o.rows |-> n - 1])

ScanTop10(c, o) ==
  IF ~DirectoryIsValid(o) THEN Out(CorruptDirectory, {}, 0)
  ELSE LET s == Streamed(c, o)
           t == Drained(c, s)
       IN IF s.status # 0 THEN Out(s.status, {}, 0)
          ELSE IF ~EndIsClean(o, HighOnes(o)) THEN Out(CorruptPayload, {}, 0)
          ELSE IF s.kept < TopK THEN Out(SupportBelowK, {}, 0)
          ELSE IF t.status # 0 THEN Out(t.status, {}, 0)
          ELSE Out(0, NearestIds(c, t.best, TopK), t.scored)

=============================================================================
