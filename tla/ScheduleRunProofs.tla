-------------------------- MODULE ScheduleRunProofs --------------------------
(***************************************************************************)
(* Proofs about ScheduleRun, for every file, every limit and every width: the  *)
(* verifier accepts exactly the well-formed files, and what it accepts is      *)
(* typed in order, in the time announced, and stopped within a slice.          *)
(***************************************************************************)
EXTENDS ScheduleRun, Induction, TLAPS

-----------------------------------------------------------------------------
(* The inductive invariant *)

\* Places by what the task does there.
Verifying == {"header", "digest", "records"}
Running == Waiting \union {"fetch", "press", "release"}
Ended == {"abort", "ending", "disarm", "done"}

\* What each step of the verifier has established.
HeaderSound ==
  LET h == image.header IN
  /\ h.fixed /\ h.job /\ h.characters # 0
  /\ h.count \in 1 .. MaxRecords /\ h.payload = h.count * RecordBytes
  /\ image.size = HeaderBytes + h.count * RecordBytes /\ image.size <= MaxEncodedBytes

DigestSound == image.digest /\ image.header.count >= 3

RecordSound(r) ==
  /\ r.fixed /\ r.before <= MaxDelay /\ r.after <= MaxDelay /\ r.hold = HoldUs
  /\ KeyOf(r) \in Key
  /\ "unknown" \notin r.flags /\ "release" \in r.flags
  /\ "source" \in r.flags <=> "technical" \notin r.flags
  /\ "cleanup" \in r.flags => "technical" \in r.flags

\* The record k, counted from 1, is in its place.
PlaceSound(k) ==
  LET r == image.records[k]  first == image.header.count - 3 IN
  /\ r.source <= image.header.characters
  /\ "source" \in r.flags => r.source # 0
  /\ "cleanup" \in r.flags <=> k > first
  /\ k > first => KeyOf(r) = Cleanup[k - first]
  /\ \A i \in 1 .. k : image.records[i].source <= r.source

\* The loop has been through the first index records.
Scanned ==
  /\ index <= image.header.count
  /\ \A k \in 1 .. index : RecordSound(image.records[k]) /\ PlaceSound(k)
  /\ total = Sum(image.records, index)
  /\ previous = IF index = 0 THEN 0 ELSE image.records[index].source

VerifierKnown ==
  /\ image \in Images
  /\ verdict = "none" <=> pc \in Verifying
  /\ verdict \notin {"none", "OK"} => pc = "done"
  /\ pc \in {"digest", "records"} => HeaderSound
  /\ pc = "records" => DigestSound /\ Scanned
  /\ pc \in {"header", "digest"} => index = 0 /\ previous = 0 /\ total = 0

\* Before an accepted file is run nothing is typed, and no time passes.
QuietKnown ==
  pc \in Verifying \union {"arm"} \/ verdict # "OK" =>
    /\ outcome = "none" /\ typed = <<>> /\ ~down /\ left = 0
    /\ progress = [source |-> 0, records |-> 0]

\* How far the run is, at each place of the loop and after it.
PlaceKnown ==
  /\ outcome # "none" <=> pc \in Ended /\ verdict = "OK"
  /\ pc \in {"arm", "countdown"} => index = 0
  /\ pc = "countdown" => seconds > 0
  /\ pc \in {"before", "press", "hold", "release", "after"} => index < image.header.count
  /\ verdict = "OK" => index <= image.header.count
  /\ pc \in {"countdown", "fetch", "before", "press"} =>
       Len(typed) = index /\ progress.records = index /\ ~down
  /\ pc \in {"hold", "release"} => Len(typed) = index + 1 /\ progress.records = index
  /\ pc = "after" => Len(typed) = index + 1 /\ progress.records = index + 1 /\ ~down

ProgressKnown ==
  progress.source =
    IF progress.records = 0 THEN 0 ELSE image.records[progress.records].source

\* These ticks are us microseconds, rounded up at so many waits.
Spent(ticks, us, waits) ==
  us <= ticks * TickUs /\ ticks * TickUs <= us + waits * (TickUs - 1)

\* What the run will have spent by the end of the wait under way.
Due(us, waits) == Spent((wake + left) - started, us, waits)

\* The records that are done, and the part of the one in hand, account for the time.
TimeKnown ==
  LET done == Sum(image.records, index) IN
  /\ pc \notin Waiting => wake = now
  /\ pc \in {"fetch", "press", "release"} => left = 0
  /\ pc = "fetch" => Due(done, 3 * index)
  /\ pc \in {"before", "press"} => Due(done + Record.before, 3 * index + 1)
  /\ pc \in {"hold", "release"} => Due(done + Record.before + Record.hold, 3 * index + 2)
  /\ pc = "after" => Due(Sum(image.records, index + 1), 3 * index + 3)
  /\ outcome = "COMPLETED" =>
       /\ left = 0
       /\ Due(Sum(image.records, image.header.count), 3 * image.header.count)

\* The flag stays up from the request to the end of the run, and no sleep begins.
StopKnown ==
  /\ stoppedAt # -1 /\ pc \in Running => stop
  /\ stoppedAt # -1 /\ pc \in Waiting => wake - stoppedAt <= SliceTicks

IInv ==
  /\ TypeOK
  /\ VerifierKnown
  /\ VerdictIsRight
  /\ QuietKnown
  /\ PlaceKnown
  /\ ProgressKnown
  /\ TypedAsVerified
  /\ TimeKnown
  /\ StopKnown

-----------------------------------------------------------------------------
(* The lists of checks *)

\* A set of numbers that is not empty has a least one, which is its Min.
LEMMA MinIsLeast ==
  ASSUME NEW S \in SUBSET Nat, S # {}
  PROVE  Min(S) \in S
<1>1. \E x \in S : \A y \in S : ~(<<y, x>> \in OpToRel(<, Nat))
  BY NatLessThanWellFounded, WFMin, Zenon
<1>2. PICK x \in S : \A y \in S : ~(y < x) BY <1>1 DEF OpToRel
<1>3. x \in S /\ \A y \in S : x <= y BY <1>2
<1>4. QED BY <1>3 DEF Min

\* The errors a check may name.
Errors == Protocol \ {"none", "OK"}

\* A list of checks passes if each of them holds, and otherwise names one that does not.
LEMMA FirstErrorFinds ==
  ASSUME NEW n \in Nat, NEW checks, DOMAIN checks = 1 .. n
  PROVE  \/ FirstError(checks) = "OK" /\ \A k \in 1 .. n : checks[k][1]
         \/ \E k \in 1 .. n : ~checks[k][1] /\ FirstError(checks) = checks[k][2]
<1> DEFINE failed == {k \in DOMAIN checks : ~checks[k][1]}
<1>1. CASE failed = {}
  <2>1. FirstError(checks) = "OK" BY <1>1 DEF FirstError
  <2>2. \A k \in 1 .. n : checks[k][1] BY <1>1
  <2>3. QED BY <2>1, <2>2
<1>2. CASE failed # {}
  <2>1. FirstError(checks) = checks[Min(failed)][2] BY <1>2 DEF FirstError
  <2>2. failed \in SUBSET Nat OBVIOUS
  <2>3. Min(failed) \in failed
    <3> HIDE DEF failed
    <3>1. QED BY <1>2, <2>2, MinIsLeast
  <2>4. QED BY <2>1, <2>3
<1>3. QED BY <1>1, <1>2

\* What the verifier's lists say, each in the words of the invariant.
LEMMA SizeErrorFinds ==
  /\ SizeError \in Errors \union {"OK"}
  /\ image.size >= HeaderBytes /\ image.size <= MaxEncodedBytes <=> SizeError = "OK"
<1> DEFINE checks == <<<<image.size >= HeaderBytes, "HEADER_INVALID">>,
                       <<image.size <= MaxEncodedBytes, "SCHEDULE_LIMIT_EXCEEDED">>>>
<1>1. DOMAIN checks = 1 .. 2 OBVIOUS
<1>2. /\ checks[1][1] <=> image.size >= HeaderBytes
      /\ checks[2][1] <=> image.size <= MaxEncodedBytes
      /\ checks[1][2] = "HEADER_INVALID" /\ checks[2][2] = "SCHEDULE_LIMIT_EXCEEDED"
  OBVIOUS
<1> HIDE DEF checks
<1>3. \/ FirstError(checks) = "OK" /\ \A k \in 1 .. 2 : checks[k][1]
      \/ \E k \in 1 .. 2 : ~checks[k][1] /\ FirstError(checks) = checks[k][2]
  BY <1>1, FirstErrorFinds
<1>4. QED BY <1>2, <1>3 DEF SizeError, Errors, Protocol, checks
\* The sizes of a file are numbers, and its header is of the type it is read as.
LEMMA FileTyped ==
  ASSUME NEW file \in Images
  PROVE  /\ HeaderBytes \in Nat /\ RecordBytes \in Nat \ {0} /\ file.size \in Nat
         /\ file.header.count \in 0 .. U32Max /\ file.header.payload \in 0 .. U32Max
         /\ file.header.characters \in 0 .. U32Max /\ file.header.duration \in 0 .. U64Max
         /\ file.header.fixed \in BOOLEAN /\ file.header.job \in BOOLEAN
         /\ file.digest \in BOOLEAN
         /\ \A n \in Nat : n * RecordBytes \in Nat
BY ImagesAssumption, LimitsAssumption, WidthAssumption

LEMMA HeaderErrorFinds ==
  ASSUME image \in Images
  PROVE  /\ HeaderError \in Errors \union {"OK"}
         /\ SizeError = "OK" => (HeaderError = "OK" <=> HeaderSound)
<1> DEFINE h == image.header
           payload == h.count * RecordBytes
           checks == <<
    <<h.fixed, "HEADER_INVALID">>,
    <<h.count \in 1 .. MaxRecords, "SCHEDULE_LIMIT_EXCEEDED">>,
    <<payload <= U32Max, "INTEGER_OVERFLOW">>,
    <<h.payload = payload, "ACTION_COUNT_MISMATCH">>,
    <<HeaderBytes + payload <= U64Max, "INTEGER_OVERFLOW">>,
    <<HeaderBytes + payload = image.size, "PAYLOAD_SIZE_INVALID">>,
    <<HeaderBytes + payload <= MaxEncodedBytes, "SCHEDULE_LIMIT_EXCEEDED">>,
    <<h.characters # 0, "SOURCE_INDEX_INVALID">>,
    <<h.job, "JOB_ID_INVALID">>>>
<1>1. DOMAIN checks = 1 .. 9 OBVIOUS
<1>2. /\ checks[1][1] <=> h.fixed
      /\ checks[2][1] <=> h.count \in 1 .. MaxRecords
      /\ checks[3][1] <=> payload <= U32Max
      /\ checks[4][1] <=> h.payload = payload
      /\ checks[5][1] <=> HeaderBytes + payload <= U64Max
      /\ checks[6][1] <=> HeaderBytes + payload = image.size
      /\ checks[7][1] <=> HeaderBytes + payload <= MaxEncodedBytes
      /\ checks[8][1] <=> h.characters # 0
      /\ checks[9][1] <=> h.job
  BY FileTyped
<1>3. \A k \in 1 .. 9 : checks[k][2] \in Errors BY DEF Errors, Protocol
<1>4. HeaderError = FirstError(checks) BY DEF HeaderError
<1> HIDE DEF checks
<1>5. \/ FirstError(checks) = "OK" /\ \A k \in 1 .. 9 : checks[k][1]
      \/ \E k \in 1 .. 9 : ~checks[k][1] /\ FirstError(checks) = checks[k][2]
  BY <1>1, FirstErrorFinds
<1>6. /\ HeaderError \in Errors \union {"OK"}
      /\ HeaderError = "OK" <=> \A k \in 1 .. 9 : checks[k][1]
  BY <1>3, <1>4, <1>5 DEF Errors, Protocol
<1>7. (\A k \in 1 .. 9 : checks[k][1]) <=>
        /\ checks[1][1] /\ checks[2][1] /\ checks[3][1] /\ checks[4][1] /\ checks[5][1]
        /\ checks[6][1] /\ checks[7][1] /\ checks[8][1] /\ checks[9][1]
  OBVIOUS
<1>8. payload \in Nat /\ HeaderBytes \in Nat /\ U32Max \in Nat /\ U64Max \in Nat
        /\ HeaderBytes + U32Max <= U64Max /\ h.payload \in 0 .. U32Max /\ image.size \in Nat
  BY FileTyped, WidthAssumption
<1>9. SizeError = "OK" => image.size <= MaxEncodedBytes BY SizeErrorFinds
<1>10. SizeError = "OK" => (HeaderError = "OK" <=> HeaderSound)
  <2> SUFFICES ASSUME SizeError = "OK"
               PROVE  (\A k \in 1 .. 9 : checks[k][1]) <=> HeaderSound
    BY <1>6
  <2> HIDE DEF payload
  <2>1. HeaderSound <=>
          /\ h.fixed /\ h.job /\ h.characters # 0
          /\ h.count \in 1 .. MaxRecords /\ h.payload = payload
          /\ image.size = HeaderBytes + payload /\ image.size <= MaxEncodedBytes
    BY DEF HeaderSound, payload
  <2>2. QED BY <2>1, <1>2, <1>7, <1>8, <1>9
<1>11. QED BY <1>6, <1>10
LEMMA DigestErrorFinds ==
  ASSUME image \in Images
  PROVE  LET error == FirstError(<<<<image.digest, "CHECKSUM_MISMATCH">>,
                        <<image.header.count >= 3, "FINAL_CLEANUP_INVALID">>>>)
         IN  error \in Errors \union {"OK"} /\ (error = "OK" <=> DigestSound)
<1> DEFINE checks == <<<<image.digest, "CHECKSUM_MISMATCH">>,
                       <<image.header.count >= 3, "FINAL_CLEANUP_INVALID">>>>
<1>1. DOMAIN checks = 1 .. 2 OBVIOUS
<1>2. /\ checks[1][1] <=> image.digest
      /\ checks[2][1] <=> image.header.count >= 3
      /\ checks[1][2] = "CHECKSUM_MISMATCH" /\ checks[2][2] = "FINAL_CLEANUP_INVALID"
  BY FileTyped
<1> HIDE DEF checks
<1>3. \/ FirstError(checks) = "OK" /\ \A k \in 1 .. 2 : checks[k][1]
      \/ \E k \in 1 .. 2 : ~checks[k][1] /\ FirstError(checks) = checks[k][2]
  BY <1>1, FirstErrorFinds
<1>4. /\ FirstError(checks) \in Errors \union {"OK"}
      /\ FirstError(checks) = "OK" <=> DigestSound
  BY <1>2, <1>3 DEF DigestSound, Errors, Protocol
<1>5. QED BY <1>4 DEF checks

\* So is each of its records.
LEMMA RecordTyped ==
  ASSUME NEW file \in Images, NEW k \in DOMAIN file.records
  PROVE  LET r == file.records[k] IN
         /\ r.before \in 0 .. U32Max /\ r.hold \in 0 .. U32Max /\ r.after \in 0 .. U32Max
         /\ r.source \in 0 .. U32Max /\ r.fixed \in BOOLEAN /\ r.flags \subseteq Flag
         /\ DurationOf(r) \in Nat
<1> DEFINE r == file.records[k]
<1>1. /\ {r.before, r.hold, r.after, r.source} \subseteq 0 .. U32Max
      /\ r.fixed \in BOOLEAN /\ r.flags \subseteq Flag
  BY ImagesAssumption
<1>2. U32Max \in Nat BY WidthAssumption
<1> HIDE DEF r
<1>3. DurationOf(r) \in Nat BY <1>1, <1>2 DEF DurationOf
<1>4. QED BY <1>1, <1>3 DEF r

LEMMA RecordErrorFinds ==
  ASSUME NEW r, r.fixed \in BOOLEAN
  PROVE  /\ RecordError(r) \in Errors \union {"OK"}
         /\ RecordError(r) = "OK" <=> RecordSound(r)
<1> DEFINE checks == <<
    <<r.fixed, "FLAGS_INVALID">>,
    <<r.before <= MaxDelay /\ r.after <= MaxDelay /\ r.hold = HoldUs, "DELAY_INVALID">>,
    <<r.modifier \in Modifiers, "MODIFIER_INVALID">>,
    <<r.keycode \in Keycodes, "KEYCODE_UNSUPPORTED">>,
    <<"unknown" \notin r.flags /\ "release" \in r.flags, "FLAGS_INVALID">>,
    <<Classes(r) \in {{"source"}, {"technical"}}, "FLAGS_INVALID">>,
    <<"cleanup" \in r.flags => "technical" \in r.flags, "FLAGS_INVALID">>>>
<1>1. DOMAIN checks = 1 .. 7 OBVIOUS
<1>2. /\ checks[1][1] <=> r.fixed
      /\ checks[2][1] <=> r.before <= MaxDelay /\ r.after <= MaxDelay /\ r.hold = HoldUs
      /\ checks[3][1] <=> r.modifier \in Modifiers
      /\ checks[4][1] <=> r.keycode \in Keycodes
      /\ checks[5][1] <=> "unknown" \notin r.flags /\ "release" \in r.flags
      /\ checks[6][1] <=> Classes(r) \in {{"source"}, {"technical"}}
      /\ checks[7][1] <=> ("cleanup" \in r.flags => "technical" \in r.flags)
  OBVIOUS
<1>3. \A k \in 1 .. 7 : checks[k][2] \in Errors BY DEF Errors, Protocol
<1>4. RecordError(r) = FirstError(checks) BY DEF RecordError
<1> HIDE DEF checks
<1>5. \/ FirstError(checks) = "OK" /\ \A k \in 1 .. 7 : checks[k][1]
      \/ \E k \in 1 .. 7 : ~checks[k][1] /\ FirstError(checks) = checks[k][2]
  BY <1>1, FirstErrorFinds
<1>6. /\ RecordError(r) \in Errors \union {"OK"}
      /\ RecordError(r) = "OK" <=> \A k \in 1 .. 7 : checks[k][1]
  BY <1>3, <1>4, <1>5 DEF Errors, Protocol
<1>7. (\A k \in 1 .. 7 : checks[k][1]) <=>
        /\ checks[1][1] /\ checks[2][1] /\ checks[3][1] /\ checks[4][1] /\ checks[5][1]
        /\ checks[6][1] /\ checks[7][1]
  OBVIOUS
<1>8. KeyOf(r) \in Key <=> r.modifier \in Modifiers /\ r.keycode \in Keycodes
  BY DEF KeyOf, Key
<1>9. Classes(r) \in {{"source"}, {"technical"}}
        <=> ("source" \in r.flags <=> "technical" \notin r.flags)
  <2>1. \A s : s \in Classes(r) <=> s \in r.flags /\ s \in {"source", "technical"}
    BY DEF Classes
  <2>2. ASSUME Classes(r) \in {{"source"}, {"technical"}}
        PROVE  "source" \in r.flags <=> "technical" \notin r.flags
    BY <2>1, <2>2
  <2>3. ASSUME "source" \in r.flags, "technical" \notin r.flags
        PROVE  Classes(r) = {"source"}
    BY <2>1, <2>3
  <2>4. ASSUME "source" \notin r.flags, "technical" \in r.flags
        PROVE  Classes(r) = {"technical"}
    BY <2>1, <2>4
  <2>5. QED BY <2>2, <2>3, <2>4
<1>10. QED BY <1>2, <1>6, <1>7, <1>8, <1>9 DEF RecordSound

\* The previous source index is the highest so far, and so one comparison is enough.
LEMMA PlaceErrorFinds ==
  ASSUME image \in Images, HeaderSound, Scanned, index \in Nat, total \in Nat,
         index + 1 \in DOMAIN image.records, NEW r, r = image.records[index + 1]
  PROVE  /\ PlaceError(r) \in Errors \union {"OK"}
         /\ PlaceError(r) = "OK" <=>
               PlaceSound(index + 1) /\ total + DurationOf(r) <= U64Max
<1>0. PICK first : first = image.header.count - 3 OBVIOUS
<1> DEFINE checks == <<
    <<previous <= r.source /\ r.source <= image.header.characters, "SOURCE_INDEX_INVALID">>,
    <<"source" \in r.flags => r.source # 0, "SOURCE_INDEX_INVALID">>,
    <<"cleanup" \in r.flags <=> index >= first, "FINAL_CLEANUP_INVALID">>,
    <<index >= first => KeyOf(r) = Cleanup[index - first + 1], "FINAL_CLEANUP_INVALID">>,
    <<DurationOf(r) <= U64Max - total, "INTEGER_OVERFLOW">>>>
<1>1. DOMAIN checks = 1 .. 5 OBVIOUS
<1>2. /\ checks[1][1] <=> previous <= r.source /\ r.source <= image.header.characters
      /\ checks[2][1] <=> ("source" \in r.flags => r.source # 0)
      /\ checks[3][1] <=> ("cleanup" \in r.flags <=> index >= first)
      /\ checks[4][1] <=> (index >= first => KeyOf(r) = Cleanup[index - first + 1])
      /\ checks[5][1] <=> DurationOf(r) <= U64Max - total
  OBVIOUS
<1>3. \A k \in 1 .. 5 : checks[k][2] \in Errors
  <2>1. \A k \in 1 .. 5 :
          checks[k][2] \in {"SOURCE_INDEX_INVALID", "FINAL_CLEANUP_INVALID", "INTEGER_OVERFLOW"}
    OBVIOUS
  <2> HIDE DEF checks
  <2>2. QED BY <2>1 DEF Errors, Protocol
<1>4. PlaceError(r) = FirstError(checks) BY <1>0 DEF PlaceError
<1>5. /\ r.source \in 0 .. U32Max /\ DurationOf(r) \in Nat
      /\ U64Max \in Nat /\ U32Max \in Nat /\ first \in Int /\ index \in Nat /\ total \in Nat
  BY <1>0, RecordTyped, FileTyped, WidthAssumption
<1> HIDE DEF checks
<1>6. \/ FirstError(checks) = "OK" /\ \A k \in 1 .. 5 : checks[k][1]
      \/ \E k \in 1 .. 5 : ~checks[k][1] /\ FirstError(checks) = checks[k][2]
  BY <1>1, FirstErrorFinds
<1>7. /\ PlaceError(r) \in Errors \union {"OK"}
      /\ PlaceError(r) = "OK" <=> \A k \in 1 .. 5 : checks[k][1]
  BY <1>3, <1>4, <1>6 DEF Errors, Protocol
<1>8. (\A k \in 1 .. 5 : checks[k][1]) <=>
        checks[1][1] /\ checks[2][1] /\ checks[3][1] /\ checks[4][1] /\ checks[5][1]
  OBVIOUS
<1>9. previous <= r.source <=> \A i \in 1 .. index + 1 : image.records[i].source <= r.source
  <2>1. \A i \in 1 .. index + 1 : image.records[i].source \in Nat
    BY RecordTyped, ImagesAssumption, WidthAssumption
  <2>2. CASE index = 0
    <3>1. previous = 0 /\ 1 .. index + 1 = {1} BY <2>2 DEF Scanned
    <3>2. QED BY <3>1, <2>1, <2>2
  <2>3. CASE index # 0
    <3>1. index \in 1 .. index /\ index \in 1 .. index + 1 BY <2>3
    <3>2. previous = image.records[index].source BY <2>3 DEF Scanned
    <3>3. \A i \in 1 .. index : image.records[i].source <= previous
      BY <3>1, <3>2 DEF Scanned, PlaceSound
    <3>4. previous \in Nat /\ r.source \in Nat BY <2>1, <3>1, <3>2, <1>5
    <3>5. ASSUME previous <= r.source, NEW i \in 1 .. index + 1
          PROVE  image.records[i].source <= r.source
      <4>1. CASE i = index + 1 BY <4>1, <3>4
      <4>2. CASE i # index + 1
        <5>1. i \in 1 .. index BY <4>2
        <5>2. QED BY <5>1, <3>3, <3>4, <3>5, <2>1
      <4>3. QED BY <4>1, <4>2
    <3>6. QED BY <3>1, <3>2, <3>5
  <2>4. QED BY <2>2, <2>3
<1>10. PlaceSound(index + 1) <=>
         checks[1][1] /\ checks[2][1] /\ checks[3][1] /\ checks[4][1]
  <2>1. /\ index >= first <=> index + 1 > first
        /\ index - first + 1 = (index + 1) - first
    BY <1>5
  <2>2. PlaceSound(index + 1) <=>
          /\ r.source <= image.header.characters
          /\ "source" \in r.flags => r.source # 0
          /\ "cleanup" \in r.flags <=> index + 1 > first
          /\ index + 1 > first => KeyOf(r) = Cleanup[(index + 1) - first]
          /\ \A i \in 1 .. index + 1 : image.records[i].source <= r.source
    BY <1>0 DEF PlaceSound
  <2>3. QED BY <2>1, <2>2, <1>2, <1>9
<1>11. checks[5][1] <=> total + DurationOf(r) <= U64Max BY <1>2, <1>5
<1>12. QED BY <1>7, <1>8, <1>10, <1>11
-----------------------------------------------------------------------------
(* What records take together *)

\* The function that Sum defines exists ...
LEMMA SumExists ==
  ASSUME NEW records, NEW n \in Nat
  PROVE  \E s : s = [k \in 0 .. n |->
                      IF k = 0 THEN 0 ELSE s[k - 1] + DurationOf(records[k])]
<1> DEFINE G == {m \in Nat :
                   \E s : s = [k \in 0 .. m |->
                                IF k = 0 THEN 0 ELSE s[k - 1] + DurationOf(records[k])]}
<1>1. 0 \in G
  <2> DEFINE s == [k \in 0 .. 0 |-> 0]
  <2>1. s = [k \in 0 .. 0 |-> IF k = 0 THEN 0 ELSE s[k - 1] + DurationOf(records[k])]
    OBVIOUS
  <2>2. QED BY <2>1, Zenon
<1>2. ASSUME NEW m \in Nat, m \in G PROVE m + 1 \in G
  <2>1. PICK g : g = [k \in 0 .. m |->
                        IF k = 0 THEN 0 ELSE g[k - 1] + DurationOf(records[k])]
    BY <1>2
  <2> DEFINE s == [k \in 0 .. m + 1 |->
                     IF k = m + 1 THEN g[m] + DurationOf(records[m + 1]) ELSE g[k]]
  <2>2. \A k \in 0 .. m + 1 : s[k] = IF k = 0 THEN 0 ELSE s[k - 1] + DurationOf(records[k])
    <3> TAKE k \in 0 .. m + 1
    <3>1. CASE k = m + 1
      <4>1. k - 1 = m /\ m \in 0 .. m + 1 /\ m # m + 1 /\ k # 0 BY <3>1
      <4>2. s[k - 1] = g[m] BY <4>1
      <4>3. s[k] = g[m] + DurationOf(records[k]) BY <3>1
      <4>4. QED BY <4>1, <4>2, <4>3
    <3>2. CASE k # m + 1 /\ k # 0
      <4>1. k \in 0 .. m /\ k - 1 \in 0 .. m + 1 /\ k - 1 # m + 1 BY <3>2
      <4>2. g[k] = g[k - 1] + DurationOf(records[k]) BY <4>1, <2>1, <3>2
      <4>3. s[k] = g[k] /\ s[k - 1] = g[k - 1] BY <4>1, <3>2
      <4>4. QED BY <4>2, <4>3, <3>2
    <3>3. CASE k # m + 1 /\ k = 0
      <4>1. g[0] = 0 BY <2>1
      <4>2. QED BY <4>1, <3>3
    <3>4. QED BY <3>1, <3>2, <3>3
  <2>3. s = [k \in 0 .. m + 1 |-> IF k = 0 THEN 0 ELSE s[k - 1] + DurationOf(records[k])]
    BY <2>2
  <2>4. \E h : h = [k \in 0 .. m + 1 |->
                     IF k = 0 THEN 0 ELSE h[k - 1] + DurationOf(records[k])]
    <3> HIDE DEF s
    <3>1. QED BY <2>3, Zenon
  <2>5. QED BY <2>4
<1>3. QED
  <2> HIDE DEF G
  <2>1. Nat \subseteq G BY <1>1, <1>2, SetInduction
  <2>2. n \in G BY <2>1
  <2>3. QED BY <2>2 DEF G

\* ... and Sum is its last value.
LEMMA SumRuns ==
  ASSUME NEW records, NEW n \in Nat
  PROVE  \E s : /\ s = [k \in 0 .. n |->
                         IF k = 0 THEN 0 ELSE s[k - 1] + DurationOf(records[k])]
                /\ Sum(records, n) = s[n]
BY SumExists, Zenon DEF Sum

\* Sum is unfolded one record at a time.
LEMMA SumSteps ==
  ASSUME NEW records
  PROVE  /\ Sum(records, 0) = 0
         /\ \A n \in Nat :
              Sum(records, n + 1) = Sum(records, n) + DurationOf(records[n + 1])
<1>1. Sum(records, 0) = 0
  <2>1. PICK s : /\ s = [k \in 0 .. 0 |->
                           IF k = 0 THEN 0 ELSE s[k - 1] + DurationOf(records[k])]
                 /\ Sum(records, 0) = s[0]
    BY SumRuns
  <2>2. QED BY <2>1
<1>2. ASSUME NEW n \in Nat
      PROVE  Sum(records, n + 1) = Sum(records, n) + DurationOf(records[n + 1])
  <2>1. PICK s : /\ s = [k \in 0 .. n |->
                           IF k = 0 THEN 0 ELSE s[k - 1] + DurationOf(records[k])]
                 /\ Sum(records, n) = s[n]
    BY SumRuns
  <2>2. PICK t : /\ t = [k \in 0 .. n + 1 |->
                           IF k = 0 THEN 0 ELSE t[k - 1] + DurationOf(records[k])]
                 /\ Sum(records, n + 1) = t[n + 1]
    <3>1. n + 1 \in Nat OBVIOUS
    <3>2. QED BY <3>1, SumRuns
  <2> DEFINE G == {k \in Nat : k <= n => s[k] = t[k]}
  <2>3. 0 \in G BY <2>1, <2>2
  <2>4. ASSUME NEW k \in Nat, k \in G PROVE k + 1 \in G
    <3>1. CASE k + 1 <= n
      <4>1. s[k + 1] = s[k] + DurationOf(records[k + 1]) BY <2>1, <3>1
      <4>2. t[k + 1] = t[k] + DurationOf(records[k + 1]) BY <2>2, <3>1
      <4>3. QED BY <4>1, <4>2, <2>4, <3>1
    <3>2. QED BY <3>1
  <2>5. n \in G
    <3> HIDE DEF G
    <3>1. QED BY <2>3, <2>4, SetInduction
  <2>6. t[n + 1] = t[n] + DurationOf(records[n + 1]) BY <2>2
  <2>7. QED BY <2>1, <2>2, <2>5, <2>6
<1>3. QED BY <1>1, <1>2

\* Durations are numbers, and so their sums never fall.
LEMMA SumGrows ==
  ASSUME NEW records, NEW n \in Nat, \A k \in 1 .. n : DurationOf(records[k]) \in Nat
  PROVE  /\ \A k \in 0 .. n : Sum(records, k) \in Nat
         /\ \A k, l \in 0 .. n : k <= l => Sum(records, k) <= Sum(records, l)
<1> DEFINE G == {m \in Nat : m <= n =>
                   \A k \in 0 .. m :
                     Sum(records, k) \in Nat /\ Sum(records, k) <= Sum(records, m)}
<1>1. 0 \in G BY SumSteps
<1>2. ASSUME NEW m \in Nat, m \in G PROVE m + 1 \in G
  <2>1. CASE m + 1 <= n
    <3>1. /\ Sum(records, m + 1) = Sum(records, m) + DurationOf(records[m + 1])
          /\ DurationOf(records[m + 1]) \in Nat
      BY <2>1, SumSteps
    <3>2. \A k \in 0 .. m :
            Sum(records, k) \in Nat /\ Sum(records, k) <= Sum(records, m)
      BY <1>2, <2>1
    <3>3. Sum(records, m + 1) \in Nat /\ Sum(records, m) <= Sum(records, m + 1)
      BY <3>1, <3>2
    <3>4. \A k \in 0 .. m + 1 :
            Sum(records, k) \in Nat /\ Sum(records, k) <= Sum(records, m + 1)
      <4> TAKE k \in 0 .. m + 1
      <4>1. CASE k = m + 1 BY <4>1, <3>3
      <4>2. CASE k # m + 1
        <5>1. k \in 0 .. m /\ m \in 0 .. m BY <4>2
        <5>2. Sum(records, k) \in Nat /\ Sum(records, k) <= Sum(records, m)
                /\ Sum(records, m) \in Nat
          BY <3>2, <5>1
        <5>3. QED BY <5>2, <3>3
      <4>3. QED BY <4>1, <4>2
    <3>5. QED BY <3>4
  <2>2. QED BY <2>1
<1>3. Nat \subseteq G
  <2> HIDE DEF G
  <2>1. QED BY <1>1, <1>2, SetInduction
<1>4. \A m \in 0 .. n : m \in G BY <1>3
<1>5. QED BY <1>4
-----------------------------------------------------------------------------
(* Ticks *)

\* A wait is rounded up, by less than a tick.
LEMMA TicksRoundUp ==
  ASSUME NEW us \in Nat
  PROVE  /\ TicksOf(us) \in Nat
         /\ us <= TicksOf(us) * TickUs /\ TicksOf(us) * TickUs <= us + (TickUs - 1)
<1> DEFINE a == us + TickUs - 1
           q == a \div TickUs
<1>1. TickUs \in Nat /\ TickUs > 0 /\ a \in Nat /\ a = us + (TickUs - 1)
  BY TimeAssumption
<1>2. q \in Nat /\ a = q * TickUs + (a % TickUs) /\ a % TickUs \in 0 .. TickUs - 1
  <2> HIDE DEF a
  <2>1. QED BY <1>1
<1>3. TicksOf(us) = q BY DEF TicksOf
<1> HIDE DEF q, a
<1> DEFINE p == q * TickUs
<1>4. p \in Int BY <1>1, <1>2
<1>5. a = p + (a % TickUs) BY <1>2
<1> HIDE DEF p
<1>6. us <= p /\ p <= us + (TickUs - 1) BY <1>1, <1>2, <1>4, <1>5
<1>7. QED BY <1>2, <1>3, <1>6 DEF p

-----------------------------------------------------------------------------
(* What the verifier's tests amount to *)

\* The records a sound header counts are there to be read.
LEMMA RecordsInFile ==
  ASSUME image \in Images, HeaderSound
  PROVE  image.header.count \in Nat /\ 1 .. image.header.count \subseteq DOMAIN image.records
<1> DEFINE n == image.header.count
           length == Len(image.records)
<1>1. /\ n \in Nat /\ length \in Nat /\ DOMAIN image.records = 1 .. length
      /\ HeaderBytes \in Nat /\ RecordBytes \in Nat \ {0}
      /\ HeaderBytes + n * RecordBytes < HeaderBytes + RecordBytes * (length + 1)
  <2>1. /\ length \in Nat /\ DOMAIN image.records = 1 .. length
        /\ image.size < HeaderBytes + RecordBytes * (length + 1)
    BY ImagesAssumption
  <2>2. n \in Nat /\ HeaderBytes \in Nat /\ RecordBytes \in Nat \ {0}
    BY FileTyped, WidthAssumption
  <2>3. image.size = HeaderBytes + n * RecordBytes BY DEF HeaderSound
  <2> HIDE DEF n, length
  <2>4. QED BY <2>1, <2>2, <2>3
<1> HIDE DEF n, length
<1>2. n <= length
  <2> SUFFICES ASSUME n > length PROVE FALSE BY <1>1
  <2>1. PICK d \in Nat : n = length + 1 + d
    <3>1. n - length - 1 \in Nat /\ n = length + 1 + (n - length - 1) BY <1>1
    <3>2. QED BY <3>1
  <2>2. n * RecordBytes = RecordBytes * (length + 1) + d * RecordBytes BY <1>1, <2>1
  <2>3. d * RecordBytes \in Nat /\ RecordBytes * (length + 1) \in Nat BY <1>1, <2>1
  <2>4. QED BY <1>1, <2>2, <2>3
<1>3. QED BY <1>1, <1>2 DEF n

\* The flags a record may carry, by what decode_record asks of them.
LEMMA FlagsSound ==
  ASSUME NEW flags \in SUBSET Flag
  PROVE  (\E class \in {{"source"}, {"technical"}, {"technical", "cleanup"}} :
            flags = class \union {"release"})
           <=> /\ "unknown" \notin flags /\ "release" \in flags
               /\ "source" \in flags <=> "technical" \notin flags
               /\ "cleanup" \in flags => "technical" \in flags
<1>1. ASSUME NEW class \in {{"source"}, {"technical"}, {"technical", "cleanup"}},
             flags = class \union {"release"}
      PROVE  /\ "unknown" \notin flags /\ "release" \in flags
             /\ "source" \in flags <=> "technical" \notin flags
             /\ "cleanup" \in flags => "technical" \in flags
  BY <1>1
<1>2. ASSUME /\ "unknown" \notin flags /\ "release" \in flags
             /\ "source" \in flags <=> "technical" \notin flags
             /\ "cleanup" \in flags => "technical" \in flags
      PROVE  \E class \in {{"source"}, {"technical"}, {"technical", "cleanup"}} :
               flags = class \union {"release"}
  <2>1. CASE "source" \in flags
    <3>1. flags = {"source"} \union {"release"} BY <1>2, <2>1 DEF Flag
    <3>2. QED BY <3>1
  <2>2. CASE "source" \notin flags /\ "cleanup" \notin flags
    <3>1. flags = {"technical"} \union {"release"} BY <1>2, <2>2 DEF Flag
    <3>2. QED BY <3>1
  <2>3. CASE "source" \notin flags /\ "cleanup" \in flags
    <3>1. flags = {"technical", "cleanup"} \union {"release"} BY <1>2, <2>3 DEF Flag
    <3>2. QED BY <3>1
  <2>4. QED BY <2>1, <2>2, <2>3
<1>3. QED BY <1>1, <1>2
\* The document's description of a file and what the verifier's steps establish are
\* the same.
LEMMA WellFormedParts ==
  ASSUME image \in Images
  PROVE  WellFormed(image) <=>
           /\ HeaderSound /\ DigestSound
           /\ \A k \in 1 .. image.header.count :
                RecordSound(image.records[k]) /\ PlaceSound(k)
           /\ image.header.duration = Sum(image.records, image.header.count)
<1>1. PICK h, n, records, first : /\ h = image.header /\ n = image.header.count
                                  /\ records = image.records /\ first = n - 3
  OBVIOUS
<1> DEFINE Numbers == /\ h.fixed /\ h.job /\ image.digest
                      /\ n \in 3 .. MaxRecords /\ h.characters > 0
                      /\ h.payload = n * RecordBytes
                      /\ image.size = HeaderBytes + n * RecordBytes
                      /\ image.size <= MaxEncodedBytes
           Each(k) == LET r == records[k] IN
                      /\ r.fixed /\ KeyOf(r) \in Key
                      /\ {r.before, r.after} \subseteq 0 .. MaxDelay /\ r.hold = HoldUs
                      /\ \E class \in {{"source"}, {"technical"}, {"technical", "cleanup"}} :
                           r.flags = class \union {"release"}
                      /\ "cleanup" \in r.flags <=> k > n - 3
                      /\ "source" \in r.flags => r.source > 0
                      /\ \A i \in k .. n : r.source <= records[i].source
                      /\ r.source <= h.characters
           Ending == \A k \in 1 .. 3 : KeyOf(records[n - 3 + k]) = Cleanup[k]
<1>2. WellFormed(image) <=> /\ Numbers /\ Ending
                            /\ \A k \in 1 .. n : Each(k)
                            /\ h.duration = Sum(records, n)
  BY <1>1 DEF WellFormed
<1>3. Numbers <=> HeaderSound /\ DigestSound
  <2>1. /\ h.characters \in Nat /\ n \in Nat /\ MaxRecords \in Nat
    BY <1>1, FileTyped, LimitsAssumption, WidthAssumption
  <2>2. QED BY <1>1, <2>1 DEF HeaderSound, DigestSound
<1>4. ASSUME HeaderSound, DigestSound
      PROVE  Ending /\ (\A k \in 1 .. n : Each(k))
               <=> \A k \in 1 .. n : RecordSound(records[k]) /\ PlaceSound(k)
  <2>1. n \in Nat /\ n >= 3 /\ first \in Nat /\ n = first + 3
          /\ 1 .. n \subseteq DOMAIN records
    BY <1>1, <1>4, RecordsInFile DEF DigestSound
  <2>2. \A k \in 1 .. n :
          /\ records[k].source \in Nat /\ records[k].before \in Nat
          /\ records[k].after \in Nat /\ records[k].flags \in SUBSET Flag
    BY <1>1, <2>1, RecordTyped, WidthAssumption
  <2>3. MaxDelay \in Nat BY LimitsAssumption
  <2>4. ASSUME Ending, \A k \in 1 .. n : Each(k), NEW k \in 1 .. n
        PROVE  RecordSound(records[k]) /\ PlaceSound(k)
    <3>1. Each(k) BY <2>4
    <3>2. RecordSound(records[k])
      <4>1. records[k].before <= MaxDelay /\ records[k].after <= MaxDelay
        BY <2>3, <3>1
      <4>2. QED BY <3>1, <4>1, <2>2, FlagsSound DEF RecordSound
    <3>3. \A i \in 1 .. k : records[i].source <= records[k].source
      <4> TAKE i \in 1 .. k
      <4>1. i \in 1 .. n /\ k \in i .. n BY <2>1
      <4>2. QED BY <2>4, <4>1
    <3>4. k > first => KeyOf(records[k]) = Cleanup[k - first]
      <4> HAVE k > first
      <4>1. PICK j \in 1 .. 3 : j = k - first BY <2>1
      <4>2. n - 3 + j = k BY <2>1, <4>1, <1>1
      <4>3. QED BY <2>4, <4>1, <4>2
    <3>5. "source" \in records[k].flags => records[k].source # 0
      BY <2>2, <3>1
    <3>6. QED BY <1>1, <3>1, <3>2, <3>3, <3>4, <3>5 DEF PlaceSound
  <2>5. ASSUME \A k \in 1 .. n : RecordSound(records[k]) /\ PlaceSound(k)
        PROVE  Ending /\ \A k \in 1 .. n : Each(k)
    <3>1. Ending
      <4> TAKE j \in 1 .. 3
      <4>1. PICK k \in 1 .. n : k = n - 3 + j BY <2>1
      <4>2. k > first /\ k - first = j BY <2>1, <4>1
      <4>3. KeyOf(records[k]) = Cleanup[k - first] BY <1>1, <2>5, <4>2 DEF PlaceSound
      <4>4. QED BY <4>1, <4>2, <4>3
    <3>2. ASSUME NEW k \in 1 .. n PROVE Each(k)
      <4>1. RecordSound(records[k]) /\ PlaceSound(k) BY <2>5
      <4>2. {records[k].before, records[k].after} \subseteq 0 .. MaxDelay
        BY <2>2, <2>3, <4>1 DEF RecordSound
      <4>3. \E class \in {{"source"}, {"technical"}, {"technical", "cleanup"}} :
              records[k].flags = class \union {"release"}
        BY <2>2, <4>1, FlagsSound DEF RecordSound
      <4>4. \A i \in k .. n : records[k].source <= records[i].source
        <5> TAKE i \in k .. n
        <5>1. i \in 1 .. n /\ k \in 1 .. i BY <2>1
        <5>2. QED BY <1>1, <2>5, <5>1 DEF PlaceSound
      <4>5. "source" \in records[k].flags => records[k].source > 0
        BY <1>1, <2>2, <4>1 DEF PlaceSound
      <4>6. QED BY <1>1, <4>1, <4>2, <4>3, <4>4, <4>5 DEF RecordSound, PlaceSound
    <3>3. QED BY <3>1, <3>2
  <2>6. QED BY <2>4, <2>5
<1>5. QED BY <1>1, <1>2, <1>3, <1>4
-----------------------------------------------------------------------------
(* The steps of the verifier *)

\* A file that is refused is not well-formed, unless the flash failed.
LEMMA Refused ==
  ASSUME VerifierKnown, image' = image, NEW error \in Errors, Reject(error),
         error = "READER_ERROR" \/ ~WellFormed(image)
  PROVE  VerifierKnown' /\ VerdictIsRight'
<1>1. pc' = "done" /\ verdict' = error /\ verdict' \notin {"none", "OK"}
  BY DEF Reject, Errors
<1>2. VerifierKnown' BY <1>1 DEF VerifierKnown, Verifying
<1>3. VerdictIsRight' BY <1>1 DEF VerdictIsRight
<1>4. QED BY <1>2, <1>3

\* Each step of the verifier establishes its part, or refuses the file rightly.
LEMMA VerifierStep ==
  ASSUME TypeOK, VerifierKnown, VerdictIsRight, VerifyStep
  PROVE  VerifierKnown' /\ VerdictIsRight'
<1>1. image' = image /\ image \in Images
  BY DEF VerifyStep, VerifyHeader, VerifyDigest, VerifyRecord, VerifyEnd, VerifierKnown
<1>2. ASSUME NEW ok \in BOOLEAN, VerifyHeader(ok) PROVE VerifierKnown' /\ VerdictIsRight'
  <2>1. pc = "header" /\ verdict = "none" BY <1>2 DEF VerifyHeader, VerifierKnown, Verifying
  <2>2. CASE SizeError # "OK"
    <3>1. Reject(SizeError) BY <1>2, <2>2 DEF VerifyHeader
    <3>2. SizeError \in Errors BY <2>2, SizeErrorFinds
    <3>3. ~WellFormed(image)
      <4>1. HeaderSound => image.size >= HeaderBytes /\ image.size <= MaxEncodedBytes
        BY <1>1, FileTyped, WidthAssumption DEF HeaderSound
      <4>2. QED BY <1>1, <2>2, <4>1, SizeErrorFinds, WellFormedParts
    <3>4. QED BY <1>1, <3>1, <3>2, <3>3, Refused
  <2>3. CASE SizeError = "OK" /\ ~Readable(0, HeaderBytes, ok)
    <3>1. Reject("READER_ERROR") BY <1>2, <2>3 DEF VerifyHeader
    <3>2. "READER_ERROR" \in Errors BY DEF Errors, Protocol
    <3>3. QED BY <1>1, <3>1, <3>2, Refused
  <2>4. CASE SizeError = "OK" /\ Readable(0, HeaderBytes, ok) /\ HeaderError # "OK"
    <3>1. Reject(HeaderError) BY <1>2, <2>4 DEF VerifyHeader
    <3>2. HeaderError \in Errors /\ ~HeaderSound BY <1>1, <2>4, HeaderErrorFinds
    <3>3. QED BY <1>1, <3>1, <3>2, Refused, WellFormedParts
  <2>5. CASE SizeError = "OK" /\ Readable(0, HeaderBytes, ok) /\ HeaderError = "OK"
    <3>1. pc' = "digest" /\ UNCHANGED <<verifyVars, index>> BY <1>2, <2>5 DEF VerifyHeader
    <3>2. HeaderSound BY <1>1, <2>5, HeaderErrorFinds
    <3>3. HeaderSound' BY <1>1, <3>2 DEF HeaderSound
    <3>4. VerifierKnown' BY <1>1, <2>1, <3>1, <3>3 DEF VerifierKnown, Verifying, verifyVars
    <3>5. VerdictIsRight' BY <2>1, <3>1 DEF VerdictIsRight, verifyVars
    <3>6. QED BY <3>4, <3>5
  <2>6. QED BY <2>2, <2>3, <2>4, <2>5
<1>3. ASSUME NEW ok \in BOOLEAN, VerifyDigest(ok) PROVE VerifierKnown' /\ VerdictIsRight'
  <2>1. pc = "digest" /\ verdict = "none" /\ HeaderSound
          /\ index = 0 /\ previous = 0 /\ total = 0
    BY <1>3 DEF VerifyDigest, VerifierKnown, Verifying
  <2>2. PICK error : error = FirstError(<<<<image.digest, "CHECKSUM_MISMATCH">>,
                               <<image.header.count >= 3, "FINAL_CLEANUP_INVALID">>>>)
    OBVIOUS
  <2>3. error \in Errors \union {"OK"} /\ (error = "OK" <=> DigestSound)
    BY <1>1, <2>2, DigestErrorFinds
  <2>4. CASE ~Readable(HeaderBytes, image.header.payload, ok)
    <3>1. Reject("READER_ERROR") BY <1>3, <2>4 DEF VerifyDigest
    <3>2. "READER_ERROR" \in Errors BY DEF Errors, Protocol
    <3>3. QED BY <1>1, <3>1, <3>2, Refused
  <2>5. CASE Readable(HeaderBytes, image.header.payload, ok) /\ error # "OK"
    <3>1. Reject(error) BY <1>3, <2>2, <2>5 DEF VerifyDigest
    <3>2. error \in Errors /\ ~DigestSound BY <2>3, <2>5
    <3>3. QED BY <1>1, <3>1, <3>2, Refused, WellFormedParts
  <2>6. CASE Readable(HeaderBytes, image.header.payload, ok) /\ error = "OK"
    <3>1. pc' = "records" /\ UNCHANGED <<verifyVars, index>>
      BY <1>3, <2>2, <2>6 DEF VerifyDigest
    <3>2. HeaderSound' BY <1>1, <2>1 DEF HeaderSound
    <3>3. DigestSound' BY <1>1, <2>3, <2>6 DEF DigestSound
    <3>4. Scanned'
      <4>1. image.header.count \in Nat BY <1>1, <2>1, RecordsInFile
      <4>2. Sum(image.records, 0) = 0 BY SumSteps
      <4>3. QED BY <1>1, <2>1, <3>1, <4>1, <4>2 DEF Scanned, verifyVars
    <3>5. VerifierKnown'
      BY <1>1, <2>1, <3>1, <3>2, <3>3, <3>4 DEF VerifierKnown, Verifying, verifyVars
    <3>6. VerdictIsRight' BY <2>1, <3>1 DEF VerdictIsRight, verifyVars
    <3>7. QED BY <3>5, <3>6
  <2>7. QED BY <2>4, <2>5, <2>6
<1>4. ASSUME NEW ok \in BOOLEAN, VerifyRecord(ok) PROVE VerifierKnown' /\ VerdictIsRight'
  <2>1. /\ pc = "records" /\ verdict = "none" /\ index < image.header.count
        /\ HeaderSound /\ DigestSound /\ Scanned
    <3>1. pc = "records" /\ index < image.header.count BY <1>4 DEF VerifyRecord
    <3>2. QED BY <3>1 DEF VerifierKnown, Verifying
  <2>2. PICK r : r = image.records[index + 1] OBVIOUS
  <2>3. /\ image.header.count \in Nat /\ index \in Nat /\ total \in Nat
        /\ index + 1 \in 1 .. image.header.count /\ index + 1 \in DOMAIN image.records
    <3>1. /\ image.header.count \in Nat
          /\ 1 .. image.header.count \subseteq DOMAIN image.records
      BY <1>1, <2>1, RecordsInFile
    <3>2. index \in Nat /\ total \in Nat BY DEF TypeOK
    <3>3. index + 1 \in 1 .. image.header.count BY <2>1, <3>1, <3>2
    <3>4. QED BY <3>1, <3>2, <3>3
  <2>4. r.fixed \in BOOLEAN /\ DurationOf(r) \in Nat BY <1>1, <2>2, <2>3, RecordTyped
  <2>5. /\ RecordError(r) \in Errors \union {"OK"} /\ (RecordError(r) = "OK" <=> RecordSound(r))
        /\ PlaceError(r) \in Errors \union {"OK"}
        /\ PlaceError(r) = "OK" <=> PlaceSound(index + 1) /\ total + DurationOf(r) <= U64Max
    BY <1>1, <2>1, <2>2, <2>3, <2>4, RecordErrorFinds, PlaceErrorFinds
  <2>6. ReadError(ok) \in {RecordError(r), "READER_ERROR"} BY <2>2 DEF ReadError
  <2>7. total + DurationOf(r) = Sum(image.records, index + 1)
    BY <2>1, <2>2, <2>3, SumSteps DEF Scanned
  <2>8. ASSUME WellFormed(image)
        PROVE  RecordSound(r) /\ PlaceSound(index + 1) /\ total + DurationOf(r) <= U64Max
    <3>1. RecordSound(r) /\ PlaceSound(index + 1)
      BY <1>1, <2>2, <2>3, <2>8, WellFormedParts
    <3>2. \A k \in 1 .. image.header.count : DurationOf(image.records[k]) \in Nat
      BY <1>1, <2>1, RecordTyped, RecordsInFile
    <3>3. /\ Sum(image.records, index + 1) <= Sum(image.records, image.header.count)
          /\ Sum(image.records, index + 1) \in Nat
      BY <2>3, <3>2, SumGrows
    <3>4. /\ Sum(image.records, image.header.count) = image.header.duration
          /\ image.header.duration \in 0 .. U64Max /\ U64Max \in Nat
      BY <1>1, <2>8, WellFormedParts, FileTyped, WidthAssumption
    <3>5. QED BY <2>7, <3>1, <3>3, <3>4
  <2>9. CASE ReadError(ok) # "OK"
    <3>1. Reject(ReadError(ok)) BY <1>4, <2>9 DEF VerifyRecord
    <3>2. ReadError(ok) \in Errors BY <2>5, <2>6, <2>9 DEF Errors, Protocol
    <3>3. ReadError(ok) = "READER_ERROR" \/ ~WellFormed(image) BY <2>5, <2>6, <2>8, <2>9
    <3>4. QED BY <1>1, <3>1, <3>2, <3>3, Refused
  <2>10. CASE ReadError(ok) = "OK" /\ PlaceError(r) # "OK"
    <3>1. Reject(PlaceError(r)) BY <1>4, <2>2, <2>10 DEF VerifyRecord
    <3>2. PlaceError(r) \in Errors /\ ~WellFormed(image) BY <2>5, <2>8, <2>10
    <3>3. QED BY <1>1, <3>1, <3>2, Refused
  <2>11. CASE ReadError(ok) = "OK" /\ PlaceError(r) = "OK"
    <3>1. /\ previous' = r.source /\ total' = total + DurationOf(r) /\ index' = index + 1
          /\ UNCHANGED <<verdict, pc>>
      BY <1>4, <2>2, <2>11 DEF VerifyRecord
    <3>2. RecordSound(r) /\ PlaceSound(index + 1)
      BY <2>5, <2>6, <2>11
    <3>3. HeaderSound' /\ DigestSound' BY <1>1, <2>1 DEF HeaderSound, DigestSound
    <3>4. ASSUME NEW k \in 1 .. index + 1
          PROVE  RecordSound(image.records[k]) /\ PlaceSound(k)
      <4>1. CASE k = index + 1 BY <4>1, <3>2, <2>2
      <4>2. CASE k # index + 1
        <5>1. k \in 1 .. index BY <4>2, <2>3
        <5>2. QED BY <5>1, <2>1 DEF Scanned
      <4>3. QED BY <4>1, <4>2
    <3>5. \A k \in 1 .. index + 1 : PlaceSound(k)' BY <1>1, <3>4 DEF PlaceSound
    <3>6. Scanned'
      <4>1. index' # 0 /\ index' <= image'.header.count BY <1>1, <2>1, <2>3, <3>1
      <4>2. previous' = image'.records[index'].source BY <1>1, <2>2, <3>1
      <4>3. total' = Sum(image'.records, index') BY <1>1, <2>7, <3>1
      <4>4. QED BY <1>1, <3>1, <3>4, <3>5, <4>1, <4>2, <4>3 DEF Scanned
    <3>7. VerifierKnown' BY <1>1, <2>1, <3>1, <3>3, <3>6 DEF VerifierKnown, Verifying
    <3>8. VerdictIsRight' BY <2>1, <3>1 DEF VerdictIsRight
    <3>9. QED BY <3>7, <3>8
  <2>12. QED BY <2>9, <2>10, <2>11
<1>5. ASSUME VerifyEnd PROVE VerifierKnown' /\ VerdictIsRight'
  <2>1. /\ pc = "records" /\ verdict = "none" /\ index = image.header.count
        /\ HeaderSound /\ DigestSound /\ Scanned
    BY <1>5 DEF VerifyEnd, VerifierKnown, Verifying
  <2>2. total = Sum(image.records, image.header.count) BY <2>1 DEF Scanned
  <2>3. total > 0
    <3>1. image.header.count \in Nat /\ image.header.count >= 3
            /\ 1 .. image.header.count \subseteq DOMAIN image.records
      BY <1>1, <2>1, RecordsInFile DEF DigestSound
    <3>2. \A k \in 1 .. image.header.count : DurationOf(image.records[k]) \in Nat
      BY <1>1, <3>1, RecordTyped
    <3>3. Sum(image.records, 0 + 1) = 0 + DurationOf(image.records[0 + 1]) BY SumSteps
    <3>4. DurationOf(image.records[1]) > 0
      <4>1. PICK r : r = image.records[1] OBVIOUS
      <4>2. r.hold = HoldUs BY <2>1, <3>1, <4>1 DEF Scanned, RecordSound
      <4>3. r.before \in Nat /\ r.after \in Nat
        BY <1>1, <3>1, <4>1, RecordTyped, WidthAssumption
      <4>4. HoldUs \in Nat /\ HoldUs > 0 BY TimeAssumption, LimitsAssumption
      <4>5. DurationOf(r) > 0 BY <4>2, <4>3, <4>4 DEF DurationOf
      <4>6. QED BY <4>1, <4>5
    <3>5. /\ Sum(image.records, 1) \in Nat
          /\ Sum(image.records, 1) <= Sum(image.records, image.header.count)
          /\ Sum(image.records, image.header.count) \in Nat
      <4>1. PICK n \in Nat : n = image.header.count BY <3>1
      <4>2. 1 \in 0 .. n /\ n \in 0 .. n /\ 1 <= n BY <3>1, <4>1
      <4>3. QED BY <3>2, <4>1, <4>2, SumGrows
    <3>6. Sum(image.records, 1) > 0 BY <3>2, <3>1, <3>3, <3>4
    <3>7. QED BY <2>2, <3>5, <3>6
  <2>4. CASE total = image.header.duration
    <3>1. verdict' = "OK" /\ pc' = "arm" BY <1>5, <2>3, <2>4 DEF VerifyEnd
    <3>2. WellFormed(image) BY <1>1, <2>1, <2>2, <2>4, WellFormedParts DEF Scanned
    <3>3. VerifierKnown' BY <1>1, <3>1 DEF VerifierKnown, Verifying
    <3>4. VerdictIsRight' BY <1>1, <3>1, <3>2 DEF VerdictIsRight
    <3>5. QED BY <3>3, <3>4
  <2>5. CASE total # image.header.duration
    <3>1. Reject("TOTAL_DURATION_INVALID") BY <1>5, <2>5 DEF VerifyEnd
    <3>2. "TOTAL_DURATION_INVALID" \in Errors BY DEF Errors, Protocol
    <3>3. ~WellFormed(image) BY <1>1, <2>2, <2>5, WellFormedParts
    <3>4. QED BY <1>1, <3>1, <3>2, <3>3, Refused
  <2>6. QED BY <2>4, <2>5
<1>6. QED BY <1>2, <1>3, <1>4, <1>5 DEF VerifyStep
\* The numbers keep their widths: no check comes after the sum it is there for.
LEMMA VerifierTypes ==
  ASSUME TypeOK, VerifierKnown, VerifyStep
  PROVE  TypeOK'
<1>1. UNCHANGED <<image, linkVars, waitVars, now, hostVars, runVars>> /\ image \in Images
  BY DEF VerifyStep, VerifyHeader, VerifyDigest, VerifyRecord, VerifyEnd, VerifierKnown
<1>2. ASSUME NEW error \in Errors, Reject(error) PROVE TypeOK'
  BY <1>1, <1>2
  DEF TypeOK, Reject, Errors, linkVars, waitVars, hostVars, runVars
<1>3. ASSUME UNCHANGED <<verifyVars, index>>, pc' \in {"digest", "records"} PROVE TypeOK'
  BY <1>1, <1>3 DEF TypeOK, verifyVars, linkVars, waitVars, hostVars, runVars
<1>4. "READER_ERROR" \in Errors /\ "TOTAL_DURATION_INVALID" \in Errors
  BY DEF Errors, Protocol
<1>5. ASSUME NEW ok \in BOOLEAN, VerifyHeader(ok) PROVE TypeOK'
  <2>1. PICK error : error = IF SizeError # "OK" THEN SizeError
                             ELSE IF ~Readable(0, HeaderBytes, ok) THEN "READER_ERROR"
                             ELSE HeaderError
    OBVIOUS
  <2>2. error \in Errors \union {"OK"}
    BY <1>1, <1>4, <2>1, SizeErrorFinds, HeaderErrorFinds
  <2>3. CASE error = "OK" BY <1>3, <1>5, <2>1, <2>3 DEF VerifyHeader
  <2>4. CASE error # "OK"
    <3>1. Reject(error) BY <1>5, <2>1, <2>4 DEF VerifyHeader
    <3>2. QED BY <1>2, <2>2, <2>4, <3>1
  <2>5. QED BY <2>3, <2>4
<1>6. ASSUME NEW ok \in BOOLEAN, VerifyDigest(ok) PROVE TypeOK'
  <2>1. PICK error : error =
          IF ~Readable(HeaderBytes, image.header.payload, ok) THEN "READER_ERROR"
          ELSE FirstError(<<<<image.digest, "CHECKSUM_MISMATCH">>,
                            <<image.header.count >= 3, "FINAL_CLEANUP_INVALID">>>>)
    OBVIOUS
  <2>2. error \in Errors \union {"OK"} BY <1>1, <1>4, <2>1, DigestErrorFinds
  <2>3. CASE error = "OK" BY <1>3, <1>6, <2>1, <2>3 DEF VerifyDigest
  <2>4. CASE error # "OK"
    <3>1. Reject(error) BY <1>6, <2>1, <2>4 DEF VerifyDigest
    <3>2. QED BY <1>2, <2>2, <2>4, <3>1
  <2>5. QED BY <2>3, <2>4
<1>7. ASSUME NEW ok \in BOOLEAN, VerifyRecord(ok) PROVE TypeOK'
  <2>1. /\ pc = "records" /\ index < image.header.count
        /\ HeaderSound /\ Scanned
    BY <1>7 DEF VerifyRecord, VerifierKnown
  <2>2. PICK r : r = image.records[index + 1] OBVIOUS
  <2>3. /\ image.header.count \in 1 .. MaxRecords /\ index \in Nat /\ total \in Nat
        /\ index + 1 \in 0 .. MaxRecords /\ index + 1 \in DOMAIN image.records
    <3>1. image.header.count \in 1 .. MaxRecords BY <2>1 DEF HeaderSound
    <3>2. index \in Nat /\ total \in Nat /\ MaxRecords \in Nat
      BY LimitsAssumption DEF TypeOK
    <3>3. index + 1 \in 1 .. image.header.count BY <2>1, <3>1, <3>2
    <3>4. QED BY <1>1, <2>1, <3>1, <3>2, <3>3, RecordsInFile
  <2>4. /\ r.fixed \in BOOLEAN /\ DurationOf(r) \in Nat /\ r.source \in 0 .. U32Max
        /\ U64Max \in Nat
    BY <1>1, <2>2, <2>3, RecordTyped, WidthAssumption
  <2>5. PICK error : error = IF ReadError(ok) # "OK" THEN ReadError(ok) ELSE PlaceError(r)
    OBVIOUS
  <2>6. /\ RecordError(r) \in Errors \union {"OK"} /\ PlaceError(r) \in Errors \union {"OK"}
        /\ PlaceError(r) = "OK" => total + DurationOf(r) <= U64Max
    BY <1>1, <2>1, <2>2, <2>3, <2>4, RecordErrorFinds, PlaceErrorFinds
  <2>7. ReadError(ok) \in {RecordError(r), "READER_ERROR"} BY <2>2 DEF ReadError
  <2>8. error \in Errors \union {"OK"} BY <1>4, <2>5, <2>6, <2>7
  <2>9. CASE error # "OK"
    <3>1. Reject(error) BY <1>7, <2>2, <2>5, <2>9 DEF VerifyRecord
    <3>2. QED BY <1>2, <2>8, <2>9, <3>1
  <2>10. CASE error = "OK"
    <3>1. /\ previous' = r.source /\ total' = total + DurationOf(r) /\ index' = index + 1
          /\ UNCHANGED <<verdict, pc>>
      BY <1>7, <2>2, <2>5, <2>10 DEF VerifyRecord
    <3>2. total + DurationOf(r) \in 0 .. U64Max BY <2>3, <2>4, <2>5, <2>6, <2>10
    <3>3. QED BY <1>1, <2>3, <2>4, <3>1, <3>2
          DEF TypeOK, linkVars, waitVars, hostVars, runVars
  <2>11. QED BY <2>9, <2>10
<1>8. ASSUME VerifyEnd PROVE TypeOK'
  <2>1. CASE Reject("TOTAL_DURATION_INVALID") BY <1>2, <1>4, <2>1
  <2>2. CASE verdict' = "OK" /\ pc' = "arm" /\ index' = 0 /\ UNCHANGED <<previous, total>>
    <3>1. index' \in 0 .. MaxRecords /\ verdict' \in Protocol
      BY <2>2, LimitsAssumption DEF Protocol
    <3>2. QED BY <1>1, <2>2, <3>1 DEF TypeOK, linkVars, waitVars, hostVars, runVars
  <2>3. QED BY <1>8, <2>1, <2>2 DEF VerifyEnd
<1>9. QED BY <1>5, <1>6, <1>7, <1>8 DEF VerifyStep

-----------------------------------------------------------------------------
(* The steps of the run *)

\* The host, the operator and the clock.
WorldStep == Tick \/ StopRequest \/ LinkDown \/ LinkUp

\* A slice is a part of the wait.
LEMMA SliceIsPart ==
  ASSUME NEW ticks \in Nat
  PROVE  Slice(ticks) \in Nat /\ Slice(ticks) <= ticks /\ Slice(ticks) <= SliceTicks
<1>1. SliceTicks \in Nat BY TimeAssumption
<1> DEFINE S == {ticks, SliceTicks}
<1>2. \E x \in S : \A y \in S : x <= y BY <1>1
<1>3. Min(S) \in S /\ \A y \in S : Min(S) <= y
  <2> HIDE DEF S
  <2>1. QED BY <1>2 DEF Min
<1>4. QED BY <1>1, <1>3 DEF Slice

\* What is run was accepted, and what was accepted can be run.
LEMMA RunSound ==
  ASSUME VerifierKnown, VerdictIsRight, pc \notin Verifying \union {"done"}
  PROVE  /\ verdict = "OK" /\ image \in Images /\ WellFormed(image)
         /\ image.header.count \in 3 .. MaxRecords
         /\ \A k \in 1 .. image.header.count :
              LET r == image.records[k] IN
              /\ r.before \in Nat /\ r.hold \in Nat /\ r.after \in Nat
              /\ r.source \in 0 .. U32Max /\ KeyOf(r) \in Key
<1>1. verdict = "OK" /\ image \in Images /\ WellFormed(image)
  BY DEF VerifierKnown, VerdictIsRight
<1>2. /\ HeaderSound /\ DigestSound
      /\ \A k \in 1 .. image.header.count : RecordSound(image.records[k])
  BY <1>1, WellFormedParts
<1>3. image.header.count \in 3 .. MaxRecords
  BY <1>1, <1>2, FileTyped, LimitsAssumption DEF HeaderSound, DigestSound
<1>4. ASSUME NEW k \in 1 .. image.header.count
      PROVE  LET r == image.records[k] IN
              /\ r.before \in Nat /\ r.hold \in Nat /\ r.after \in Nat
              /\ r.source \in 0 .. U32Max /\ KeyOf(r) \in Key
  BY <1>1, <1>2, RecordsInFile, RecordTyped, WidthAssumption DEF RecordSound
<1>5. QED BY <1>1, <1>3, <1>4
\* A run is left with the file and the verdict it began with.
LEMMA RunKeeps ==
  ASSUME ExecutorStep
  PROVE  UNCHANGED <<image, verifyVars, now, connected>> /\ pc \notin Verifying \union {"done"}
BY DEF ExecutorStep, Arm, Abort, Release, EndRelease, Fetch, Press, Sleep, Halt,
   CountdownOver, WaitOver, NextRecord, AllTyped, Verifying, Waiting, linkVars

\* What the record in hand is, where there is one.
LEMMA RecordInHand ==
  ASSUME TypeOK, VerifierKnown, VerdictIsRight, PlaceKnown,
         \/ pc \in {"before", "press", "hold", "release", "after"}
         \/ pc = "fetch" /\ index < image.header.count
  PROVE  /\ index \in Nat /\ index + 1 \in 1 .. image.header.count
         /\ image.header.count \in Nat /\ image.header.count \in 3 .. MaxRecords
         /\ Record = image.records[index + 1]
         /\ Record.before \in Nat /\ Record.hold \in Nat /\ Record.after \in Nat
         /\ Record.source \in 0 .. U32Max /\ KeyOf(Record) \in Key
<1>1. index < image.header.count /\ index \in Nat /\ pc \notin Verifying \union {"done"}
  BY DEF PlaceKnown, TypeOK, Verifying
<1>2. image.header.count \in 3 .. MaxRecords /\ image.header.count \in Nat
  BY <1>1, RunSound, LimitsAssumption
<1>3. index + 1 \in 1 .. image.header.count BY <1>1, <1>2
<1>4. QED BY <1>1, <1>2, <1>3, RunSound DEF Record

LEMMA ExecutorTypes ==
  ASSUME TypeOK, VerifierKnown, VerdictIsRight, PlaceKnown, ExecutorStep
  PROVE  TypeOK'
<1> DEFINE Rest == UNCHANGED <<image, verifyVars, now, connected>>
<1>1. Rest BY RunKeeps
<1>2. \A us \in Nat : TicksOf(us) \in Nat BY TicksRoundUp
<1>3. /\ now \in Nat /\ wake \in now .. now + SliceTicks /\ left \in Nat /\ SliceTicks \in Nat
      /\ SecondTicks \in Nat /\ Countdown \in Nat /\ MaxRecords \in Nat
  BY TimeAssumption, LimitsAssumption DEF TypeOK
<1>4. ASSUME NEW sent \in Reports, Arm(sent) PROVE TypeOK'
  <2>1. /\ pc' \in {"done", "countdown", "fetch"} /\ outcome' \in {outcome, "WAIT_FAILED",
                                                                  "RELEASE_FAILED"}
        /\ stop' \in {stop, FALSE} /\ stoppedAt' \in {stoppedAt, -1}
        /\ typed' = typed /\ down' \in {down, (down /\ ~(connected /\ sent # "none"))}
        /\ seconds' \in {seconds, Countdown} /\ started' = now
        /\ \/ UNCHANGED waitVars
           \/ left' = SecondTicks /\ wake' = now
        /\ UNCHANGED <<index, progress>>
    BY <1>4 DEF Arm, ReleaseAll, WaitAt, linkVars, hostVars
  <2>2. down' \in BOOLEAN /\ stop' \in BOOLEAN BY <2>1 DEF TypeOK
  <2>3. /\ stoppedAt' \in {-1} \union 0 .. now /\ seconds' \in 0 .. Countdown
        /\ started' \in 0 .. now
    BY <1>3, <2>1 DEF TypeOK
  <2>4. left' \in Nat /\ wake' \in now .. now + SliceTicks BY <1>3, <2>1 DEF waitVars
  <2>5. QED BY <1>1, <2>1, <2>2, <2>3, <2>4 DEF TypeOK, Waiting, verifyVars
<1>5. ASSUME NEW sent \in Reports, Abort(sent) PROVE TypeOK'
  BY <1>1, <1>3, <1>5 DEF TypeOK, Abort, ReleaseAll, Waiting, waitVars, verifyVars, runVars
<1>6. ASSUME NEW sent \in Reports, Release(sent) PROVE TypeOK'
  <2>1. /\ index + 1 \in 0 .. MaxRecords /\ Record.source \in 0 .. U32Max
        /\ TicksOf(Record.after) \in Nat
    <3>1. pc = "release" BY <1>6 DEF Release
    <3>2. QED BY <1>2, <1>3, <3>1, RecordInHand
  <2>2. /\ pc' \in {"ending", "after", "fetch"} /\ index' \in {index, index + 1}
        /\ outcome' \in {outcome, "RELEASE_FAILED", "STOPPED"}
        /\ \/ UNCHANGED waitVars
           \/ left' = TicksOf(Record.after) /\ wake' = now
        /\ progress' \in {progress, [source |-> Record.source, records |-> index + 1]}
        /\ typed' = typed /\ down' \in BOOLEAN
        /\ UNCHANGED <<linkVars, started, seconds>>
    BY <1>6 DEF Release, Finish, WaitAt, ReleaseAll
  <2>3. left' \in Nat /\ wake' \in now .. now + SliceTicks
    BY <1>3, <2>1, <2>2 DEF waitVars
  <2>4. /\ progress' \in [source : 0 .. U32Max, records : 0 .. MaxRecords]
        /\ index' \in 0 .. MaxRecords
    <3>1. index' \in 0 .. MaxRecords BY <2>1, <2>2 DEF TypeOK
    <3>2. progress \in [source : 0 .. U32Max, records : 0 .. MaxRecords] BY DEF TypeOK
    <3>3. [source |-> Record.source, records |-> index + 1]
            \in [source : 0 .. U32Max, records : 0 .. MaxRecords]
      BY <2>1
    <3>4. QED BY <2>2, <3>1, <3>2, <3>3
  <2>5. /\ connected' \in BOOLEAN /\ stop' \in BOOLEAN /\ stoppedAt' \in {-1} \union 0 .. now'
        /\ started' \in 0 .. now' /\ seconds' \in 0 .. Countdown /\ typed' \in Seq(Key)
    BY <1>1, <2>2 DEF TypeOK, linkVars
  <2>6. now' \in Nat /\ verdict' \in Protocol /\ previous' \in 0 .. U32Max
          /\ total' \in 0 .. U64Max
    BY <1>1 DEF TypeOK, verifyVars
  <2>7. outcome' \in {"none", "COMPLETED", "STOPPED", "WAIT_FAILED", "KEY_DOWN_FAILED",
                      "RELEASE_FAILED", "PROTOCOL_READ_FAILED"}
    BY <2>2 DEF TypeOK
  <2>8. QED BY <1>1, <2>2, <2>3, <2>4, <2>5, <2>6, <2>7 DEF TypeOK, Waiting
<1>7. ASSUME NEW sent \in Reports, EndRelease(sent) PROVE TypeOK'
  BY <1>1, <1>3, <1>7 DEF TypeOK, EndRelease, ReleaseAll, Waiting, waitVars, verifyVars
<1>8. ASSUME NEW ok \in BOOLEAN, Fetch(ok) PROVE TypeOK'
  <2>1. TicksOf(Record.before) \in Nat BY <1>2, <1>8, RecordInHand DEF Fetch
  <2>2. QED BY <1>1, <1>3, <1>8, <2>1
        DEF TypeOK, Fetch, Finish, WaitAt, Waiting, waitVars, linkVars, hostVars, verifyVars
<1>9. ASSUME NEW ok \in BOOLEAN, Press(ok) PROVE TypeOK'
  <2>1. TicksOf(Record.hold) \in Nat /\ KeyOf(Record) \in Key
    <3>1. pc = "press" BY <1>9 DEF Press
    <3>2. QED BY <1>2, <3>1, RecordInHand
  <2>2. Append(typed, KeyOf(Record)) \in Seq(Key) BY <2>1 DEF TypeOK
  <2>3. /\ pc' \in {"ending", "hold"} /\ outcome' \in {outcome, "STOPPED", "KEY_DOWN_FAILED"}
        /\ typed' \in {typed, Append(typed, KeyOf(Record))} /\ down' \in {down, TRUE}
        /\ \/ UNCHANGED waitVars
           \/ left' = TicksOf(Record.hold) /\ wake' = now
        /\ UNCHANGED <<index, linkVars, progress, started, seconds>>
    BY <1>9 DEF Press, Finish, WaitAt, hostVars
  <2>4. down' \in BOOLEAN /\ typed' \in Seq(Key) BY <2>2, <2>3 DEF TypeOK
  <2>5. left' \in Nat /\ wake' \in now .. now + SliceTicks BY <1>3, <2>1, <2>3 DEF waitVars
  <2>6. QED BY <1>1, <2>3, <2>4, <2>5 DEF TypeOK, Waiting, linkVars, verifyVars
<1>10. CASE Sleep
  <2>1. Slice(left) \in Nat /\ Slice(left) <= left /\ Slice(left) <= SliceTicks
    BY <1>3, SliceIsPart
  <2>2. left' \in Nat /\ wake' \in now .. now + SliceTicks BY <1>3, <1>10, <2>1 DEF Sleep
  <2>3. QED BY <1>1, <1>10, <2>2 DEF TypeOK, Sleep, linkVars, hostVars, verifyVars, runVars
<1>11. CASE Halt
  BY <1>1, <1>3, <1>11 DEF TypeOK, Halt, Waiting, waitVars, linkVars, hostVars, verifyVars
<1>12. CASE CountdownOver
  <2>1. seconds - 1 \in 0 .. Countdown
    BY <1>3, <1>12 DEF CountdownOver, PlaceKnown, TypeOK
  <2>2. QED BY <1>1, <1>3, <1>12, <2>1
        DEF TypeOK, CountdownOver, WaitAt, Waiting, waitVars, linkVars, hostVars, verifyVars
<1>13. CASE WaitOver
  BY <1>1, <1>3, <1>13
  DEF TypeOK, WaitOver, Waiting, waitVars, linkVars, hostVars, verifyVars, runVars
<1>14. CASE NextRecord
  <2>1. index + 1 \in 0 .. MaxRecords
    <3>1. pc = "after" BY <1>14 DEF NextRecord
    <3>2. QED BY <1>3, <3>1, RecordInHand
  <2>2. QED BY <1>1, <1>3, <1>14, <2>1
        DEF TypeOK, NextRecord, waitVars, linkVars, hostVars, verifyVars, runVars
<1>15. CASE AllTyped
  BY <1>1, <1>3, <1>15
  DEF TypeOK, AllTyped, Finish, waitVars, linkVars, hostVars, verifyVars
<1>16. QED
  BY <1>4, <1>5, <1>6, <1>7, <1>8, <1>9, <1>10, <1>11, <1>12, <1>13, <1>14, <1>15
  DEF ExecutorStep

LEMMA WorldTypes ==
  ASSUME TypeOK, WorldStep
  PROVE  TypeOK'
<1>1. SliceTicks \in Nat BY TimeAssumption
<1> USE DEF TypeOK, verifyVars, linkVars, waitVars, hostVars, runVars
<1>2. CASE Tick BY <1>1, <1>2 DEF Tick
<1>3. CASE StopRequest BY <1>3 DEF StopRequest, Stopped
<1>4. CASE LinkDown
  <2>1. stoppedAt' \in {-1} \union 0 .. now BY <1>4 DEF LinkDown, Stopped
  <2>2. QED BY <1>4, <2>1 DEF LinkDown, Stopped
<1>5. CASE LinkUp BY <1>5 DEF LinkUp
<1>6. QED BY <1>2, <1>3, <1>4, <1>5 DEF WorldStep
\* The world leaves the task where it is.
LEMMA WorldKeeps ==
  ASSUME WorldStep \/ UNCHANGED vars
  PROVE  /\ UNCHANGED <<image, pc, verifyVars, index, waitVars, runVars, typed>>
         /\ down' \in {down, FALSE}
BY DEF WorldStep, Tick, StopRequest, LinkDown, LinkUp, vars, hostVars

\* Only the verifier touches what it has established.
LEMMA VerifierStays ==
  ASSUME TypeOK, VerifierKnown, VerdictIsRight, ExecutorStep \/ WorldStep \/ UNCHANGED vars
  PROVE  VerifierKnown' /\ VerdictIsRight'
<1>1. CASE ExecutorStep
  <2>1. UNCHANGED <<image, verifyVars>> /\ verdict = "OK"
    BY <1>1, RunKeeps DEF VerifierKnown
  <2>2. pc' \notin Verifying
    BY <1>1 DEF ExecutorStep, Arm, Abort, Release, EndRelease, Fetch, Press, Sleep, Halt,
       CountdownOver, WaitOver, NextRecord, AllTyped, Verifying, Waiting, Finish, WaitAt
  <2>3. QED BY <2>1, <2>2 DEF VerifierKnown, VerdictIsRight, verifyVars, Verifying
<1>2. CASE WorldStep \/ UNCHANGED vars
  <2>1. UNCHANGED <<image, pc, verifyVars, index>> BY <1>2, WorldKeeps
  <2>2. HeaderSound' <=> HeaderSound BY <2>1 DEF HeaderSound
  <2>3. DigestSound' <=> DigestSound BY <2>1 DEF DigestSound
  <2>4. \A k : PlaceSound(k)' <=> PlaceSound(k) BY <2>1 DEF PlaceSound
  <2>5. Scanned' <=> Scanned BY <2>1, <2>4 DEF Scanned, verifyVars
  <2>6. VerifierKnown' BY <2>1, <2>2, <2>3, <2>5 DEF VerifierKnown, verifyVars
  <2>7. VerdictIsRight' BY <2>1 DEF VerdictIsRight, verifyVars
  <2>8. QED BY <2>6, <2>7
<1>3. QED BY <1>1, <1>2

LEMMA QuietStep ==
  ASSUME TypeOK, VerifierKnown, QuietKnown, [Next]_vars
  PROVE  QuietKnown'
<1>1. CASE VerifyStep
  <2>1. UNCHANGED <<linkVars, waitVars, now, hostVars, runVars>> /\ pc \in Verifying
    BY <1>1 DEF VerifyStep, VerifyHeader, VerifyDigest, VerifyRecord, VerifyEnd, Verifying
  <2>2. QED BY <2>1 DEF QuietKnown, linkVars, waitVars, hostVars, runVars
<1>2. CASE ExecutorStep
  <2>1. UNCHANGED verifyVars /\ verdict = "OK"
    BY <1>2, RunKeeps DEF VerifierKnown
  <2>2. pc' \notin Verifying \union {"arm"}
    BY <1>2 DEF ExecutorStep, Arm, Abort, Release, EndRelease, Fetch, Press, Sleep, Halt,
       CountdownOver, WaitOver, NextRecord, AllTyped, Verifying, Waiting, Finish, WaitAt
  <2>3. QED BY <2>1, <2>2 DEF QuietKnown, verifyVars
<1>3. CASE WorldStep \/ UNCHANGED vars
  <2>1. /\ UNCHANGED <<pc, verifyVars, waitVars, runVars, typed>>
        /\ down' \in {down, FALSE}
    BY <1>3, WorldKeeps
  <2>2. QED BY <2>1 DEF QuietKnown, verifyVars, waitVars, runVars
<1>4. QED BY <1>1, <1>2, <1>3 DEF Next, WorldStep

-----------------------------------------------------------------------------
(* Where the run is, and what it has typed *)

LEMMA PlaceStep ==
  ASSUME TypeOK, VerifierKnown, VerdictIsRight, QuietKnown, PlaceKnown, [Next]_vars
  PROVE  PlaceKnown'
<1> USE DEF Waiting, Ended, Verifying
<1>1. CASE VerifyStep
  <2>1. /\ UNCHANGED <<hostVars, runVars>> /\ pc \in Verifying /\ verdict = "none"
    BY <1>1 DEF VerifyStep, VerifyHeader, VerifyDigest, VerifyRecord, VerifyEnd, VerifierKnown
  <2>2. VerifierKnown' BY <1>1, VerifierStep
  <2>3. CASE verdict' # "OK"
    BY <2>1, <2>2, <2>3 DEF PlaceKnown, QuietKnown, VerifierKnown, hostVars, runVars
  <2>4. CASE verdict' = "OK"
    <3>1. ~\E ok \in BOOLEAN : VerifyHeader(ok)
      BY <2>1, <2>4, Zenon DEF VerifyHeader, Reject, verifyVars
    <3>2. ~\E ok \in BOOLEAN : VerifyDigest(ok)
      BY <2>1, <2>4, Zenon DEF VerifyDigest, Reject, verifyVars
    <3>3. ~\E ok \in BOOLEAN : VerifyRecord(ok)
      BY <2>1, <2>4, Zenon DEF VerifyRecord, Reject
    <3>4. VerifyEnd BY <1>1, <3>1, <3>2, <3>3 DEF VerifyStep
    <3>5. pc' = "arm" /\ index' = 0 /\ image' = image /\ pc = "records"
      BY <2>4, <3>4 DEF VerifyEnd, Reject
    <3>6. image.header.count \in Nat BY <3>5, RecordsInFile DEF VerifierKnown
    <3>7. QED BY <2>1, <2>4, <3>5, <3>6 DEF PlaceKnown, QuietKnown, hostVars, runVars
  <2>5. QED BY <2>3, <2>4
<1>2. CASE ExecutorStep
  <2>1. UNCHANGED <<image, verifyVars>> /\ verdict = "OK" /\ image.header.count \in Nat
    BY <1>2, RunKeeps, RunSound
  <2> USE DEF PlaceKnown, verifyVars
  <2>2. ASSUME NEW sent \in Reports, Arm(sent) PROVE PlaceKnown'
    <3>1. typed = <<>> /\ index = 0 /\ progress.records = 0 /\ ~down
      BY <2>2 DEF Arm, QuietKnown
    <3>2. /\ index' = index /\ progress' = progress /\ typed' = typed /\ ~down'
      BY <2>2, <3>1 DEF Arm, ReleaseAll, hostVars
    <3>3. \/ pc' = "done" /\ outcome' # "none"
          \/ pc' = "countdown" /\ seconds' > 0 /\ outcome' = outcome
          \/ pc' = "fetch" /\ outcome' = outcome
      BY <2>2, TimeAssumption DEF Arm, WaitAt
    <3>4. outcome = "none" BY <2>2 DEF Arm
    <3>5. Len(typed) = 0 BY <3>1
    <3>6. QED BY <2>1, <3>1, <3>2, <3>3, <3>4, <3>5
  <2>3. ASSUME NEW sent \in Reports, Abort(sent) PROVE PlaceKnown'
    BY <2>1, <2>3 DEF Abort, ReleaseAll, runVars
  <2>4. ASSUME NEW sent \in Reports, Release(sent) PROVE PlaceKnown'
    <3>1. /\ pc = "release" /\ index < image.header.count /\ outcome = "none"
          /\ Len(typed) = index + 1 /\ progress.records = index /\ typed' = typed
          /\ index \in Nat
      BY <2>4 DEF Release, ReleaseAll, TypeOK
    <3>2. CASE ~Released(sent) BY <2>1, <2>4, <3>1, <3>2 DEF Release, Finish
    <3>3. CASE Released(sent)
      <4>1. ~down' BY <2>4, <3>3 DEF Release, ReleaseAll, Released
      <4>2. progress'.records = index + 1 BY <2>4, <3>3 DEF Release
      <4>3. \/ pc' = "ending" /\ outcome' = "STOPPED" /\ index' = index
            \/ pc' = "after" /\ outcome' = outcome /\ index' = index
            \/ pc' = "fetch" /\ outcome' = outcome /\ index' = index + 1
        BY <2>4, <3>3 DEF Release, Finish, WaitAt
      <4>4. QED BY <2>1, <3>1, <4>1, <4>2, <4>3
    <3>4. QED BY <3>2, <3>3
  <2>5. ASSUME NEW sent \in Reports, EndRelease(sent) PROVE PlaceKnown'
    BY <2>1, <2>5 DEF EndRelease, ReleaseAll
  <2>6. ASSUME NEW ok \in BOOLEAN, Fetch(ok) PROVE PlaceKnown'
    BY <2>1, <2>6 DEF Fetch, Finish, WaitAt, hostVars
  <2>7. ASSUME NEW ok \in BOOLEAN, Press(ok) PROVE PlaceKnown'
    BY <2>1, <2>7 DEF Press, Finish, WaitAt, hostVars, TypeOK
  <2>8. CASE Sleep BY <2>1, <2>8 DEF Sleep, hostVars, runVars
  <2>9. CASE Halt BY <2>1, <2>9 DEF Halt, hostVars
  <2>10. CASE CountdownOver BY <2>1, <2>10 DEF CountdownOver, WaitAt, hostVars, TypeOK
  <2>11. CASE WaitOver BY <2>1, <2>11 DEF WaitOver, hostVars, runVars
  <2>12. CASE NextRecord BY <2>1, <2>12 DEF NextRecord, hostVars, runVars, TypeOK
  <2>13. CASE AllTyped BY <2>1, <2>13 DEF AllTyped, Finish, hostVars
  <2>14. QED
    BY <1>2, <2>2, <2>3, <2>4, <2>5, <2>6, <2>7, <2>8, <2>9, <2>10, <2>11, <2>12, <2>13
    DEF ExecutorStep
<1>3. CASE WorldStep \/ UNCHANGED vars
  <2>1. /\ UNCHANGED <<image, pc, verifyVars, index, runVars, typed>>
        /\ down' \in {down, FALSE}
    BY <1>3, WorldKeeps
  <2>2. ~down => ~down' BY <2>1
  <2>3. /\ image' = image /\ pc' = pc /\ index' = index /\ typed' = typed
        /\ verdict' = verdict /\ outcome' = outcome /\ progress' = progress
        /\ seconds' = seconds
    BY <2>1 DEF verifyVars, runVars
  <2>4. QED BY <2>2, <2>3 DEF PlaceKnown
<1>4. QED BY <1>1, <1>2, <1>3 DEF Next, WorldStep

LEMMA ProgressStep ==
  ASSUME TypeOK, VerifierKnown, VerdictIsRight, PlaceKnown, ProgressKnown, [Next]_vars
  PROVE  ProgressKnown'
<1>1. ASSUME image' = image, progress' = progress PROVE ProgressKnown'
  BY <1>1 DEF ProgressKnown
<1>2. CASE VerifyStep
  <2>1. image' = image /\ progress' = progress
    BY <1>2 DEF VerifyStep, VerifyHeader, VerifyDigest, VerifyRecord, VerifyEnd, runVars
  <2>2. QED BY <1>1, <2>1
<1>3. CASE ExecutorStep
  <2>1. image' = image BY <1>3, RunKeeps
  <2>2. ASSUME NEW sent \in Reports, Release(sent) PROVE ProgressKnown'
    <3>1. CASE Released(sent)
      <4>1. pc = "release" /\ progress' = [source |-> Record.source, records |-> index + 1]
        BY <2>2, <3>1 DEF Release
      <4>2. index + 1 \in Nat /\ index + 1 # 0 /\ Record = image.records[index + 1]
        BY <4>1, RecordInHand
      <4>3. QED BY <2>1, <4>1, <4>2 DEF ProgressKnown
    <3>2. CASE ~Released(sent) BY <1>1, <2>1, <2>2, <3>2 DEF Release
    <3>3. QED BY <3>1, <3>2
  <2>3. CASE ~\E sent \in Reports : Release(sent)
    <3>1. progress' = progress
      BY <1>3, <2>3 DEF ExecutorStep, Arm, Abort, EndRelease, Fetch, Press, Sleep, Halt,
         CountdownOver, WaitOver, NextRecord, AllTyped, runVars
    <3>2. QED BY <1>1, <2>1, <3>1
  <2>4. QED BY <2>2, <2>3
<1>4. CASE WorldStep \/ UNCHANGED vars
  BY <1>1, <1>4, WorldKeeps DEF runVars
<1>5. QED BY <1>2, <1>3, <1>4 DEF Next, WorldStep

\* What was typed and reported stays true as long as no key goes down.
LEMMA TypedStays ==
  ASSUME TypedAsVerified, UNCHANGED <<image, typed, progress>>, ~down => ~down',
         outcome' = "COMPLETED" => outcome = "COMPLETED"
  PROVE  TypedAsVerified'
BY DEF TypedAsVerified

LEMMA TypedStep ==
  ASSUME TypeOK, VerifierKnown, VerdictIsRight, QuietKnown, PlaceKnown, TypedAsVerified,
         [Next]_vars
  PROVE  TypedAsVerified'
<1>1. CASE VerifyStep
  <2>1. UNCHANGED <<image, hostVars, runVars>>
    BY <1>1 DEF VerifyStep, VerifyHeader, VerifyDigest, VerifyRecord, VerifyEnd
  <2>2. QED BY <2>1, TypedStays DEF hostVars, runVars
<1>2. CASE ExecutorStep
  <2>1. UNCHANGED image BY <1>2, RunKeeps
  <2>2. ASSUME NEW sent \in Reports, Release(sent) PROVE TypedAsVerified'
    <3>1. pc = "release" /\ typed' = typed /\ (~down => ~down')
      BY <2>2 DEF Release, ReleaseAll
    <3>2. CASE ~Released(sent)
      BY <2>1, <2>2, <3>1, <3>2, TypedStays DEF Release, Finish
    <3>3. CASE Released(sent)
      <4>1. progress' = [source |-> Record.source, records |-> index + 1]
        BY <2>2, <3>3 DEF Release
      <4>2. ~down' BY <2>2, <3>3 DEF Release, ReleaseAll, Released
      <4>3. outcome = "none" BY <3>1 DEF PlaceKnown, Ended
      <4>4. outcome' # "COMPLETED" BY <2>2, <3>3, <4>3 DEF Release, Finish
      <4>5. /\ index + 1 \in 1 .. image.header.count /\ index \in Nat
            /\ Record = image.records[index + 1]
        BY <3>1, RecordInHand
      <4>6. WellFormed(image) /\ image \in Images
        BY <3>1, RunSound DEF Verifying
      <4>7. PlaceSound(index + 1) BY <4>5, <4>6, WellFormedParts
      <4>8. /\ Record.source <= image.header.characters
            /\ \A k \in 1 .. index + 1 : image.records[k].source <= Record.source
        BY <4>5, <4>7 DEF PlaceSound
      <4>9. Len(typed) = index + 1 BY <3>1 DEF PlaceKnown
      <4>10. /\ typed # <<>> => WellFormed(image)
             /\ \A k \in DOMAIN typed : typed[k] = KeyOf(image.records[k])
        BY DEF TypedAsVerified
      <4>11. QED BY <2>1, <3>1, <4>1, <4>2, <4>4, <4>5, <4>8, <4>9, <4>10
             DEF TypedAsVerified
    <3>4. QED BY <3>2, <3>3
  <2>3. ASSUME NEW ok \in BOOLEAN, Press(ok) PROVE TypedAsVerified'
    <3>1. pc = "press" /\ progress' = progress BY <2>3 DEF Press
    <3>2. CASE ~(~Stopping /\ ok)
      <4>1. UNCHANGED hostVars /\ outcome' # "COMPLETED"
        BY <2>3, <3>2 DEF Press, Finish
      <4>2. QED BY <2>1, <3>1, <4>1, TypedStays DEF hostVars
    <3>3. CASE ~Stopping /\ ok
      <4>1. typed' = Append(typed, KeyOf(Record)) /\ outcome' = outcome
        BY <2>3, <3>3 DEF Press
      <4>2. /\ Len(typed) = index /\ progress.records = index /\ index \in Nat
            /\ outcome = "none" /\ typed \in Seq(Key)
        BY <3>1 DEF PlaceKnown, TypeOK, Ended
      <4>3. WellFormed(image) BY <3>1, RunSound DEF Verifying
      <4>4. Record = image.records[index + 1] /\ KeyOf(Record) \in Key
        BY <3>1, RecordInHand
      <4>5. \A k \in DOMAIN typed : typed[k] = KeyOf(image.records[k])
        BY DEF TypedAsVerified
      <4>6. Len(typed') = index + 1 /\ DOMAIN typed' = 1 .. index + 1
        BY <4>1, <4>2, <4>4
      <4>7. \A k \in DOMAIN typed' : typed'[k] = KeyOf(image.records[k])
        <5> TAKE k \in DOMAIN typed'
        <5>1. CASE k = index + 1 BY <4>1, <4>2, <4>4, <5>1
        <5>2. CASE k # index + 1
          <6>1. k \in 1 .. index /\ 1 .. index = DOMAIN typed BY <4>2, <4>6, <5>2
          <6>2. typed'[k] = typed[k] BY <4>1, <4>2, <4>4, <6>1
          <6>3. QED BY <4>5, <6>1, <6>2
        <5>3. QED BY <5>1, <5>2
      <4>8. /\ progress.source <= image.header.characters
            /\ \A k \in 1 .. progress.records : image.records[k].source <= progress.source
        BY DEF TypedAsVerified
      <4>9. /\ progress'.records \in {Len(typed') - 1, Len(typed')} \intersect Nat
            /\ progress'.records = Len(typed') - 1
        BY <3>1, <4>2, <4>6
      <4>10. outcome' # "COMPLETED" BY <4>1, <4>2
      <4>11. QED BY <2>1, <3>1, <4>3, <4>7, <4>8, <4>9, <4>10 DEF TypedAsVerified
    <3>4. QED BY <3>2, <3>3
  <2>4. CASE AllTyped
    <3>1. /\ UNCHANGED <<typed, down, progress>> /\ pc = "fetch"
          /\ index = image.header.count
      BY <2>4 DEF AllTyped, hostVars
    <3>2. progress.records = image.header.count /\ Len(typed) = image.header.count
      BY <3>1 DEF PlaceKnown
    <3>3. QED BY <2>1, <3>1, <3>2 DEF TypedAsVerified
  <2>5. CASE /\ ~AllTyped /\ ~\E ok \in BOOLEAN : Press(ok)
             /\ ~\E sent \in Reports : Release(sent)
    <3>1. PICK sent \in Reports :
            \/ Arm(sent) \/ Abort(sent) \/ EndRelease(sent)
            \/ (\E ok \in BOOLEAN : Fetch(ok))
            \/ Sleep \/ Halt \/ CountdownOver \/ WaitOver \/ NextRecord
      BY <1>2, <2>5 DEF ExecutorStep, Reports
    <3>2. UNCHANGED <<typed, progress>>
      BY <3>1 DEF Arm, Abort, EndRelease, Fetch, Sleep, Halt, CountdownOver, WaitOver,
         NextRecord, ReleaseAll, hostVars, runVars
    <3>3. outcome' = "COMPLETED" => outcome = "COMPLETED"
      BY <3>1 DEF Arm, Abort, EndRelease, Fetch, Sleep, Halt, CountdownOver, WaitOver,
         NextRecord, Finish, runVars
    <3>4. CASE Arm(sent) \/ Abort(sent) \/ EndRelease(sent)
      <4>1. down' = down \/ ReleaseAll(sent) BY <3>4 DEF Arm, Abort, EndRelease, hostVars
      <4>2. ~down => ~down' BY <4>1 DEF ReleaseAll
      <4>3. QED BY <2>1, <3>2, <3>3, <4>2, TypedStays
    <3>5. CASE \/ \E ok \in BOOLEAN : Fetch(ok)
               \/ Sleep \/ Halt \/ CountdownOver \/ WaitOver \/ NextRecord
      <4>1. down' = down
        BY <3>5 DEF Fetch, Sleep, Halt, CountdownOver, WaitOver, NextRecord, hostVars
      <4>2. QED BY <2>1, <3>2, <3>3, <4>1, TypedStays
    <3>6. QED BY <3>1, <3>4, <3>5
  <2>6. QED BY <2>2, <2>3, <2>4, <2>5
<1>3. CASE WorldStep \/ UNCHANGED vars
  <2>1. UNCHANGED <<image, typed, progress, outcome>> /\ down' \in {down, FALSE}
    BY <1>3, WorldKeeps DEF runVars
  <2>2. ~down => ~down' BY <2>1
  <2>3. QED BY <2>1, <2>2, TypedStays
<1>4. QED BY <1>1, <1>2, <1>3 DEF Next, WorldStep

-----------------------------------------------------------------------------
(* The time a run takes *)

\* One wait more, rounded up ...
LEMMA WaitSpends ==
  ASSUME NEW ticks \in Int, NEW us \in Nat, NEW waits \in Nat, NEW d \in Nat,
         Spent(ticks, us, waits)
  PROVE  Spent(ticks + TicksOf(d), us + d, waits + 1)
<1>1. /\ TicksOf(d) \in Nat /\ TickUs \in Nat
      /\ d <= TicksOf(d) * TickUs /\ TicksOf(d) * TickUs <= d + (TickUs - 1)
  BY TicksRoundUp, TimeAssumption
<1> DEFINE a == ticks * TickUs
           b == TicksOf(d) * TickUs
           c == waits * (TickUs - 1)
<1>2. /\ (ticks + TicksOf(d)) * TickUs = a + b
      /\ (waits + 1) * (TickUs - 1) = c + (TickUs - 1)
      /\ a \in Int /\ b \in Int /\ c \in Int
  BY <1>1
<1>3. us <= a /\ a <= us + c /\ d <= b /\ b <= d + (TickUs - 1) BY <1>1 DEF Spent
<1> HIDE DEF a, b, c
<1>4. us + d <= a + b /\ a + b <= (us + d) + (c + (TickUs - 1)) BY <1>1, <1>2, <1>3
<1>5. QED BY <1>2, <1>4 DEF Spent

\* ... or none, where the record asks for none.
LEMMA NoWaitSpends ==
  ASSUME NEW ticks \in Int, NEW us \in Nat, NEW waits \in Nat, Spent(ticks, us, waits)
  PROVE  Spent(ticks, us, waits + 1)
<1>1. TickUs \in Nat /\ TickUs > 0 BY TimeAssumption
<1> DEFINE a == ticks * TickUs
           c == waits * (TickUs - 1)
<1>2. (waits + 1) * (TickUs - 1) = c + (TickUs - 1) /\ a \in Int /\ c \in Int BY <1>1
<1>3. us <= a /\ a <= us + c BY DEF Spent
<1> HIDE DEF a, c
<1>4. us <= a /\ a <= us + (c + (TickUs - 1)) BY <1>1, <1>2, <1>3
<1>5. QED BY <1>2, <1>4 DEF Spent, a

\* What the records before the one in hand take, and what it adds.
LEMMA SumInHand ==
  ASSUME TypeOK, VerifierKnown, VerdictIsRight, PlaceKnown,
         \/ pc \in {"before", "press", "hold", "release", "after"}
         \/ pc = "fetch" /\ index < image.header.count
  PROVE  /\ Sum(image.records, index) \in Nat
         /\ Sum(image.records, index + 1)
              = Sum(image.records, index) + Record.before + Record.hold + Record.after
<1>1. /\ index \in Nat /\ index + 1 \in 1 .. image.header.count
      /\ image.header.count \in Nat /\ Record = image.records[index + 1]
      /\ Record.before \in Nat /\ Record.hold \in Nat /\ Record.after \in Nat
  BY RecordInHand
<1>2. \A k \in 1 .. image.header.count : DurationOf(image.records[k]) \in Nat
  BY RunSound DEF Verifying, DurationOf
<1>3. Sum(image.records, index) \in Nat BY <1>1, <1>2, SumGrows
<1>4. Sum(image.records, index + 1) = Sum(image.records, index) + DurationOf(Record)
  BY <1>1, SumSteps
<1>5. QED BY <1>1, <1>3, <1>4 DEF DurationOf

\* Nothing of the account changes while the sum of the two counters does not.
LEMMA TimeStays ==
  ASSUME TypeOK, TimeKnown, UNCHANGED <<image, pc, index, started>>,
         wake' + left' = wake + left, pc \notin Waiting => wake' = now' /\ left' = left,
         outcome' = outcome, outcome = "COMPLETED" => left' = left
  PROVE  TimeKnown'
<1>1. (wake' + left') - started' = (wake + left) - started OBVIOUS
<1>2. \A us, waits : Spent((wake + left) - started, us, waits)
                       <=> Spent((wake' + left') - started', us, waits)
  BY <1>1
<1>3. QED BY <1>2 DEF TimeKnown, Due, Record, Waiting

\* A wait that begins now adds what it is asked for.
LEMMA WaitAdds ==
  ASSUME TypeOK, NEW us \in Nat, NEW waits \in Nat, NEW d \in Nat,
         Due(us, waits), left = 0, wake = now
  PROVE  /\ Spent((now + TicksOf(d)) - started, us + d, waits + 1)
         /\ Spent((wake + left) - started, us, waits + 1)
<1>1. now \in Int /\ started \in Int BY DEF TypeOK
<1>2. now - started \in Int /\ (wake + left) - started = now - started BY <1>1
<1>3. Spent(now - started, us, waits) BY <1>2 DEF Due
<1>4. TicksOf(d) \in Nat BY TicksRoundUp
<1>5. (now + TicksOf(d)) - started = (now - started) + TicksOf(d) BY <1>1, <1>4
<1>6. Spent((now - started) + TicksOf(d), us + d, waits + 1)
  BY <1>2, <1>3, WaitSpends
<1>7. Spent(now - started, us, waits + 1) BY <1>2, <1>3, NoWaitSpends
<1>8. QED BY <1>2, <1>5, <1>6, <1>7

LEMMA TimeStep ==
  ASSUME TypeOK, VerifierKnown, VerdictIsRight, QuietKnown, PlaceKnown, TimeKnown,
         [Next]_vars
  PROVE  TimeKnown'
<1> USE DEF Waiting
<1>1. CASE VerifyStep
  <2>1. /\ UNCHANGED <<waitVars, now, runVars>> /\ pc \in Verifying /\ outcome = "none"
    BY <1>1 DEF VerifyStep, VerifyHeader, VerifyDigest, VerifyRecord, VerifyEnd, Verifying,
       PlaceKnown, Ended
  <2>2. pc' \in Verifying \union {"arm", "done"}
    BY <1>1 DEF VerifyStep, VerifyHeader, VerifyDigest, VerifyRecord, VerifyEnd, Verifying,
       Reject
  <2>3. QED BY <2>1, <2>2 DEF TimeKnown, Verifying, waitVars, runVars
<1>2. CASE ExecutorStep
  <2>1. UNCHANGED <<image, now>> /\ now \in Int /\ wake \in Int /\ left \in Nat
    BY <1>2, RunKeeps DEF TypeOK
  <2> DEFINE done == Sum(image.records, index)
             count == image.header.count
  <2>2. ASSUME NEW sent \in Reports, Arm(sent) PROVE TimeKnown'
    <3>1. /\ pc = "arm" /\ index = 0 /\ index' = index /\ started' = now /\ left = 0
          /\ wake = now /\ outcome = "none"
      BY <2>2 DEF Arm, PlaceKnown, QuietKnown, TimeKnown, Ended
    <3>2. CASE pc' = "fetch"
      <4>1. UNCHANGED waitVars /\ outcome' = outcome BY <2>2, <3>2 DEF Arm, WaitAt
      <4>2. Sum(image.records, 0) = 0 BY SumSteps
      <4>3. (wake' + left') - started' = 0 BY <2>1, <3>1, <4>1 DEF waitVars
      <4>4. Spent(0, 0, 0) BY TimeAssumption DEF Spent
      <4>5. QED BY <2>1, <3>1, <3>2, <4>1, <4>2, <4>3, <4>4 DEF TimeKnown, Due, waitVars
    <3>3. CASE pc' # "fetch"
      <4>1. \/ pc' = "countdown" /\ outcome' = "none"
            \/ /\ pc' = "done" /\ UNCHANGED waitVars
               /\ outcome' \in {"WAIT_FAILED", "RELEASE_FAILED"}
        BY <2>2, <3>1, <3>3 DEF Arm, WaitAt
      <4>2. QED BY <2>1, <3>1, <4>1 DEF TimeKnown, waitVars
    <3>4. QED BY <3>2, <3>3
  <2>3. ASSUME NEW sent \in Reports, Abort(sent) PROVE TimeKnown'
    <3>1. /\ UNCHANGED <<index, waitVars, runVars>> /\ pc = "abort" /\ pc' = "done"
      BY <2>3 DEF Abort
    <3>2. QED BY <2>1, <3>1 DEF TimeKnown, Due, waitVars, runVars
  <2>4. ASSUME NEW sent \in Reports, Release(sent) PROVE TimeKnown'
    <3>1. pc = "release" /\ started' = started BY <2>4 DEF Release
    <3>2. /\ left = 0 /\ wake = now /\ outcome = "none"
          /\ Due(done + Record.before + Record.hold, 3 * index + 2)
      BY <3>1 DEF TimeKnown, PlaceKnown, Ended
    <3>3. CASE pc' = "ending"
      <4>1. UNCHANGED waitVars /\ outcome' # "COMPLETED"
        BY <2>4, <3>2, <3>3 DEF Release, Finish, WaitAt
      <4>2. QED BY <2>1, <3>2, <3>3, <4>1 DEF TimeKnown, waitVars
    <3>4. CASE pc' # "ending"
      <4>1. /\ outcome' = "none"
            /\ \/ /\ pc' = "after" /\ left' = TicksOf(Record.after) /\ wake' = now
                  /\ index' = index
               \/ pc' = "fetch" /\ index' = index + 1 /\ UNCHANGED waitVars
                  /\ ~(Record.after > 0)
        BY <2>4, <3>2, <3>4 DEF Release, Finish, WaitAt
      <4>2. /\ index \in Nat /\ done \in Nat
            /\ Record.before \in Nat /\ Record.hold \in Nat /\ Record.after \in Nat
            /\ Sum(image.records, index + 1)
                 = done + Record.before + Record.hold + Record.after
        BY <3>1, RecordInHand, SumInHand
      <4> DEFINE us == done + Record.before + Record.hold
      <4>3. us \in Nat /\ us + Record.after = Sum(image.records, index + 1)
              /\ 3 * index + 2 \in Nat /\ (3 * index + 2) + 1 = 3 * index + 3
              /\ 3 * (index + 1) = 3 * index + 3
        BY <4>2
      <4>4. /\ Spent((now + TicksOf(Record.after)) - started, us + Record.after,
                     (3 * index + 2) + 1)
            /\ Spent((wake + left) - started, us, (3 * index + 2) + 1)
        <5> HIDE DEF us
        <5>1. QED BY <3>2, <4>2, <4>3, WaitAdds DEF us
      <4>5. CASE pc' = "after"
        <5>1. Spent((wake' + left') - started', Sum(image.records, index + 1), 3 * index + 3)
          BY <3>1, <4>1, <4>3, <4>4, <4>5
        <5>2. QED BY <2>1, <4>1, <4>5, <5>1 DEF TimeKnown, Due
      <4>6. CASE pc' = "fetch"
        <5>1. us = Sum(image.records, index + 1) BY <4>1, <4>2, <4>3, <4>6
        <5>2. Spent((wake' + left') - started', Sum(image.records, index'), 3 * index')
          BY <3>1, <4>1, <4>3, <4>4, <4>6, <5>1 DEF waitVars
        <5>3. QED BY <2>1, <3>2, <4>1, <4>6, <5>2 DEF TimeKnown, Due, waitVars
      <4>7. QED BY <4>1, <4>5, <4>6
    <3>5. QED BY <3>3, <3>4
  <2>5. ASSUME NEW sent \in Reports, EndRelease(sent) PROVE TimeKnown'
    <3>1. /\ UNCHANGED <<index, waitVars, started>> /\ pc \notin Waiting
          /\ pc' \in {"disarm", "done"} /\ outcome' \in {outcome, "RELEASE_FAILED"}
      BY <2>5 DEF EndRelease
    <3>2. QED BY <2>1, <3>1 DEF TimeKnown, Due, waitVars
  <2>6. ASSUME NEW ok \in BOOLEAN, Fetch(ok) PROVE TimeKnown'
    <3>1. /\ pc = "fetch" /\ index < count /\ UNCHANGED <<index, started>>
      BY <2>6 DEF Fetch
    <3>2. left = 0 /\ wake = now /\ outcome = "none" /\ Due(done, 3 * index)
      BY <3>1 DEF TimeKnown, PlaceKnown, Ended
    <3>3. CASE pc' = "ending"
      <4>1. UNCHANGED waitVars /\ outcome' # "COMPLETED"
        BY <2>6, <3>2, <3>3 DEF Fetch, Finish, WaitAt
      <4>2. QED BY <2>1, <3>2, <3>3, <4>1 DEF TimeKnown, waitVars
    <3>4. CASE pc' # "ending"
      <4>1. /\ outcome' = "none"
            /\ \/ pc' = "before" /\ left' = TicksOf(Record.before) /\ wake' = now
               \/ pc' = "press" /\ UNCHANGED waitVars /\ ~(Record.before > 0)
        BY <2>6, <3>2, <3>4 DEF Fetch, Finish, WaitAt
      <4>2. index \in Nat /\ done \in Nat /\ Record.before \in Nat /\ 3 * index \in Nat
        BY <3>1, RecordInHand, SumInHand
      <4>3. /\ Spent((now + TicksOf(Record.before)) - started, done + Record.before,
                     3 * index + 1)
            /\ Spent((wake + left) - started, done, 3 * index + 1)
        <5> HIDE DEF done
        <5>1. QED BY <3>2, <4>2, WaitAdds
      <4>4. CASE pc' = "before"
        <5>1. Spent((wake' + left') - started', done + Record.before, 3 * index + 1)
          BY <3>1, <4>1, <4>3, <4>4
        <5>2. QED BY <2>1, <3>1, <4>1, <4>4, <5>1 DEF TimeKnown, Due, Record
      <4>5. CASE pc' = "press"
        <5>1. done = done + Record.before BY <4>1, <4>2, <4>5
        <5>2. Spent((wake' + left') - started', done + Record.before, 3 * index + 1)
          BY <3>1, <4>1, <4>3, <4>5, <5>1 DEF waitVars
        <5>3. QED BY <2>1, <3>1, <3>2, <4>1, <4>5, <5>2 DEF TimeKnown, Due, Record, waitVars
      <4>6. QED BY <4>1, <4>4, <4>5
    <3>5. QED BY <3>3, <3>4
  <2>7. ASSUME NEW ok \in BOOLEAN, Press(ok) PROVE TimeKnown'
    <3>1. /\ pc = "press" /\ UNCHANGED <<index, started>> BY <2>7 DEF Press
    <3>2. /\ left = 0 /\ wake = now /\ outcome = "none"
          /\ Due(done + Record.before, 3 * index + 1)
      BY <3>1 DEF TimeKnown, PlaceKnown, Ended
    <3>3. CASE pc' = "ending"
      <4>1. UNCHANGED waitVars /\ outcome' # "COMPLETED"
        BY <2>7, <3>2, <3>3 DEF Press, Finish, WaitAt
      <4>2. QED BY <2>1, <3>2, <3>3, <4>1 DEF TimeKnown, waitVars
    <3>4. CASE pc' # "ending"
      <4>1. /\ outcome' = "none" /\ pc' = "hold"
            /\ left' = TicksOf(Record.hold) /\ wake' = now
        BY <2>7, <3>2, <3>4 DEF Press, Finish, WaitAt
      <4>2. /\ index \in Nat /\ done + Record.before \in Nat /\ Record.hold \in Nat
            /\ 3 * index + 1 \in Nat /\ (3 * index + 1) + 1 = 3 * index + 2
        <5>1. done \in Nat BY <3>1, SumInHand
        <5>2. index \in Nat /\ Record.before \in Nat /\ Record.hold \in Nat
          BY <3>1, RecordInHand
        <5> HIDE DEF done
        <5>3. QED BY <5>1, <5>2
      <4>3. Spent((now + TicksOf(Record.hold)) - started, (done + Record.before) + Record.hold,
                  (3 * index + 1) + 1)
        <5> HIDE DEF done
        <5>1. QED BY <3>2, <4>2, WaitAdds
      <4>4. Spent((wake' + left') - started', done + Record.before + Record.hold,
                  3 * index + 2)
        BY <3>1, <4>1, <4>2, <4>3
      <4>5. QED BY <2>1, <3>1, <4>1, <4>4 DEF TimeKnown, Due, Record
    <3>5. QED BY <3>3, <3>4
  <2>8. CASE Sleep
    <3>1. /\ UNCHANGED <<image, pc, index, started, outcome>> /\ pc \in Waiting
          /\ left' = left - Slice(left) /\ wake' = wake + Slice(left)
      BY <2>8 DEF Sleep, runVars
    <3>2. Slice(left) \in Nat BY <2>1, SliceIsPart
    <3>3. wake' + left' = wake + left BY <2>1, <3>1, <3>2
    <3>4. outcome # "COMPLETED" BY <3>1 DEF PlaceKnown, Ended
    <3>5. QED BY <3>1, <3>3, <3>4, TimeStays
  <2>9. CASE Halt
    <3>1. /\ UNCHANGED waitVars /\ wake = now /\ pc' \in {"abort", "ending"}
          /\ outcome' = "STOPPED"
      BY <2>9 DEF Halt
    <3>2. QED BY <2>1, <3>1 DEF TimeKnown, waitVars
  <2>10. CASE CountdownOver
    <3>1. /\ pc = "countdown" /\ wake = now /\ left = 0 /\ UNCHANGED <<index, outcome>>
      BY <2>10 DEF CountdownOver
    <3>2. index = 0 /\ outcome = "none" BY <3>1 DEF PlaceKnown, Ended
    <3>3. CASE pc' = "fetch"
      <4>1. UNCHANGED waitVars /\ started' = now BY <2>10, <3>3 DEF CountdownOver, WaitAt
      <4>2. Sum(image.records, 0) = 0 BY SumSteps
      <4>3. (wake' + left') - started' = 0 BY <2>1, <3>1, <4>1 DEF waitVars
      <4>4. Spent(0, 0, 0) BY TimeAssumption DEF Spent
      <4>5. QED BY <2>1, <3>1, <3>2, <3>3, <4>1, <4>2, <4>3, <4>4
            DEF TimeKnown, Due, waitVars
    <3>4. CASE pc' # "fetch"
      <4>1. pc' = "countdown" BY <2>10, <3>4 DEF CountdownOver, WaitAt
      <4>2. QED BY <2>1, <3>1, <3>2, <4>1 DEF TimeKnown
    <3>5. QED BY <3>3, <3>4
  <2>11. CASE WaitOver
    <3>1. /\ UNCHANGED <<image, index, waitVars, started, outcome>> /\ wake = now
          /\ left = 0 /\ \/ pc = "before" /\ pc' = "press"
                         \/ pc = "hold" /\ pc' = "release"
      BY <2>11 DEF WaitOver, runVars
    <3>2. outcome # "COMPLETED" BY <3>1 DEF PlaceKnown, Ended
    <3>3. QED BY <2>1, <3>1, <3>2 DEF TimeKnown, Due, Record, waitVars
  <2>12. CASE NextRecord
    <3>1. /\ UNCHANGED <<waitVars, started, outcome>> /\ wake = now /\ left = 0
          /\ pc = "after" /\ pc' = "fetch" /\ index' = index + 1 /\ index \in Nat
      BY <2>12 DEF NextRecord, runVars, TypeOK
    <3>2. outcome # "COMPLETED" BY <3>1 DEF PlaceKnown, Ended
    <3>3. 3 * (index + 1) = 3 * index + 3 BY <3>1
    <3>4. Spent((wake + left) - started, Sum(image.records, index + 1), 3 * index + 3)
      BY <3>1 DEF TimeKnown, Due
    <3>5. QED BY <2>1, <3>1, <3>2, <3>3, <3>4 DEF TimeKnown, Due, waitVars
  <2>13. CASE AllTyped
    <3>1. /\ UNCHANGED <<waitVars, started>> /\ pc = "fetch" /\ pc' = "ending"
          /\ index = count
      BY <2>13 DEF AllTyped, Finish
    <3>2. wake = now /\ left = 0 /\ Due(Sum(image.records, count), 3 * count)
      BY <3>1 DEF TimeKnown
    <3>3. QED BY <2>1, <3>1, <3>2 DEF TimeKnown, Due, waitVars
  <2>14. QED
    BY <1>2, <2>2, <2>3, <2>4, <2>5, <2>6, <2>7, <2>8, <2>9, <2>10, <2>11, <2>12, <2>13
    DEF ExecutorStep
<1>3. CASE WorldStep \/ UNCHANGED vars
  <2>1. UNCHANGED <<image, pc, index, waitVars, started, outcome>>
    BY <1>3, WorldKeeps DEF runVars
  <2>2. pc \notin Waiting => wake' = now'
    <3>1. pc \notin Waiting => wake = now /\ ~(now < wake) BY DEF TimeKnown, TypeOK
    <3>2. pc \notin Waiting => now' = now
      BY <1>3, <3>1 DEF WorldStep, Tick, StopRequest, LinkDown, LinkUp, vars
    <3>3. QED BY <2>1, <3>1, <3>2 DEF waitVars
  <2>3. QED BY <2>1, <2>2, TimeStays DEF waitVars
<1>4. QED BY <1>1, <1>2, <1>3 DEF Next, WorldStep

-----------------------------------------------------------------------------
(* Stopping *)

LEMMA StopStep ==
  ASSUME TypeOK, VerifierKnown, TimeKnown, StopKnown, [Next]_vars
  PROVE  StopKnown'
<1> USE DEF Waiting, Running
<1>1. CASE VerifyStep
  <2>1. pc' \in Verifying \union {"arm", "done"}
    BY <1>1 DEF VerifyStep, VerifyHeader, VerifyDigest, VerifyRecord, VerifyEnd, Verifying,
       Reject
  <2>2. QED BY <2>1 DEF StopKnown, Verifying
<1>2. CASE ExecutorStep
  <2>1. ASSUME NEW sent \in Reports, Arm(sent) PROVE StopKnown'
    <3>1. pc' = "done" \/ stoppedAt' = -1 BY <2>1 DEF Arm
    <3>2. QED BY <3>1 DEF StopKnown
  <2>2. CASE ~\E sent \in Reports : Arm(sent)
    <3>1. stoppedAt' = stoppedAt
      BY <1>2, <2>2 DEF ExecutorStep, Abort, Release, EndRelease, Fetch, Press, Sleep, Halt,
         CountdownOver, WaitOver, NextRecord, AllTyped, linkVars
    <3>2. CASE pc' \in Running
      <4>1. pc \in Running /\ stop' = stop /\ ~Stopping
        BY <1>2, <2>2, <3>2 DEF ExecutorStep, Abort, Release, EndRelease, Fetch, Press, Sleep,
           Halt, CountdownOver, WaitOver, NextRecord, AllTyped, Finish, linkVars
      <4>2. stoppedAt = -1 BY <4>1 DEF StopKnown, Stopping
      <4>3. QED BY <3>1, <4>2 DEF StopKnown
    <3>3. CASE pc' \notin Running BY <3>3 DEF StopKnown
    <3>4. QED BY <3>2, <3>3
  <2>3. QED BY <2>1, <2>2
<1>3. CASE WorldStep \/ UNCHANGED vars
  <2>1. UNCHANGED <<pc, waitVars>> BY <1>3, WorldKeeps
  <2>2. CASE Tick \/ LinkUp \/ UNCHANGED vars
    <3>1. UNCHANGED <<stop, stoppedAt>> BY <2>2 DEF Tick, LinkUp, vars, linkVars
    <3>2. QED BY <2>1, <3>1 DEF StopKnown, waitVars
  <2>3. CASE StopRequest \/ LinkDown
    <3>1. stop' = TRUE /\ stoppedAt' = (IF stoppedAt = -1 THEN now ELSE stoppedAt)
      BY <2>3 DEF StopRequest, LinkDown, Stopped
    <3>2. wake - now <= SliceTicks BY TimeAssumption DEF TypeOK
    <3>3. CASE stoppedAt = -1 BY <2>1, <3>1, <3>2, <3>3 DEF StopKnown, waitVars
    <3>4. CASE stoppedAt # -1 BY <2>1, <3>1, <3>4 DEF StopKnown, waitVars
    <3>5. QED BY <3>3, <3>4
  <2>4. QED BY <1>3, <2>2, <2>3 DEF WorldStep
<1>4. QED BY <1>1, <1>2, <1>3 DEF Next, WorldStep

-----------------------------------------------------------------------------
(* The theorems *)

\* The inductive invariant holds in every behaviour of the verifier and the run.
THEOREM InvariantHolds == Spec => []IInv
<1>1. Init => IInv
  <2> SUFFICES ASSUME Init PROVE IInv
    OBVIOUS
  <2> USE DEF Init
  <2>1. TypeOK
    <3>1. /\ 0 \in 0 .. MaxRecords /\ 0 \in 0 .. U32Max /\ 0 \in 0 .. U64Max
          /\ 0 \in 0 .. Countdown /\ 0 \in 0 .. 0 + SliceTicks /\ 0 \in 0 .. 0
      BY LimitsAssumption, WidthAssumption, TimeAssumption
    <3>2. <<>> \in Seq(Key) OBVIOUS
    <3>3. QED BY <3>1, <3>2 DEF TypeOK, Protocol
  <2>2. VerifierKnown BY DEF VerifierKnown, Verifying
  <2>3. VerdictIsRight BY DEF VerdictIsRight
  <2>4. QuietKnown BY DEF QuietKnown
  <2>5. PlaceKnown BY DEF PlaceKnown, Ended
  <2>6. ProgressKnown BY DEF ProgressKnown
  <2>7. TypedAsVerified
    <3>1. image.header.characters \in Nat
      <4>1. image \in Images OBVIOUS
      <4>2. image.header.characters \in 0 .. U32Max BY <4>1, FileTyped
      <4>3. QED BY <4>2, WidthAssumption
    <3>2. Len(typed) = 0 /\ DOMAIN typed = {} OBVIOUS
    <3>3. QED BY <3>1, <3>2 DEF TypedAsVerified
  <2>8. TimeKnown BY DEF TimeKnown, Waiting
  <2>9. StopKnown BY DEF StopKnown
  <2>10. QED BY <2>1, <2>2, <2>3, <2>4, <2>5, <2>6, <2>7, <2>8, <2>9 DEF IInv
<1>2. IInv /\ [Next]_vars => IInv'
  <2> SUFFICES ASSUME IInv, [Next]_vars PROVE IInv'
    OBVIOUS
  <2> USE DEF IInv
  <2>1. TypeOK'
    <3>1. CASE UNCHANGED vars
      BY <3>1 DEF TypeOK, vars, verifyVars, linkVars, waitVars, hostVars, runVars
    <3>2. QED BY <3>1, VerifierTypes, ExecutorTypes, WorldTypes DEF Next, WorldStep
  <2>2. VerifierKnown' /\ VerdictIsRight'
    BY VerifierStep, VerifierStays DEF Next, WorldStep
  <2>3. QED
    BY <2>1, <2>2, QuietStep, PlaceStep, ProgressStep, TypedStep, TimeStep, StopStep
<1>3. QED BY <1>1, <1>2, PTL DEF Spec

\* Every variable keeps its type: the index stays within the records that are allowed, and
\* the total within the width it is summed in.
THEOREM TypeCorrect == Spec => []TypeOK
BY InvariantHolds, PTL DEF IInv

\* typx_protocol_v1_verify accepts the well-formed files and no other, and refuses a
\* well-formed one only when the flash cannot be read.
THEOREM VerdictIsRightHolds == Spec => []VerdictIsRight
BY InvariantHolds, PTL DEF IInv

\* What typx_executor_run types is the beginning of an accepted schedule, its progress is
\* that of the keys released and never goes back, and a completed run typed the whole.
THEOREM TypedAsVerifiedHolds == Spec => []TypedAsVerified
BY InvariantHolds, PTL DEF IInv

\* A completed run takes the time the header announces, and less than one tick more for
\* each of three waits a record.
THEOREM CompletedInTimeHolds == Spec => []CompletedInTime
<1>1. IInv => CompletedInTime
  <2> SUFFICES ASSUME IInv, outcome = "COMPLETED" PROVE CompletedInTime
    BY DEF CompletedInTime
  <2> USE DEF IInv
  <2>1. verdict = "OK" /\ wake = now /\ left = 0
    BY DEF PlaceKnown, TimeKnown, Ended, Waiting
  <2>2. WellFormed(image) /\ image \in Images
    BY <2>1 DEF VerdictIsRight, VerifierKnown
  <2> DEFINE count == image.header.count
             duration == image.header.duration
             elapsed == (now - started) * TickUs
             slack == (3 * count) * (TickUs - 1)
  <2>3. duration = Sum(image.records, count) /\ count \in Nat /\ count >= 3
    BY <2>2, WellFormedParts, FileTyped, WidthAssumption DEF DigestSound
  <2>4. duration \in Nat /\ now - started \in Int /\ TickUs \in Nat \ {0}
    <3>1. duration \in Nat BY <2>2, FileTyped, WidthAssumption
    <3>2. now \in Int /\ started \in Int BY DEF TypeOK
    <3>3. QED BY <3>1, <3>2, TimeAssumption
  <2>5. Spent((wake + left) - started, duration, 3 * count)
    BY <2>3 DEF TimeKnown, Due
  <2>6. (wake + left) - started = now - started BY <2>1 DEF TypeOK
  <2>7. duration <= elapsed /\ elapsed <= duration + slack
    BY <2>5, <2>6 DEF Spent
  <2>8. 3 * count * TickUs = slack + 3 * count /\ slack \in Int /\ elapsed \in Int
    <3>1. PICK n, ticks : n = count /\ ticks = now - started OBVIOUS
    <3>2. n \in Nat /\ ticks \in Int /\ TickUs \in Int BY <2>3, <2>4, <3>1
    <3>3. 3 * n * TickUs = (3 * n) * (TickUs - 1) + 3 * n BY <3>2
    <3>4. (3 * n) * (TickUs - 1) \in Int /\ ticks * TickUs \in Int BY <3>2
    <3>5. QED BY <3>1, <3>3, <3>4
  <2> HIDE DEF elapsed, slack, duration
  <2>9. elapsed >= duration /\ elapsed < duration + 3 * count * TickUs
    BY <2>3, <2>4, <2>7, <2>8 DEF duration
  <2>10. QED BY <2>9 DEF CompletedInTime, elapsed, duration
<1>2. QED BY <1>1, InvariantHolds, PTL

\* A request to stop, or a lost host, ends whatever wait is under way within one slice of
\* scheduler_wait_ticks, and no wait begins after it.
THEOREM StopIsPromptHolds == Spec => []StopIsPrompt
<1>1. IInv => StopIsPrompt
  <2> SUFFICES ASSUME TypeOK, StopKnown, stoppedAt # -1, pc \in Waiting
               PROVE  now - stoppedAt <= SliceTicks
    BY DEF IInv, StopIsPrompt
  <2>1. wake - stoppedAt <= SliceTicks BY DEF StopKnown
  <2>2. now \in Nat /\ wake \in Nat /\ now <= wake /\ stoppedAt \in Int
          /\ SliceTicks \in Nat
    BY TimeAssumption DEF TypeOK
  <2>3. QED BY <2>1, <2>2
<1>2. QED BY <1>1, InvariantHolds, PTL
=============================================================================
