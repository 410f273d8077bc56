----------------------------- MODULE ScheduleRun -----------------------------
(***************************************************************************)
(* One encoded schedule from its first byte to its last key: the verifier     *)
(* (typx_protocol.c), the countdown (typx_ble_hid.c) and the executor         *)
(* (typx_executor.c) that reads every record a second time, in the order       *)
(* typx_local_schedule_verify_and_run calls them in.                          *)
(*                                                                           *)
(* Numbers keep their widths: a field of the file is at most U32Max or U64Max, *)
(* and so are the sums made of them.  Time is counted in ticks of the system   *)
(* clock, and passes only while the task sleeps.  Bytes whose only legal value *)
(* is a constant (magic, versions, lengths, reserved, kind and policy) are one *)
(* flag, fixed; so is the comparison of the payload's digest.                  *)
(***************************************************************************)
EXTENDS Integers, Sequences, FiniteSetsExt

CONSTANTS
  HeaderBytes, RecordBytes,    \* 96 and 32
  MaxEncodedBytes, MaxRecords, \* typx_protocol_limits_t
  MaxDelay,
  U32Max, U64Max,
  HoldUs,                      \* 8000
  Keycodes,                    \* supported_keycode
  Modifiers,                   \* the combinations of Control and Shift
  Cleanup,                     \* the three keys that end every schedule
  TickUs,                      \* microseconds of a tick
  SliceTicks,                  \* pdMS_TO_TICKS(10)
  SecondTicks, Countdown,      \* ticks of a second, seconds before the first key
  Images                       \* the encoded files, sound or not

ASSUME LimitsAssumption ==
  /\ HeaderBytes \in Nat /\ RecordBytes \in Nat \ {0}
  /\ MaxEncodedBytes \in Nat /\ MaxRecords \in Nat \ {0} /\ MaxDelay \in Nat \ {0}
ASSUME WidthAssumption ==
  /\ U32Max \in Nat /\ U64Max \in Nat
  /\ MaxDelay <= U32Max /\ MaxRecords <= U32Max
  /\ 3 * MaxDelay <= U64Max /\ HeaderBytes + U32Max <= U64Max
ASSUME TimeAssumption ==
  /\ HoldUs \in 1 .. MaxDelay /\ TickUs \in Nat \ {0} /\ SliceTicks \in Nat \ {0}
  /\ SecondTicks \in Nat \ {0} /\ Countdown \in Nat

Flag == {"source", "technical", "cleanup", "release", "unknown"}
Key == [modifier : Modifiers, keycode : Keycodes]
ASSUME CleanupAssumption == Cleanup \in [1 .. 3 -> Key]

ASSUME ImagesAssumption ==
  \A file \in Images :
    /\ Len(file.records) \in Nat /\ DOMAIN file.records = 1 .. Len(file.records)
    /\ file.size \in Nat /\ file.size < HeaderBytes + RecordBytes * (Len(file.records) + 1)
    /\ {file.digest, file.header.fixed, file.header.job} \subseteq BOOLEAN
    /\ file.header.count \in 0 .. U32Max /\ file.header.payload \in 0 .. U32Max
    /\ file.header.characters \in 0 .. U32Max
    /\ file.header.duration \in 0 .. U64Max
    /\ \A i \in DOMAIN file.records :
         LET r == file.records[i] IN
           /\ {r.before, r.hold, r.after, r.source} \subseteq 0 .. U32Max
           /\ r.fixed \in BOOLEAN
           /\ r.flags \subseteq Flag

VARIABLES
  image,           \* the file
  pc,              \* where the task is
  verdict,         \* typx_protocol_error_t, "none" while it is open
  index,           \* the loop counter of validate_records and typx_executor_run
  previous, total, \* previous_source_index, total_duration
  connected, stop, \* s_runtime.connected, stop_requested
  seconds,         \* of the countdown left
  left, wake,      \* total_ticks and last_wake of scheduler_wait_ticks
  now,             \* the tick count
  outcome,         \* what the run reports, "none" before
  progress,        \* source_index and completed_records last reported
  typed, down,     \* history: the keys the host has got; the last one is down
  started,         \* history: the tick the first record began at
  stoppedAt        \* history: the tick the run was asked to stop at, or -1

verifyVars == <<verdict, previous, total>>
linkVars == <<connected, stop, stoppedAt>>
waitVars == <<left, wake>>
hostVars == <<typed, down>>
runVars == <<outcome, progress, started, seconds>>
vars == <<image, pc, verifyVars, index, linkVars, waitVars, now, hostVars, runVars>>

Waiting == {"countdown", "before", "hold", "after"}
Protocol == {"none", "OK", "READER_ERROR", "HEADER_INVALID", "SCHEDULE_LIMIT_EXCEEDED",
  "INTEGER_OVERFLOW", "ACTION_COUNT_MISMATCH", "PAYLOAD_SIZE_INVALID",
  "SOURCE_INDEX_INVALID", "JOB_ID_INVALID", "CHECKSUM_MISMATCH", "FLAGS_INVALID",
  "DELAY_INVALID", "MODIFIER_INVALID", "KEYCODE_UNSUPPORTED", "FINAL_CLEANUP_INVALID",
  "TOTAL_DURATION_INVALID"}

TypeOK ==
  /\ pc \in Waiting \union {"header", "digest", "records", "arm", "fetch", "press",
                            "release", "abort", "ending", "disarm", "done"}
  /\ verdict \in Protocol
  /\ index \in 0 .. MaxRecords
  /\ previous \in 0 .. U32Max /\ total \in 0 .. U64Max
  /\ connected \in BOOLEAN /\ stop \in BOOLEAN
  /\ seconds \in 0 .. Countdown
  /\ left \in Nat /\ now \in Nat /\ wake \in now .. now + SliceTicks
  /\ outcome \in {"none", "COMPLETED", "STOPPED", "WAIT_FAILED", "KEY_DOWN_FAILED",
                  "RELEASE_FAILED", "PROTOCOL_READ_FAILED"}
  /\ progress \in [source : 0 .. U32Max, records : 0 .. MaxRecords]
  /\ typed \in Seq(Key) /\ down \in BOOLEAN
  /\ started \in 0 .. now /\ stoppedAt \in {-1} \union 0 .. now

Init ==
  /\ image \in Images /\ pc = "header" /\ verdict = "none"
  /\ index = 0 /\ previous = 0 /\ total = 0
  /\ connected \in BOOLEAN /\ stop \in BOOLEAN /\ stoppedAt = -1
  /\ seconds = 0 /\ left = 0 /\ wake = 0 /\ now = 0
  /\ outcome = "none" /\ progress = [source |-> 0, records |-> 0]
  /\ typed = <<>> /\ down = FALSE /\ started = 0

-----------------------------------------------------------------------------
(* typx_protocol_v1_verify *)

\* The code's checks in their order: the first that fails names the error.
FirstError(checks) ==
  LET failed == {k \in DOMAIN checks : ~checks[k][1]} IN
    IF failed = {} THEN "OK" ELSE checks[Min(failed)][2]

\* read_exact: within the file, and the flash answers.
Readable(offset, length, ok) == offset + length <= image.size /\ ok

SizeError ==
  FirstError(<<<<image.size >= HeaderBytes, "HEADER_INVALID">>,
               <<image.size <= MaxEncodedBytes, "SCHEDULE_LIMIT_EXCEEDED">>>>)

\* Mutant: the length of the payload is cut to 32 bits without a test.
HeaderErrorWraps ==
  LET h == image.header  payload == h.count * RecordBytes IN
  FirstError(<<
    <<h.fixed, "HEADER_INVALID">>,
    <<h.count \in 1 .. MaxRecords, "SCHEDULE_LIMIT_EXCEEDED">>,
    <<h.payload = payload % (U32Max + 1), "ACTION_COUNT_MISMATCH">>,
    <<HeaderBytes + payload = image.size, "PAYLOAD_SIZE_INVALID">>,
    <<h.characters # 0, "SOURCE_INDEX_INVALID">>,
    <<h.job, "JOB_ID_INVALID">>>>)

HeaderError ==
  LET h == image.header  payload == h.count * RecordBytes IN
  FirstError(<<
    <<h.fixed, "HEADER_INVALID">>,
    <<h.count \in 1 .. MaxRecords, "SCHEDULE_LIMIT_EXCEEDED">>,
    <<payload <= U32Max, "INTEGER_OVERFLOW">>,
    <<h.payload = payload, "ACTION_COUNT_MISMATCH">>,
    <<HeaderBytes + payload <= U64Max, "INTEGER_OVERFLOW">>,
    <<HeaderBytes + payload = image.size, "PAYLOAD_SIZE_INVALID">>,
    <<HeaderBytes + payload <= MaxEncodedBytes, "SCHEDULE_LIMIT_EXCEEDED">>,
    <<h.characters # 0, "SOURCE_INDEX_INVALID">>,
    <<h.job, "JOB_ID_INVALID">>>>)

\* decode_record
Classes(r) == r.flags \intersect {"source", "technical"}

RecordError(r) ==
  FirstError(<<
    <<r.fixed, "FLAGS_INVALID">>,
    <<r.before <= MaxDelay /\ r.after <= MaxDelay /\ r.hold = HoldUs, "DELAY_INVALID">>,
    <<r.modifier \in Modifiers, "MODIFIER_INVALID">>,
    <<r.keycode \in Keycodes, "KEYCODE_UNSUPPORTED">>,
    <<"unknown" \notin r.flags /\ "release" \in r.flags, "FLAGS_INVALID">>,
    <<Classes(r) \in {{"source"}, {"technical"}}, "FLAGS_INVALID">>,
    <<"cleanup" \in r.flags => "technical" \in r.flags, "FLAGS_INVALID">>>>)

KeyOf(r) == [modifier |-> r.modifier, keycode |-> r.keycode]
DurationOf(r) == r.before + r.hold + r.after

\* The rest of validate_records' loop body; index counts from 0, a sequence from 1.
PlaceError(r) ==
  LET first == image.header.count - 3 IN
  FirstError(<<
    <<previous <= r.source /\ r.source <= image.header.characters, "SOURCE_INDEX_INVALID">>,
    <<"source" \in r.flags => r.source # 0, "SOURCE_INDEX_INVALID">>,
    <<"cleanup" \in r.flags <=> index >= first, "FINAL_CLEANUP_INVALID">>,
    <<index >= first => KeyOf(r) = Cleanup[index - first + 1], "FINAL_CLEANUP_INVALID">>,
    <<DurationOf(r) <= U64Max - total, "INTEGER_OVERFLOW">>>>)

Reject(error) ==
  /\ verdict' = error /\ pc' = "done"
  /\ UNCHANGED <<index, previous, total>>

VerifyHeader(ok) ==
  /\ pc = "header"
  /\ LET error == IF SizeError # "OK" THEN SizeError
                  ELSE IF ~Readable(0, HeaderBytes, ok) THEN "READER_ERROR"
                  ELSE HeaderError
     IN IF error = "OK"
        THEN pc' = "digest" /\ UNCHANGED <<verifyVars, index>>
        ELSE Reject(error)
  /\ UNCHANGED <<image, linkVars, waitVars, now, hostVars, runVars>>

\* verify_payload_sha256, and the test that opens validate_records.
VerifyDigest(ok) ==
  /\ pc = "digest"
  /\ LET error == IF ~Readable(HeaderBytes, image.header.payload, ok) THEN "READER_ERROR"
                  ELSE FirstError(<<<<image.digest, "CHECKSUM_MISMATCH">>,
                         <<image.header.count >= 3, "FINAL_CLEANUP_INVALID">>>>)
     IN IF error = "OK"
        THEN pc' = "records" /\ UNCHANGED <<verifyVars, index>>
        ELSE Reject(error)
  /\ UNCHANGED <<image, linkVars, waitVars, now, hostVars, runVars>>

\* read_record_unverified
ReadError(ok) ==
  IF Readable(HeaderBytes + index * RecordBytes, RecordBytes, ok)
  THEN RecordError(image.records[index + 1]) ELSE "READER_ERROR"

VerifyRecord(ok) ==
  /\ pc = "records" /\ index < image.header.count
  /\ LET r == image.records[index + 1]
         error == IF ReadError(ok) # "OK" THEN ReadError(ok) ELSE PlaceError(r)
     IN IF error = "OK"
        THEN /\ previous' = r.source /\ total' = total + DurationOf(r)
             /\ index' = index + 1
             /\ UNCHANGED <<verdict, pc>>
        ELSE Reject(error)
  /\ UNCHANGED <<image, linkVars, waitVars, now, hostVars, runVars>>

VerifyEnd ==
  /\ pc = "records" /\ index = image.header.count
  /\ IF total = image.header.duration /\ total > 0
     THEN verdict' = "OK" /\ pc' = "arm" /\ index' = 0 /\ UNCHANGED <<previous, total>>
     ELSE Reject("TOTAL_DURATION_INVALID")
  /\ UNCHANGED <<image, linkVars, waitVars, now, hostVars, runVars>>

-----------------------------------------------------------------------------
(* The run: typx_ble_hid_run_schedule_countdown_observed and typx_executor_run *)

Stopping == stop \/ ~connected

Record == image.records[index + 1]

\* release_all_reports: the consumer report follows the keyboard's.
Reports == {"none", "keyboard", "both"}
ReleaseAll(sent) == down' = (down /\ ~(connected /\ sent # "none")) /\ UNCHANGED typed
Released(sent) == connected /\ sent = "both"

\* Mutant: what does not fill a tick is cut off.
TicksRoundedDown(us) == us \div TickUs

\* executor_wait_us rounds up.
TicksOf(us) == (us + TickUs - 1) \div TickUs

\* A wait of some ticks at a place of the program.
WaitAt(place, ticks) == pc' = place /\ left' = ticks /\ wake' = now

Finish(result) == pc' = "ending" /\ outcome' = result /\ UNCHANGED waitVars

\* The tests of connected and running, the flags and the first release; the
\* interleavings between them are KeyboardSharing's.
Arm(sent) ==
  /\ pc = "arm"
  /\ IF ~connected
     THEN /\ outcome' = "WAIT_FAILED" /\ pc' = "done"
          /\ UNCHANGED <<linkVars, hostVars, seconds, waitVars>>
     ELSE /\ stop' = FALSE /\ stoppedAt' = -1 /\ UNCHANGED connected
          /\ ReleaseAll(sent)
          /\ seconds' = Countdown
          /\ IF ~Released(sent)
             THEN outcome' = "RELEASE_FAILED" /\ pc' = "done" /\ UNCHANGED waitVars
             ELSE /\ UNCHANGED outcome
                  /\ IF Countdown > 0 THEN WaitAt("countdown", SecondTicks)
                     ELSE pc' = "fetch" /\ UNCHANGED waitVars
  /\ started' = now
  /\ UNCHANGED <<image, verifyVars, index, now, progress>>

\* Mutant: a wait is one sleep.
SleepThrough(ticks) == ticks

\* The loop of scheduler_wait_ticks sleeps a slice at a time ...
Slice(ticks) == Min({ticks, SliceTicks})

Sleep ==
  /\ pc \in Waiting /\ now = wake
  /\ left > 0 /\ ~Stopping
  /\ left' = left - Slice(left) /\ wake' = wake + Slice(left)
  /\ UNCHANGED <<image, pc, verifyVars, index, linkVars, now, hostVars, runVars>>

\* ... and tests the flags before each and after the last.
Halt ==
  /\ pc \in Waiting /\ now = wake
  /\ Stopping
  /\ outcome' = "STOPPED"
  /\ pc' = IF pc = "countdown" THEN "abort" ELSE "ending"
  /\ UNCHANGED <<image, verifyVars, index, linkVars, waitVars, now, hostVars,
                 progress, started, seconds>>

CountdownOver ==
  /\ pc = "countdown" /\ now = wake /\ left = 0 /\ ~Stopping
  /\ seconds' = seconds - 1
  /\ IF seconds > 1 THEN WaitAt("countdown", SecondTicks) /\ UNCHANGED started
     ELSE pc' = "fetch" /\ started' = now /\ UNCHANGED waitVars
  /\ UNCHANGED <<image, verifyVars, index, linkVars, now, hostVars, outcome, progress>>

\* The countdown's own way out.
Abort(sent) ==
  /\ pc = "abort"
  /\ ReleaseAll(sent)
  /\ stop' = FALSE /\ pc' = "done"
  /\ UNCHANGED <<image, verifyVars, index, connected, stoppedAt, waitVars, now, runVars>>

\* The head of the executor's loop: the record is read and decoded again.
Fetch(ok) ==
  /\ pc = "fetch" /\ index < image.header.count
  /\ IF Stopping THEN Finish("STOPPED")
     ELSE IF ReadError(ok) # "OK" THEN Finish("PROTOCOL_READ_FAILED")
     ELSE /\ UNCHANGED outcome
          /\ IF Record.before > 0 THEN WaitAt("before", TicksOf(Record.before))
             ELSE pc' = "press" /\ UNCHANGED waitVars
  /\ UNCHANGED <<image, verifyVars, index, linkVars, now, hostVars, progress, started,
                 seconds>>

WaitOver ==
  /\ pc \in {"before", "hold"} /\ now = wake /\ left = 0 /\ ~Stopping
  /\ pc' = IF pc = "before" THEN "press" ELSE "release"
  /\ UNCHANGED <<image, verifyVars, index, linkVars, waitVars, now, hostVars, runVars>>

Press(ok) ==
  /\ pc = "press"
  /\ IF Stopping THEN Finish("STOPPED") /\ UNCHANGED hostVars
     ELSE IF ~ok THEN Finish("KEY_DOWN_FAILED") /\ UNCHANGED hostVars
     ELSE /\ typed' = Append(typed, KeyOf(Record)) /\ down' = TRUE
          /\ WaitAt("hold", TicksOf(Record.hold)) /\ UNCHANGED outcome
  /\ UNCHANGED <<image, verifyVars, index, linkVars, now, progress, started, seconds>>

\* Mutant: a refused release is passed over.
ReleaseRegardless(sent) ==
  /\ pc = "release"
  /\ ReleaseAll(sent)
  /\ progress' = [source |-> Record.source, records |-> index + 1]
  /\ IF Stopping THEN Finish("STOPPED") /\ UNCHANGED index
     ELSE /\ UNCHANGED outcome
          /\ IF Record.after > 0
             THEN WaitAt("after", TicksOf(Record.after)) /\ UNCHANGED index
             ELSE pc' = "fetch" /\ index' = index + 1 /\ UNCHANGED waitVars
  /\ UNCHANGED <<image, verifyVars, linkVars, now, started, seconds>>

\* Progress follows a release that went out; a refused one ends the run, with
\* finish's release as the second attempt.
Release(sent) ==
  /\ pc = "release"
  /\ ReleaseAll(sent)
  /\ IF ~Released(sent) THEN Finish("RELEASE_FAILED") /\ UNCHANGED <<progress, index>>
     ELSE /\ progress' = [source |-> Record.source, records |-> index + 1]
          /\ IF Stopping THEN Finish("STOPPED") /\ UNCHANGED index
             ELSE /\ UNCHANGED outcome
                  /\ IF Record.after > 0
                     THEN WaitAt("after", TicksOf(Record.after)) /\ UNCHANGED index
                     ELSE pc' = "fetch" /\ index' = index + 1 /\ UNCHANGED waitVars
  /\ UNCHANGED <<image, verifyVars, linkVars, now, started, seconds>>

NextRecord ==
  /\ pc = "after" /\ now = wake /\ left = 0 /\ ~Stopping
  /\ pc' = "fetch" /\ index' = index + 1
  /\ UNCHANGED <<image, verifyVars, linkVars, waitVars, now, hostVars, runVars>>

AllTyped ==
  /\ pc = "fetch" /\ index = image.header.count
  /\ Finish("COMPLETED")
  /\ UNCHANGED <<image, verifyVars, index, linkVars, now, hostVars, progress, started,
                 seconds>>

\* finish, and the caller's own release; each turns a refusal into an error.
EndRelease(sent) ==
  /\ pc \in {"ending", "disarm"}
  /\ ReleaseAll(sent)
  /\ outcome' = IF Released(sent) THEN outcome ELSE "RELEASE_FAILED"
  /\ IF pc = "ending" THEN pc' = "disarm" /\ UNCHANGED stop
     ELSE pc' = "done" /\ stop' = FALSE
  /\ UNCHANGED <<image, verifyVars, index, connected, stoppedAt, waitVars, now, progress,
                 started, seconds>>

-----------------------------------------------------------------------------
(* The rest of the world *)

Tick ==
  /\ now < wake
  /\ now' = now + 1
  /\ UNCHANGED <<image, pc, verifyVars, index, linkVars, waitVars, hostVars, runVars>>

Stopped == stop' = TRUE /\ stoppedAt' = IF stoppedAt = -1 THEN now ELSE stoppedAt

StopRequest ==
  /\ ~stop
  /\ Stopped /\ UNCHANGED connected
  /\ UNCHANGED <<image, pc, verifyVars, index, waitVars, now, hostVars, runVars>>

LinkDown ==
  /\ connected
  /\ connected' = FALSE /\ Stopped
  /\ down' = FALSE
  /\ UNCHANGED <<image, pc, verifyVars, index, waitVars, now, typed, runVars>>

LinkUp ==
  /\ ~connected
  /\ connected' = TRUE
  /\ UNCHANGED <<image, pc, verifyVars, index, stop, stoppedAt, waitVars, now, hostVars,
                 runVars>>

VerifyStep ==
  \/ \E ok \in BOOLEAN : VerifyHeader(ok) \/ VerifyDigest(ok) \/ VerifyRecord(ok)
  \/ VerifyEnd

ExecutorStep ==
  \/ \E sent \in Reports : Arm(sent) \/ Abort(sent) \/ Release(sent) \/ EndRelease(sent)
  \/ \E ok \in BOOLEAN : Fetch(ok) \/ Press(ok)
  \/ Sleep \/ Halt \/ CountdownOver \/ WaitOver \/ NextRecord \/ AllTyped

Next ==
  \/ VerifyStep \/ ExecutorStep
  \/ Tick \/ StopRequest \/ LinkDown \/ LinkUp

Spec == Init /\ [][Next]_vars

-----------------------------------------------------------------------------
(* Properties *)

\* What the first n records take together.
Sum(records, n) ==
  LET sum[k \in 0 .. n] == IF k = 0 THEN 0 ELSE sum[k - 1] + DurationOf(records[k])
  IN  sum[n]

\* What ESP32_CAM_PROTOCOL_V1.md asks of a file, in numbers without a width.
WellFormed(file) ==
  LET h == file.header  n == h.count  records == file.records IN
  /\ h.fixed /\ h.job /\ file.digest
  /\ n \in 3 .. MaxRecords /\ h.characters > 0
  /\ h.payload = n * RecordBytes /\ file.size = HeaderBytes + n * RecordBytes
  /\ file.size <= MaxEncodedBytes
  /\ \A k \in 1 .. n : LET r == records[k] IN
       /\ r.fixed /\ KeyOf(r) \in Key
       /\ {r.before, r.after} \subseteq 0 .. MaxDelay /\ r.hold = HoldUs
       /\ \E class \in {{"source"}, {"technical"}, {"technical", "cleanup"}} :
            r.flags = class \union {"release"}
       /\ "cleanup" \in r.flags <=> k > n - 3
       /\ "source" \in r.flags => r.source > 0
       /\ \A i \in k .. n : r.source <= records[i].source
       /\ r.source <= h.characters
  /\ \A k \in 1 .. 3 : KeyOf(records[n - 3 + k]) = Cleanup[k]
  /\ h.duration = Sum(records, n)

\* The verifier's one pass, in fields and sums of limited width, accepts the files
\* that are well-formed and, unless the flash fails, no fewer.
VerdictIsRight ==
  /\ verdict = "OK" => WellFormed(image)
  /\ verdict \notin {"none", "OK", "READER_ERROR"} => ~WellFormed(image)

\* What a run has typed is the beginning of an accepted schedule, one key after
\* the other; the progress it reports is that of the keys already released and
\* never goes back; and a completed run has typed the whole, cleanup included.
TypedAsVerified ==
  /\ typed # <<>> => WellFormed(image)
  /\ \A k \in DOMAIN typed : typed[k] = KeyOf(image.records[k])
  /\ progress.records \in {Len(typed) - 1, Len(typed)} \intersect Nat
  /\ down => progress.records = Len(typed) - 1
  /\ progress.source <= image.header.characters
  /\ \A k \in 1 .. progress.records : image.records[k].source <= progress.source
  /\ outcome = "COMPLETED" =>
       progress.records = image.header.count /\ Len(typed) = image.header.count

\* A completed run has taken the time its header announces, and at most one tick
\* more for each wait.
CompletedInTime ==
  outcome = "COMPLETED" =>
    LET elapsed == (now - started) * TickUs IN
      /\ elapsed >= image.header.duration
      /\ elapsed < image.header.duration + 3 * image.header.count * TickUs

\* However long the wait it arrives in, a STOP or a lost host ends the run within
\* one slice of the clock.
StopIsPrompt ==
  stoppedAt # -1 /\ outcome = "none" /\ pc \in Waiting => now - stoppedAt <= SliceTicks
=============================================================================
