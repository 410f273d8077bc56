------------------------------ MODULE UploadJob ------------------------------
(***************************************************************************)
(* The staged upload of a schedule (components/typx_wifi_upload) with the    *)
(* handlers that drive it and the flash partition it is staged in.           *)
(*                                                                           *)
(* The HTTP server task serves one request at a time and holds s_mutex        *)
(* through it, so create, finalize, cancel and the calls of a run are each    *)
(* one step.  A chunk is several: its body arrives in pieces, each piece is    *)
(* written or compared, and the request may break off after any of them.      *)
(* A reset can come between any two steps; the flash survives it.             *)
(***************************************************************************)
EXTENDS Naturals, Sequences, FiniteSetsExt

CONSTANTS
  ChunkBytes,  \* TYPX_UPLOAD_CHUNK_BYTES, 4096 in the firmware
  MaxChunks,   \* TYPX_UPLOAD_MAX_CHUNKS, 128 in the firmware
  Bits,        \* the bits of a byte: a byte is the set of its ones
  Schedules,   \* the contents the phones upload
  Accepted,    \* those of them typx_protocol_v1_verify accepts
  Crc(_),      \* crc32 of a sequence of bytes; different bytes may share one
  Sha(_),      \* sha256 of a sequence of bytes
  JobIds,      \* the identities the phones choose
  None,        \* no job
  MaxJobs,     \* bound: jobs created
  MaxResets    \* bound: resets

Byte == SUBSET Bits
MaxBytes == ChunkBytes * MaxChunks

ASSUME ChunkAssumption == ChunkBytes \in Nat \ {0} /\ MaxChunks \in Nat \ {0}
ASSUME SchedulesAssumption ==
  /\ \A s \in Schedules : s \in Seq(Byte) /\ Len(s) \in 1 .. MaxBytes
  /\ Accepted \subseteq Schedules
ASSUME NoneAssumption ==
  /\ None \notin JobIds
  /\ \A s \in Schedules : None # s /\ None # Sha(s)
ASSUME BoundsAssumption ==
  MaxJobs \in Nat /\ MaxResets \in Nat

Chunk == 0 .. (MaxChunks - 1)
Cell == 0 .. (MaxBytes - 1)

VARIABLES
  status,    \* s_upload.status; VERIFYING is never left to be seen
  job,       \* job_id, expected_size and expected_sha256
  lengths,   \* chunk_lengths: 0 until the chunk is recorded
  crcs,      \* chunk_crc32
  received,  \* received_bytes
  staging,   \* the partition
  session,   \* the chunk request under way
  jobs, resets

vars == <<status, job, lengths, crcs, received, staging, session, jobs, resets>>

Status == {"IDLE", "RECEIVING", "READY", "COUNTDOWN", "EXECUTING", "STOPPING",
           "STOPPED", "COMPLETED", "ERROR", "INTERRUPTED_RESET"}

\* typx_wifi_upload_job_locked
Locked == {"READY", "COUNTDOWN", "EXECUTING", "STOPPING"}
Active == Locked \ {"READY"}

NoJob == [id |-> None, size |-> 0, sha |-> None]
NoSession == [open |-> FALSE, sequence |-> 0, body |-> <<>>, crc |-> 0,
              repeated |-> FALSE, received |-> 0]

TypeOK ==
  /\ status \in Status
  /\ job \in [id : JobIds \union {None}, size : 0 .. MaxBytes,
              sha : {Sha(s) : s \in Schedules} \union {None}]
  /\ lengths \in [Chunk -> 0 .. ChunkBytes]
  /\ crcs \in [Chunk -> Nat]
  /\ received \in 0 .. MaxBytes
  /\ staging \in [Cell -> Byte]
  /\ session \in [open : BOOLEAN, sequence : Chunk, body : Seq(Byte), crc : Nat,
                  repeated : BOOLEAN, received : 0 .. ChunkBytes]
  /\ jobs \in 0 .. MaxJobs /\ resets \in 0 .. MaxResets

\* The partition is found as it was left: it may hold anything.
Init ==
  /\ status = "IDLE" /\ job = NoJob
  /\ lengths = [i \in Chunk |-> 0] /\ crcs = [i \in Chunk |-> 0] /\ received = 0
  /\ staging \in [Cell -> Byte]
  /\ session = NoSession
  /\ jobs = 0 /\ resets = 0

-----------------------------------------------------------------------------
(* The partition.  Erasing sets every bit and writing can only clear bits; an  *)
(* operation that fails may have done part of its work.                        *)

Cells(offset, length) == {c \in Cell : offset <= c /\ c < offset + length}

EraseRange(cells, ok) ==
  \E done \in IF ok THEN {cells} ELSE SUBSET cells :
    staging' = [c \in Cell |-> IF c \in done THEN Bits ELSE staging[c]]

WriteRange(offset, data, ok) ==
  LET cells == Cells(offset, Len(data)) IN
  \E done \in IF ok THEN {cells} ELSE SUBSET cells :
    staging' = [c \in Cell |-> IF c \in done
                               THEN staging[c] \intersect data[c - offset + 1]
                               ELSE staging[c]]

Staged(offset, length) == [k \in 1 .. length |-> staging[offset + k - 1]]

-----------------------------------------------------------------------------
(* Creating a job *)

\* typx_wifi_upload_begin: also while another job is still being received.
CreateJob(id, content, size, ok) ==
  /\ ~session.open
  /\ status \notin Locked
  /\ jobs < MaxJobs /\ jobs' = jobs + 1
  /\ job' = [id |-> id, size |-> size, sha |-> Sha(content)]
  /\ lengths' = [i \in Chunk |-> 0] /\ crcs' = [i \in Chunk |-> 0] /\ received' = 0
  /\ EraseRange(Cell, ok)
  /\ status' = IF ok THEN "RECEIVING" ELSE "ERROR"
  /\ UNCHANGED <<session, resets>>

-----------------------------------------------------------------------------
(* chunk_handler *)

Offset(i) == i * ChunkBytes

\* How much of a job of that size chunk i carries.
ChunkLength(i, size) ==
  IF size <= Offset(i) THEN 0
  ELSE IF size - Offset(i) < ChunkBytes THEN size - Offset(i) ELSE ChunkBytes

Slice(content, i) ==
  SubSeq(content, Offset(i) + 1, Offset(i) + ChunkLength(i, Len(content)))

ASSUME CrcAssumption == \A s \in Schedules, i \in Chunk : Crc(Slice(s, i)) \in Nat

\* A chunk that is on record may be sent again, if it says it is the same.
MayReceive(i, body, crc) ==
  /\ status = "RECEIVING"
  /\ Len(body) # 0 /\ Len(body) = ChunkLength(i, job.size)
  /\ lengths[i] # 0 => lengths[i] = Len(body) /\ crcs[i] = crc

\* Mutant: a chunk sent again is erased like a new one.
ChunkBeginErasesAgain(id, i, body, crc, ok) ==
  /\ ~session.open
  /\ id = job.id
  /\ MayReceive(i, body, crc)
  /\ EraseRange(Cells(Offset(i), ChunkBytes), ok)
  /\ session' = IF ~ok THEN NoSession
                ELSE [open |-> TRUE, sequence |-> i, body |-> body, crc |-> crc,
                      repeated |-> lengths[i] # 0, received |-> 0]
  /\ UNCHANGED <<status, job, lengths, crcs, received, jobs, resets>>

\* Mutant: what a broken request left behind is not erased.
ChunkBeginKeepsRemains(id, i, body, crc, ok) ==
  /\ ~session.open
  /\ id = job.id
  /\ MayReceive(i, body, crc)
  /\ session' = [open |-> TRUE, sequence |-> i, body |-> body, crc |-> crc,
                 repeated |-> lengths[i] # 0, received |-> 0]
  /\ UNCHANGED <<status, job, lengths, crcs, received, staging, jobs, resets>>

\* typx_wifi_upload_chunk_begin
ChunkBegin(id, i, body, crc, ok) ==
  /\ ~session.open
  /\ id = job.id
  /\ MayReceive(i, body, crc)
  /\ IF lengths[i] # 0 THEN UNCHANGED staging
                       ELSE EraseRange(Cells(Offset(i), ChunkBytes), ok)
  /\ session' = IF lengths[i] = 0 /\ ~ok THEN NoSession
                ELSE [open |-> TRUE, sequence |-> i, body |-> body, crc |-> crc,
                      repeated |-> lengths[i] # 0, received |-> 0]
  /\ UNCHANGED <<status, job, lengths, crcs, received, jobs, resets>>

\* The next piece of the body, and where it belongs.
Piece(n) == SubSeq(session.body, session.received + 1, session.received + n)
Here == Offset(session.sequence) + session.received

\* httpd_req_recv returned n bytes: typx_wifi_upload_chunk_write.  A chunk on
\* record is compared with what is staged and never written.
ChunkWrite(n, ok) ==
  LET matches == ~session.repeated \/ Staged(Here, n) = Piece(n) IN
  /\ session.open
  /\ n \in 1 .. (Len(session.body) - session.received)
  /\ IF session.repeated THEN UNCHANGED staging ELSE WriteRange(Here, Piece(n), ok)
  /\ session' = IF ok /\ matches THEN [session EXCEPT !.received = @ + n]
                                 ELSE NoSession
  /\ UNCHANGED <<status, job, lengths, crcs, received, jobs, resets>>

\* The connection broke before the whole body was there.
ReceiveFails ==
  /\ session.open
  /\ session.received < Len(session.body)
  /\ session' = NoSession
  /\ UNCHANGED <<status, job, lengths, crcs, received, staging, jobs, resets>>

\* Mutant: the bytes of a chunk sent again are counted again.
ChunkFinishCountsAgain ==
  LET i == session.sequence IN
  /\ session.open
  /\ session.received = Len(session.body)
  /\ IF Crc(session.body) = session.crc
     THEN /\ lengths' = [lengths EXCEPT ![i] = Len(session.body)]
          /\ crcs' = [crcs EXCEPT ![i] = session.crc]
          /\ received' = received + Len(session.body)
     ELSE UNCHANGED <<lengths, crcs, received>>
  /\ session' = NoSession
  /\ UNCHANGED <<status, job, staging, jobs, resets>>

\* Mutant: a wrong checksum leaves the handler without giving the mutex back.
ChunkFinishKeepsMutex ==
  LET i == session.sequence IN
  /\ session.open
  /\ session.received = Len(session.body)
  /\ IF Crc(session.body) = session.crc /\ ~session.repeated
     THEN /\ lengths' = [lengths EXCEPT ![i] = Len(session.body)]
          /\ crcs' = [crcs EXCEPT ![i] = session.crc]
          /\ received' = received + Len(session.body)
     ELSE UNCHANGED <<lengths, crcs, received>>
  /\ session' = IF Crc(session.body) = session.crc THEN NoSession ELSE session
  /\ UNCHANGED <<status, job, staging, jobs, resets>>

\* typx_wifi_upload_chunk_finish
ChunkFinish ==
  LET i == session.sequence IN
  /\ session.open
  /\ session.received = Len(session.body)
  /\ IF Crc(session.body) = session.crc /\ ~session.repeated
     THEN /\ lengths' = [lengths EXCEPT ![i] = Len(session.body)]
          /\ crcs' = [crcs EXCEPT ![i] = session.crc]
          /\ received' = received + Len(session.body)
     ELSE UNCHANGED <<lengths, crcs, received>>
  /\ session' = NoSession
  /\ UNCHANGED <<status, job, staging, jobs, resets>>

-----------------------------------------------------------------------------
(* Finalizing, cancelling, and the run *)

\* Mutant: the digest of the staged bytes is not computed.
VerifiedUnread == Staged(0, job.size) \in Accepted

\* verify_encoded_sha and the protocol's own check, both on the staged bytes.
Verified ==
  /\ Sha(Staged(0, job.size)) = job.sha
  /\ Staged(0, job.size) \in Accepted

\* typx_wifi_upload_finalize, once every byte and every chunk is on record.
Finalize(id, content, ok) ==
  /\ ~session.open
  /\ status = "RECEIVING"
  /\ id = job.id
  /\ Sha(content) = job.sha
  /\ received = job.size
  /\ \A i \in Chunk : Offset(i) < job.size => lengths[i] # 0
  /\ status' = IF ok /\ Verified THEN "READY" ELSE "ERROR"
  /\ UNCHANGED <<job, lengths, crcs, received, staging, session, jobs, resets>>

Forget ==
  /\ job' = NoJob
  /\ lengths' = [i \in Chunk |-> 0] /\ crcs' = [i \in Chunk |-> 0] /\ received' = 0

Cancel(id) ==
  /\ ~session.open
  /\ status = "READY" /\ id = job.id
  /\ status' = "IDLE"
  /\ Forget
  /\ UNCHANGED <<staging, session, jobs, resets>>

\* prepare_start, start_failed, mark_executing, request_stop and complete, in
\* the orders DedicatedRun shows them called in.
Run ==
  /\ ~session.open
  /\ \/ status = "READY" /\ status' = "COUNTDOWN"
     \/ status = "COUNTDOWN" /\ status' \in {"READY", "EXECUTING"}
     \/ status \in {"COUNTDOWN", "EXECUTING"} /\ status' = "STOPPING"
     \/ status \in Active /\ status' \in {"COMPLETED", "STOPPED", "ERROR"}
  /\ UNCHANGED <<job, lengths, crcs, received, staging, session, jobs, resets>>

\* A reset, and the boot up to mark_interrupted_reset.
Reset ==
  /\ resets < MaxResets /\ resets' = resets + 1
  /\ status' \in {"IDLE", "INTERRUPTED_RESET"}
  /\ Forget
  /\ session' = NoSession
  /\ UNCHANGED <<staging, jobs>>
-----------------------------------------------------------------------------
\* A phone sends slices of what it announced or of something else, with checksums
\* that fit or do not, in any order and as often as it likes.
Bodies(i) == {Slice(s, i) : s \in Schedules}
Checksums(i) == {Crc(body) : body \in Bodies(i)}

ChunkRequest(ok) ==
  \E id \in JobIds, i \in Chunk : \E body \in Bodies(i) :
    \E crc \in Checksums(i) : ChunkBegin(id, i, body, crc, ok)

ChunkStep ==
  \/ \E ok \in BOOLEAN : \E n \in 1 .. ChunkBytes : ChunkWrite(n, ok)
  \/ ReceiveFails
  \/ ChunkFinish

Next ==
  \/ \E id \in JobIds, content \in Schedules, ok \in BOOLEAN :
       \E other \in Schedules : CreateJob(id, content, Len(other), ok)
  \/ \E ok \in BOOLEAN : ChunkRequest(ok)
  \/ ChunkStep
  \/ \E id \in JobIds, content \in Schedules, ok \in BOOLEAN : Finalize(id, content, ok)
  \/ \E id \in JobIds : Cancel(id)
  \/ Run
  \/ Reset

Spec == Init /\ [][Next]_vars

\* Between its garbled requests the phone keeps sending every chunk as it is, and
\* asks to finalize; of its sound attempts at one chunk, not all fail for ever:
\* some time the flash takes the whole rest of the body.
Persistence ==
  /\ WF_vars(ChunkStep)
  /\ \A i \in Chunk :
       /\ SF_vars(\E id \in JobIds : \E body \in Bodies(i) :
                    ChunkBegin(id, i, body, Crc(body), TRUE))
       /\ SF_vars(/\ session.sequence = i /\ Crc(session.body) = session.crc
                  /\ ChunkWrite(Len(session.body) - session.received, TRUE))
  /\ SF_vars(\E id \in JobIds, content \in Schedules, ok \in BOOLEAN :
               Finalize(id, content, ok))

LiveSpec == Spec /\ Persistence
-----------------------------------------------------------------------------
(* Properties *)

\* A chunk on record is staged: its bytes in the flash are the ones whose checksum
\* was accepted, although the checksum is taken of the request and not of the
\* flash, and earlier requests may have left remains there.
RecordedIsStaged ==
  status = "RECEIVING" =>
    \A i \in Chunk : lengths[i] # 0 =>
      /\ lengths[i] = ChunkLength(i, job.size)
      /\ Crc(Staged(Offset(i), lengths[i])) = crcs[i]

\* What was acknowledged stays: no later request of the same job, and none that
\* breaks off, changes the bytes of a recorded chunk.
AcknowledgedKept ==
  [][\A i \in Chunk :
       lengths[i] # 0 /\ status \in Locked \union {"RECEIVING"}
         /\ jobs' = jobs /\ resets' = resets /\ status' # "IDLE"
       => /\ lengths'[i] = lengths[i] /\ crcs'[i] = crcs[i]
          /\ \A c \in Cells(Offset(i), lengths[i]) : staging'[c] = staging[c]]_vars

\* A run reads a schedule that appeared whole, matches the announced digest, was
\* accepted by the protocol, and does not change under it.
Staging == INSTANCE StagedSchedule WITH
  announced <- IF status = "RECEIVING" \/ status \in Locked THEN job.sha ELSE None,
  ready <- IF status \in Locked THEN Staged(0, job.size) ELSE None

ImplementsStaging == Staging!Spec

\* A phone that goes on sending gets its job to a decision: a broken request never
\* leaves a chunk that cannot be sent again.
UploadDecided == status = "RECEIVING" ~> status # "RECEIVING"
=============================================================================
