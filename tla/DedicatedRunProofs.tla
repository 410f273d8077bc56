------------------------- MODULE DedicatedRunProofs -------------------------
(***************************************************************************)
(* Proofs about DedicatedRun, for every schedule length and any number of    *)
(* jobs, links and resets: the invariant IInv is inductive, hence a job has   *)
(* one owner, a stop silences, reports are true, a cut run is reported, and   *)
(* the run implements JobLifecycle.                                          *)
(***************************************************************************)
EXTENDS DedicatedRun, TLAPS

-----------------------------------------------------------------------------
(* The inductive invariant *)

\* Places of the execution task, by what they say about the job.
BeforeMark == {"check", "armRunning", "armStop", "firstRelease", "countdown", "mark",
               "abort"}
AfterRun == {"disarm", "terminal", "complete"}

\* RAM is as a reset leaves it until the boot is over.
BootIsQuiet ==
  boot # "up" => /\ status = "IDLE" /\ completed = 0
                 /\ http = NoRequest /\ exec = NoTask

\* The job belongs to the START handler, then to the execution task, and only the
\* two of them, at known places, hold an active job.
OwnerKnown ==
  /\ http.pc \in StartPending => status = "COUNTDOWN"
  /\ http.pc = "respond" => exec.pc = "notify"
  /\ http.pc \in StartPending \ {"respond"} => exec.pc = "none"
  /\ exec.pc = "notify" => http.pc = "respond"
  /\ exec.pc \in BeforeMark => status \in {"COUNTDOWN", "STOPPING"}
  /\ exec.pc \in Typing => status \in {"EXECUTING", "STOPPING"}
  /\ exec.pc \in AfterRun => status \in Active
  /\ status \in Active => http.pc \in StartPending \/ exec.pc \notin {"none", "notify", "handle"}
  /\ status = "READY" => exec.pc = "none"

\* The result so far agrees with the place: an error ends the run, and a run that is
\* said to be without one has been through every record.
ResultKnown ==
  /\ exec.pc \notin AfterRun \union {"abort", "finish", "lastRelease", "handle"}
       => exec.error = "OK"
  /\ exec.pc = "abort" => exec.error # "OK"
  /\ exec.pc \in AfterRun /\ exec.error = "OK" => status \in {"EXECUTING", "STOPPING"}
  /\ exec.pc \in AfterRun \union {"finish", "lastRelease"} /\ exec.error = "OK"
       => typed = Records

\* Where the record index, the keys typed and the counter the phone polls stand.
CountsAgree ==
  /\ exec.pc \notin Typing \union AfterRun \union {"handle"} => exec.index = 1
  /\ exec.pc \in {"firstRelease", "countdown", "mark"} => typed = 0
  /\ exec.pc \in {"record", "press", "hold", "release"} => typed + 1 = exec.index
  /\ exec.pc \in {"progress", "next"} => typed = exec.index
  /\ status = "READY" \/ http.pc \in StartPending \/ exec.pc \in BeforeMark
       => completed = 0

\* No key is down where the run has just released and not pressed since.
KeysUp ==
  /\ exec.pc \in {"countdown", "mark", "abort"} => ~held
  /\ exec.pc \in AfterRun /\ exec.error # "FAILED" => ~held

\* Only a press that the flag overtook counts, and the hold after it sees the flag.
OverrunKnown ==
  /\ exec.pc \in {"firstRelease", "countdown", "mark", "record", "press", "release",
                  "progress", "next"} => overrun = 0
  /\ exec.pc = "hold" /\ ~stopRequested => overrun = 0

\* The marker is in NVS while a run may have keys down, and a boot after such a run
\* finds it, or has already read it.
MarkerStands ==
  /\ http.pc \in {"create", "respond"} => marker
  /\ exec.pc \in BeforeMark \union Typing \union {"disarm", "terminal"} => marker
  /\ boot = "read" /\ cut = "cut" => marker
  /\ boot \in {"clear", "service"} /\ cut = "cut" => interrupted

IInv ==
  /\ TypeOK
  /\ BootIsQuiet
  /\ OwnerKnown
  /\ ResultKnown
  /\ CountsAgree
  /\ KeysUp
  /\ OverrunKnown
  /\ MarkerStands
  /\ FlagSilences
  /\ ReportIsTrue

-----------------------------------------------------------------------------
(* The type invariant, by what kind of value a variable holds *)

RecordsTyped == exec \in Task /\ http \in Request

WordsTyped ==
  /\ status \in Status
  /\ Hid!TypeOK
  /\ hid \in {"idle", "connect", "stop", "connected", "stopAgain", "running"}
  /\ boot \in {"read", "clear", "service", "up"}
  /\ cut \in {"no", "cut", "lost"}

CountersTyped ==
  /\ completed \in 0 .. Records /\ typed \in 0 .. Records
  /\ jobs \in 0 .. MaxJobs /\ links \in 0 .. MaxLinks /\ resets \in 0 .. MaxResets
  /\ ignored \in 0 .. 2 /\ overrun \in 0 .. 2

FlagsTyped ==
  /\ connected \in BOOLEAN /\ running \in BOOLEAN /\ stopRequested \in BOOLEAN
  /\ marker \in BOOLEAN /\ interrupted \in BOOLEAN
  /\ held \in BOOLEAN /\ answered \in BOOLEAN

\* The four parts are the type invariant.
LEMMA TypeParts ==
  TypeOK <=> RecordsTyped /\ WordsTyped /\ CountersTyped /\ FlagsTyped
BY DEF TypeOK, RecordsTyped, WordsTyped, CountersTyped, FlagsTyped

-----------------------------------------------------------------------------
(* What the parts of the system leave alone *)

\* hid_callback, the safety release, the host and the console touch neither the job nor
\* the tasks that run it, press no key, and only raise the stop flag.
LEMMA OutsideFrame ==
  ASSUME TypeOK, HidEvent \/ Environment
  PROVE  /\ UNCHANGED <<jobVars, http, exec, marker, powerVars, jobs, typed, stopVars>>
         /\ held' \in BOOLEAN /\ (held' => held)
         /\ stopRequested => stopRequested'
<1> held \in BOOLEAN BY DEF TypeOK
<1> USE DEF jobVars, flagVars, hidVars, powerVars, stopVars
<1>1. CASE HidEvent
  BY <1>1 DEF HidEvent, LinkUpSafety, LinkDownFlags
<1>2. CASE Environment
  <2>1. CASE LinkUp BY <2>1 DEF LinkUp
  <2>2. CASE LinkDown
    <3>1. CASE held' = held BY <2>2, <3>1 DEF LinkDown
    <3>2. CASE held' = FALSE BY <2>2, <3>2 DEF LinkDown
    <3>3. QED BY <2>2, <3>1, <3>2 DEF LinkDown
  <2>3. CASE SafetyRelease BY <2>3 DEF SafetyRelease
  <2>4. CASE SafetyOutcome BY <2>4 DEF SafetyOutcome
  <2>5. CASE ConsoleRelease BY <2>5 DEF ConsoleRelease
  <2>6. ASSUME NEW ok \in BOOLEAN, ConsoleStop(ok)
        PROVE  /\ UNCHANGED <<jobVars, http, exec, marker, powerVars, jobs, typed,
                              stopVars>>
               /\ held' \in BOOLEAN /\ (held' => held)
               /\ stopRequested => stopRequested'
    BY <2>6 DEF ConsoleStop, ReleaseAll
  <2>7. QED BY <1>2, <2>1, <2>2, <2>3, <2>4, <2>5, <2>6 DEF Environment
<1>3. QED BY <1>1, <1>2

\* release_all_reports presses nothing, and says so truly when it is confirmed.
LEMMA ReleaseLifts ==
  ASSUME TypeOK, NEW ok \in BOOLEAN, ReleaseAll(ok)
  PROVE  /\ held' \in BOOLEAN /\ (held' => held)
         /\ ok => ~held'
BY DEF ReleaseAll, TypeOK

\* marker_write: a write that succeeds is in NVS, one that fails may be.
LEMMA MarkerWritten ==
  ASSUME NEW active \in BOOLEAN, NEW ok \in BOOLEAN, WriteMarker(active, ok)
  PROVE  /\ marker' = marker \/ marker' = active
         /\ ok => marker' = active
BY DEF WriteMarker

-----------------------------------------------------------------------------
(* Each part of the invariant is kept, action by action *)

\* The tasks stay at their places, and the index within the schedule.
LEMMA RecordTypes ==
  ASSUME TypeOK, BootIsQuiet, [Next]_vars
  PROVE  RecordsTyped'
<1> USE RecordsAssumption DEF RecordsTyped, Request, Task, Armed, Typing, NoTask,
      NoRequest, jobVars, flagVars, hidVars, powerVars, stopVars
<1> RecordsTyped BY TypeParts
<1>1. CASE Up /\ HttpRequest
  BY <1>1, TypeParts DEF HttpRequest, StartRequest, WordsTyped, Hid!TypeOK,
     StopRequest, HttpGoto, CancelJob, CreateJob, FinalizeJob
<1>2. CASE Up /\ HttpStep
  <2>1. CASE PrepareStart
    BY <2>1 DEF PrepareStart, HttpGoto
  <2>2. CASE StartFailed
    BY <2>2 DEF StartFailed, HttpGoto
  <2>3. CASE SetStopFlag
    BY <2>3 DEF SetStopFlag, HttpGoto
  <2>4. ASSUME NEW ok \in BOOLEAN, MarkActive(ok) PROVE RecordsTyped'
    BY <2>4 DEF MarkActive, HttpGoto
  <2>5. ASSUME NEW ok \in BOOLEAN, CreateTask(ok) PROVE RecordsTyped'
    BY <2>5 DEF CreateTask, HttpGoto, NoTask
  <2>6. ASSUME NEW ok \in BOOLEAN, Respond(ok) PROVE RecordsTyped'
    BY <2>6 DEF Respond, HttpGoto, NoTask
  <2>7. ASSUME NEW ok \in BOOLEAN, ClearMarker(ok) PROVE RecordsTyped'
    BY <2>7 DEF ClearMarker, HttpGoto
  <2> QED BY <1>2, <2>1, <2>2, <2>3, <2>4, <2>5, <2>6, <2>7 DEF HttpStep
<1>3. CASE Up /\ ExecStep
  <2>1. CASE RunCheck
    BY <2>1 DEF RunCheck, ExecGoto, ExecEnds
  <2>2. CASE ArmRunning
    BY <2>2 DEF ArmRunning, ExecGoto
  <2>3. CASE ArmStop
    BY <2>3 DEF ArmStop, ExecGoto
  <2>4. CASE Countdown
    BY <2>4 DEF Countdown, ExecGoto, ExecEnds
  <2>5. CASE MarkExecuting
    BY <2>5 DEF MarkExecuting, ExecGoto
  <2>6. CASE Hold
    BY <2>6 DEF Hold, ExecGoto, ExecEnds
  <2>7. CASE Progress
    BY <2>7 DEF Progress, ExecGoto
  <2>8. CASE NextRecord
    <3>1. http' = http
      BY <2>8 DEF NextRecord
    <3>2. exec.index # Records => exec.index + 1 \in 1 .. Records
      OBVIOUS
    <3>3. exec' \in Task
      BY <2>8, <3>2 DEF NextRecord, ExecGoto, ExecEnds
    <3>4. QED BY <3>1, <3>3
  <2>9. CASE Disarm
    BY <2>9 DEF Disarm, ExecGoto
  <2>10. CASE Complete
    BY <2>10 DEF Complete, ExecGoto
  <2>11. CASE Leave
    BY <2>11 DEF Leave, NoTask
  <2>12. ASSUME NEW ok \in BOOLEAN, FirstRelease(ok) PROVE RecordsTyped'
    BY <2>12 DEF FirstRelease, ExecGoto, ExecEnds
  <2>13. ASSUME NEW ok \in BOOLEAN, Abort(ok) PROVE RecordsTyped'
    BY <2>13 DEF Abort, ExecGoto
  <2>14. ASSUME NEW ok \in BOOLEAN, RecordBegin(ok) PROVE RecordsTyped'
    BY <2>14 DEF RecordBegin, ExecGoto, ExecEnds
  <2>15. ASSUME NEW ok \in BOOLEAN, Press(ok) PROVE RecordsTyped'
    BY <2>15 DEF Press, ExecGoto, ExecEnds
  <2>16. ASSUME NEW ok \in BOOLEAN, RecordRelease(ok) PROVE RecordsTyped'
    BY <2>16 DEF RecordRelease, ExecGoto, ExecEnds
  <2>17. ASSUME NEW ok \in BOOLEAN, EndRelease(ok) PROVE RecordsTyped'
    BY <2>17 DEF EndRelease, ExecEnds
  <2>18. ASSUME NEW ok \in BOOLEAN, MarkTerminal(ok) PROVE RecordsTyped'
    BY <2>18 DEF MarkTerminal, ExecEnds
  <2> QED BY <1>3, <2>1, <2>2, <2>3, <2>4, <2>5, <2>6, <2>7, <2>8, <2>9, <2>10, <2>11, <2>12,
     <2>13, <2>14, <2>15, <2>16, <2>17, <2>18 DEF ExecStep
<1>4. CASE Up /\ (HidEvent \/ Environment)
  BY <1>4 DEF HidEvent, Environment, LinkUpSafety, Hid!HostConnects, LinkDownFlags,
     LinkUp, LinkDown, Hid!HostDisconnects, SafetyRelease, SafetyOutcome,
     Hid!ReleaseConfirmed, Hid!ReleaseFailed, Hid!ReleaseReopened, ConsoleRelease,
     ConsoleStop
<1>5. CASE Reset
  BY <1>5 DEF Reset, NoTask, NoRequest
<1>6. CASE BootStep \/ BootCut
  BY <1>6 DEF BootStep, BootRead, BootClear, BootAgain, BootService, BootCut
<1>7. CASE UNCHANGED vars
  BY <1>7 DEF vars
<1> QED BY <1>1, <1>2, <1>3, <1>4, <1>5, <1>6, <1>7 DEF Next

\* Status, readiness, link handling and boot keep to their values.
LEMMA WordTypes ==
  ASSUME TypeOK, BootIsQuiet, [Next]_vars
  PROVE  WordsTyped'
<1> USE DEF WordsTyped, Status, Hid!TypeOK, jobVars, flagVars, hidVars, powerVars,
      stopVars
<1> WordsTyped BY TypeParts
<1>1. CASE Up /\ HttpRequest
  BY <1>1 DEF HttpRequest, StartRequest, StopRequest, HttpGoto, CancelJob, CreateJob,
     FinalizeJob
<1>2. CASE Up /\ HttpStep
  BY <1>2 DEF HttpStep, PrepareStart, HttpGoto, StartFailed, SetStopFlag, MarkActive,
     CreateTask, NoTask, Respond, ClearMarker
<1>3. CASE Up /\ ExecStep
  <2>1. CASE RunCheck
    BY <2>1 DEF RunCheck, ExecGoto, ExecEnds
  <2>2. CASE ArmRunning
    BY <2>2 DEF ArmRunning, ExecGoto
  <2>3. CASE ArmStop
    BY <2>3 DEF ArmStop, ExecGoto
  <2>4. CASE Countdown
    BY <2>4 DEF Countdown, ExecGoto, ExecEnds
  <2>5. CASE MarkExecuting
    BY <2>5 DEF MarkExecuting, ExecGoto
  <2>6. CASE Hold
    BY <2>6 DEF Hold, ExecGoto, ExecEnds
  <2>7. CASE Progress
    BY <2>7 DEF Progress, ExecGoto
  <2>8. CASE NextRecord
    BY <2>8 DEF NextRecord, ExecGoto, ExecEnds
  <2>9. CASE Disarm
    BY <2>9 DEF Disarm, ExecGoto
  <2>10. CASE Complete
    BY <2>10, TypeParts DEF Complete, ExecGoto, RecordsTyped, Task
  <2>11. CASE Leave
    BY <2>11 DEF Leave, NoTask
  <2>12. ASSUME NEW ok \in BOOLEAN, FirstRelease(ok) PROVE WordsTyped'
    BY <2>12 DEF FirstRelease, ExecGoto, ExecEnds
  <2>13. ASSUME NEW ok \in BOOLEAN, Abort(ok) PROVE WordsTyped'
    BY <2>13 DEF Abort, ExecGoto
  <2>14. ASSUME NEW ok \in BOOLEAN, RecordBegin(ok) PROVE WordsTyped'
    BY <2>14 DEF RecordBegin, ExecGoto, ExecEnds
  <2>15. ASSUME NEW ok \in BOOLEAN, Press(ok) PROVE WordsTyped'
    BY <2>15 DEF Press, ExecGoto, ExecEnds
  <2>16. ASSUME NEW ok \in BOOLEAN, RecordRelease(ok) PROVE WordsTyped'
    BY <2>16 DEF RecordRelease, ExecGoto, ExecEnds
  <2>17. ASSUME NEW ok \in BOOLEAN, EndRelease(ok) PROVE WordsTyped'
    BY <2>17 DEF EndRelease, ExecEnds
  <2>18. ASSUME NEW ok \in BOOLEAN, MarkTerminal(ok) PROVE WordsTyped'
    BY <2>18 DEF MarkTerminal, ExecEnds
  <2> QED BY <1>3, <2>1, <2>2, <2>3, <2>4, <2>5, <2>6, <2>7, <2>8, <2>9, <2>10, <2>11, <2>12,
     <2>13, <2>14, <2>15, <2>16, <2>17, <2>18 DEF ExecStep
<1>4. CASE Up /\ (HidEvent \/ Environment)
  BY <1>4 DEF HidEvent, Environment, LinkUpSafety, Hid!HostConnects, LinkDownFlags,
     LinkUp, LinkDown, Hid!HostDisconnects, SafetyRelease, SafetyOutcome,
     Hid!ReleaseConfirmed, Hid!ReleaseFailed, Hid!ReleaseReopened, ConsoleRelease,
     ConsoleStop
<1>5. CASE Reset
  BY <1>5 DEF Reset, NoTask, NoRequest
<1>6. CASE BootStep \/ BootCut
  BY <1>6 DEF BootStep, BootRead, BootClear, BootAgain, BootService, BootCut
<1>7. CASE UNCHANGED vars
  BY <1>7 DEF vars
<1> QED BY <1>1, <1>2, <1>3, <1>4, <1>5, <1>6, <1>7 DEF Next

\* The counters stay within their bounds; the keys typed do so with the index.
LEMMA CounterTypes ==
  ASSUME TypeOK, BootIsQuiet, CountsAgree, [Next]_vars
  PROVE  CountersTyped'
<1> USE TypeParts, RecordsAssumption, BoundsAssumption DEF CountersTyped, RecordsTyped,
      Task, CountsAgree, NoTask, NoRequest, jobVars, flagVars, hidVars, powerVars,
      stopVars
<1> CountersTyped BY TypeParts
<1>1. CASE Up /\ HttpRequest
  BY <1>1 DEF HttpRequest, StartRequest, StopRequest, HttpGoto, CancelJob, CreateJob,
     FinalizeJob
<1>2. CASE Up /\ HttpStep
  <2>1. CASE PrepareStart
    BY <2>1 DEF PrepareStart, HttpGoto
  <2>2. CASE StartFailed
    BY <2>2 DEF StartFailed, HttpGoto
  <2>3. CASE SetStopFlag
    BY <2>3 DEF SetStopFlag, HttpGoto
  <2>4. ASSUME NEW ok \in BOOLEAN, MarkActive(ok) PROVE CountersTyped'
    BY <2>4 DEF MarkActive, HttpGoto
  <2>5. ASSUME NEW ok \in BOOLEAN, CreateTask(ok) PROVE CountersTyped'
    BY <2>5 DEF CreateTask, HttpGoto, NoTask
  <2>6. ASSUME NEW ok \in BOOLEAN, Respond(ok) PROVE CountersTyped'
    BY <2>6 DEF Respond, HttpGoto, NoTask
  <2>7. ASSUME NEW ok \in BOOLEAN, ClearMarker(ok) PROVE CountersTyped'
    BY <2>7 DEF ClearMarker, HttpGoto
  <2> QED BY <1>2, <2>1, <2>2, <2>3, <2>4, <2>5, <2>6, <2>7 DEF HttpStep
<1>3. CASE Up /\ ExecStep
  <2>1. CASE RunCheck
    BY <2>1 DEF RunCheck, ExecGoto, ExecEnds
  <2>2. CASE ArmRunning
    BY <2>2 DEF ArmRunning, ExecGoto
  <2>3. CASE ArmStop
    BY <2>3 DEF ArmStop, ExecGoto
  <2>4. CASE Countdown
    BY <2>4 DEF Countdown, ExecGoto, ExecEnds
  <2>5. CASE MarkExecuting
    BY <2>5 DEF MarkExecuting, ExecGoto
  <2>6. CASE Hold
    BY <2>6 DEF Hold, ExecGoto, ExecEnds
  <2>7. CASE Progress
    BY <2>7 DEF Progress, ExecGoto
  <2>8. CASE NextRecord
    BY <2>8 DEF NextRecord, ExecGoto, ExecEnds
  <2>9. CASE Disarm
    BY <2>9 DEF Disarm, ExecGoto
  <2>10. CASE Complete
    BY <2>10 DEF Complete, ExecGoto
  <2>11. CASE Leave
    BY <2>11 DEF Leave, NoTask
  <2>12. ASSUME NEW ok \in BOOLEAN, FirstRelease(ok) PROVE CountersTyped'
    BY <2>12 DEF FirstRelease, ExecGoto, ExecEnds
  <2>13. ASSUME NEW ok \in BOOLEAN, Abort(ok) PROVE CountersTyped'
    BY <2>13 DEF Abort, ExecGoto
  <2>14. ASSUME NEW ok \in BOOLEAN, RecordBegin(ok) PROVE CountersTyped'
    BY <2>14 DEF RecordBegin, ExecGoto, ExecEnds
  <2>15. ASSUME NEW ok \in BOOLEAN, Press(ok) PROVE CountersTyped'
    BY <2>15 DEF Press, ExecGoto, ExecEnds, UpTo2
  <2>16. ASSUME NEW ok \in BOOLEAN, RecordRelease(ok) PROVE CountersTyped'
    BY <2>16 DEF RecordRelease, ExecGoto, ExecEnds
  <2>17. ASSUME NEW ok \in BOOLEAN, EndRelease(ok) PROVE CountersTyped'
    BY <2>17 DEF EndRelease, ExecEnds
  <2>18. ASSUME NEW ok \in BOOLEAN, MarkTerminal(ok) PROVE CountersTyped'
    BY <2>18 DEF MarkTerminal, ExecEnds
  <2> QED BY <1>3, <2>1, <2>2, <2>3, <2>4, <2>5, <2>6, <2>7, <2>8, <2>9, <2>10, <2>11, <2>12,
     <2>13, <2>14, <2>15, <2>16, <2>17, <2>18 DEF ExecStep
<1>4. CASE Up /\ (HidEvent \/ Environment)
  <2>1. CASE LinkUpSafety
    BY <2>1 DEF LinkUpSafety, Hid!HostConnects
  <2>2. CASE LinkDownFlags
    BY <2>2 DEF LinkDownFlags
  <2>3. CASE LinkUp
    BY <2>3 DEF LinkUp
  <2>4. CASE LinkDown
    BY <2>4 DEF LinkDown, Hid!HostDisconnects
  <2>5. CASE SafetyRelease
    BY <2>5 DEF SafetyRelease
  <2>6. CASE SafetyOutcome
    BY <1>4, <2>6 DEF SafetyOutcome, Hid!ReleaseConfirmed, Hid!ReleaseFailed,
       Hid!ReleaseReopened
  <2>7. CASE ConsoleRelease
    BY <2>7 DEF ConsoleRelease
  <2>8. ASSUME NEW ok \in BOOLEAN, ConsoleStop(ok) PROVE CountersTyped'
    BY <2>8 DEF ConsoleStop
  <2> QED BY <1>4, <2>1, <2>2, <2>3, <2>4, <2>5, <2>6, <2>7, <2>8 DEF HidEvent, Environment
<1>5. CASE Reset
  BY <1>5 DEF Reset, NoTask, NoRequest
<1>6. CASE BootStep \/ BootCut
  BY <1>6 DEF BootStep, BootRead, BootClear, BootAgain, BootService, BootCut
<1>7. CASE UNCHANGED vars
  BY <1>7 DEF vars
<1> QED BY <1>1, <1>2, <1>3, <1>4, <1>5, <1>6, <1>7 DEF Next

\* The flags stay flags.
LEMMA FlagTypes ==
  ASSUME TypeOK, BootIsQuiet, [Next]_vars
  PROVE  FlagsTyped'
<1> USE DEF FlagsTyped, NoTask, NoRequest, jobVars, flagVars, hidVars, powerVars,
      stopVars
<1> FlagsTyped BY TypeParts
<1>1. CASE Up /\ HttpRequest
  BY <1>1 DEF HttpRequest, StartRequest, StopRequest, HttpGoto, CancelJob, CreateJob,
     FinalizeJob
<1>2. CASE Up /\ HttpStep
  <2>1. CASE PrepareStart
    BY <2>1 DEF PrepareStart, HttpGoto
  <2>2. CASE StartFailed
    BY <2>2 DEF StartFailed, HttpGoto
  <2>3. CASE SetStopFlag
    BY <2>3 DEF SetStopFlag, HttpGoto
  <2>4. ASSUME NEW ok \in BOOLEAN, MarkActive(ok) PROVE FlagsTyped'
    BY <2>4, MarkerWritten DEF MarkActive, HttpGoto
  <2>5. ASSUME NEW ok \in BOOLEAN, CreateTask(ok) PROVE FlagsTyped'
    BY <2>5 DEF CreateTask, HttpGoto, NoTask
  <2>6. ASSUME NEW ok \in BOOLEAN, Respond(ok) PROVE FlagsTyped'
    BY <2>6 DEF Respond, HttpGoto, NoTask
  <2>7. ASSUME NEW ok \in BOOLEAN, ClearMarker(ok) PROVE FlagsTyped'
    BY <2>7, MarkerWritten DEF ClearMarker, HttpGoto
  <2> QED BY <1>2, <2>1, <2>2, <2>3, <2>4, <2>5, <2>6, <2>7 DEF HttpStep
<1>3. CASE Up /\ ExecStep
  <2>1. CASE RunCheck
    BY <2>1 DEF RunCheck, ExecGoto, ExecEnds
  <2>2. CASE ArmRunning
    BY <2>2 DEF ArmRunning, ExecGoto
  <2>3. CASE ArmStop
    BY <2>3 DEF ArmStop, ExecGoto
  <2>4. CASE Countdown
    BY <2>4 DEF Countdown, ExecGoto, ExecEnds
  <2>5. CASE MarkExecuting
    BY <2>5 DEF MarkExecuting, ExecGoto
  <2>6. CASE Hold
    BY <2>6 DEF Hold, ExecGoto, ExecEnds
  <2>7. CASE Progress
    BY <2>7 DEF Progress, ExecGoto
  <2>8. CASE NextRecord
    BY <2>8 DEF NextRecord, ExecGoto, ExecEnds
  <2>9. CASE Disarm
    BY <2>9 DEF Disarm, ExecGoto
  <2>10. CASE Complete
    BY <2>10 DEF Complete, ExecGoto
  <2>11. CASE Leave
    BY <2>11 DEF Leave, NoTask
  <2>12. ASSUME NEW ok \in BOOLEAN, FirstRelease(ok) PROVE FlagsTyped'
    BY <2>12, ReleaseLifts DEF FirstRelease, ExecGoto, ExecEnds
  <2>13. ASSUME NEW ok \in BOOLEAN, Abort(ok) PROVE FlagsTyped'
    BY <2>13, ReleaseLifts DEF Abort, ExecGoto
  <2>14. ASSUME NEW ok \in BOOLEAN, RecordBegin(ok) PROVE FlagsTyped'
    BY <2>14 DEF RecordBegin, ExecGoto, ExecEnds
  <2>15. ASSUME NEW ok \in BOOLEAN, Press(ok) PROVE FlagsTyped'
    BY <2>15 DEF Press, ExecGoto, ExecEnds
  <2>16. ASSUME NEW ok \in BOOLEAN, RecordRelease(ok) PROVE FlagsTyped'
    BY <2>16, ReleaseLifts DEF RecordRelease, ExecGoto, ExecEnds
  <2>17. ASSUME NEW ok \in BOOLEAN, EndRelease(ok) PROVE FlagsTyped'
    BY <2>17, ReleaseLifts DEF EndRelease, ExecEnds
  <2>18. ASSUME NEW ok \in BOOLEAN, MarkTerminal(ok) PROVE FlagsTyped'
    BY <2>18, MarkerWritten DEF MarkTerminal, ExecEnds
  <2> QED BY <1>3, <2>1, <2>2, <2>3, <2>4, <2>5, <2>6, <2>7, <2>8, <2>9, <2>10, <2>11, <2>12,
     <2>13, <2>14, <2>15, <2>16, <2>17, <2>18 DEF ExecStep
<1>4. CASE Up /\ (HidEvent \/ Environment)
  BY <1>4, ReleaseLifts DEF HidEvent, Environment, LinkUpSafety, Hid!HostConnects,
     LinkDownFlags, LinkUp, LinkDown, Hid!HostDisconnects, SafetyRelease,
     SafetyOutcome, Hid!ReleaseConfirmed, Hid!ReleaseFailed, Hid!ReleaseReopened,
     ConsoleRelease, ConsoleStop
<1>5. CASE Reset
  BY <1>5 DEF Reset, NoTask, NoRequest
<1>6. CASE BootStep \/ BootCut
  BY <1>6, MarkerWritten DEF BootStep, BootRead, BootClear, BootAgain, BootService,
     BootCut
<1>7. CASE UNCHANGED vars
  BY <1>7 DEF vars
<1> QED BY <1>1, <1>2, <1>3, <1>4, <1>5, <1>6, <1>7 DEF Next

\* Nothing runs before the boot is over.
LEMMA BootQuietStep ==
  ASSUME TypeOK, BootIsQuiet, [Next]_vars
  PROVE  BootIsQuiet'
<1> USE DEF BootIsQuiet, NoTask, NoRequest, jobVars, flagVars, hidVars, powerVars,
      stopVars
<1>1. CASE Up /\ HttpRequest
  BY <1>1 DEF HttpRequest, StartRequest, StopRequest, HttpGoto, CancelJob, CreateJob,
     FinalizeJob, Up
<1>2. CASE Up /\ HttpStep
  BY <1>2 DEF HttpStep, PrepareStart, HttpGoto, StartFailed, SetStopFlag, MarkActive,
     CreateTask, NoTask, Respond, ClearMarker, Up
<1>3. CASE Up /\ ExecStep
  BY <1>3 DEF ExecStep, RunCheck, ExecGoto, ExecEnds, ArmRunning, ArmStop, Countdown,
     MarkExecuting, Hold, Progress, NextRecord, Disarm, Complete, Leave, NoTask,
     FirstRelease, Abort, RecordBegin, Press, RecordRelease, EndRelease, MarkTerminal,
     Up
<1>4. CASE Up /\ (HidEvent \/ Environment)
  BY <1>4, OutsideFrame
<1>5. CASE Reset
  BY <1>5 DEF Reset, NoTask, NoRequest
<1>6. CASE BootStep \/ BootCut
  BY <1>6 DEF BootStep, BootRead, BootClear, BootAgain, BootService, BootCut
<1>7. CASE UNCHANGED vars
  BY <1>7 DEF vars
<1> QED BY <1>1, <1>2, <1>3, <1>4, <1>5, <1>6, <1>7 DEF Next

\* Where the task goes, and with what result.
LEMMA GotoMoves ==
  ASSUME exec \in Task, NEW place, ExecGoto(place)
  PROVE  exec'.pc = place /\ exec'.error = exec.error /\ exec'.index = exec.index
BY DEF ExecGoto, Task

LEMMA EndsMoves ==
  ASSUME exec \in Task, NEW place, NEW result, ExecEnds(place, result)
  PROVE  exec'.pc = place /\ exec'.error = result /\ exec'.index = exec.index
BY DEF ExecEnds, Task

\* The job changes hands only between START and the execution task.
LEMMA OwnerStep ==
  ASSUME TypeOK, BootIsQuiet, OwnerKnown, [Next]_vars
  PROVE  OwnerKnown'
<1> USE DEF Request, Task, BootIsQuiet, OwnerKnown, Status, Locked, Active,
      StartPending, Typing, Armed, BeforeMark, AfterRun, NoTask, NoRequest, jobVars,
      flagVars, hidVars, powerVars, stopVars
<1> exec \in Task /\ http \in Request /\ status \in Status
  BY DEF TypeOK
<1>1. CASE Up /\ HttpRequest
  BY <1>1 DEF HttpRequest, StartRequest, StopRequest, HttpGoto, CancelJob, CreateJob,
     FinalizeJob
<1>2. CASE Up /\ HttpStep
  <2>1. CASE PrepareStart
    BY <2>1 DEF PrepareStart, HttpGoto
  <2>2. CASE StartFailed
    BY <2>2 DEF StartFailed, HttpGoto
  <2>3. CASE SetStopFlag
    BY <2>3 DEF SetStopFlag, HttpGoto
  <2>4. ASSUME NEW ok \in BOOLEAN, MarkActive(ok) PROVE OwnerKnown'
    BY <2>4 DEF MarkActive, HttpGoto
  <2>5. ASSUME NEW ok \in BOOLEAN, CreateTask(ok) PROVE OwnerKnown'
    BY <2>5 DEF CreateTask, HttpGoto, NoTask
  <2>6. ASSUME NEW ok \in BOOLEAN, Respond(ok) PROVE OwnerKnown'
    BY <2>6 DEF Respond, HttpGoto, NoTask
  <2>7. ASSUME NEW ok \in BOOLEAN, ClearMarker(ok) PROVE OwnerKnown'
    BY <2>7 DEF ClearMarker, HttpGoto
  <2> QED BY <1>2, <2>1, <2>2, <2>3, <2>4, <2>5, <2>6, <2>7 DEF HttpStep
<1>3. CASE Up /\ ExecStep
  <2>1. CASE RunCheck
    BY <2>1, GotoMoves, EndsMoves DEF RunCheck
  <2>2. CASE ArmRunning
    BY <2>2 DEF ArmRunning, ExecGoto
  <2>3. CASE ArmStop
    BY <2>3 DEF ArmStop, ExecGoto
  <2>4. CASE Countdown
    BY <2>4, GotoMoves, EndsMoves DEF Countdown
  <2>5. CASE MarkExecuting
    BY <2>5 DEF MarkExecuting, ExecGoto
  <2>6. CASE Hold
    BY <2>6, GotoMoves, EndsMoves DEF Hold
  <2>7. CASE Progress
    BY <2>7 DEF Progress, ExecGoto
  <2>8. CASE NextRecord
    <3>1. /\ exec.pc = "next" /\ UNCHANGED <<status, http, typed>>
          /\ \/ exec'.pc = "finish" /\ exec'.error = "STOPPED"
             \/ /\ exec'.pc = "finish" /\ exec'.error = exec.error
                /\ exec.index = Records
             \/ exec'.pc = "record" /\ exec'.error = exec.error
      BY <2>8, GotoMoves, EndsMoves DEF NextRecord
    <3>2. QED BY <3>1
  <2>9. CASE Disarm
    BY <2>9 DEF Disarm, ExecGoto
  <2>10. CASE Complete
    BY <2>10 DEF Complete, ExecGoto
  <2>11. CASE Leave
    BY <2>11 DEF Leave, NoTask
  <2>12. ASSUME NEW ok \in BOOLEAN, FirstRelease(ok) PROVE OwnerKnown'
    BY <2>12, GotoMoves, EndsMoves DEF FirstRelease
  <2>13. ASSUME NEW ok \in BOOLEAN, Abort(ok) PROVE OwnerKnown'
    BY <2>13 DEF Abort, ExecGoto
  <2>14. ASSUME NEW ok \in BOOLEAN, RecordBegin(ok) PROVE OwnerKnown'
    BY <2>14, GotoMoves, EndsMoves DEF RecordBegin
  <2>15. ASSUME NEW ok \in BOOLEAN, Press(ok) PROVE OwnerKnown'
    BY <2>15, GotoMoves, EndsMoves DEF Press
  <2>16. ASSUME NEW ok \in BOOLEAN, RecordRelease(ok) PROVE OwnerKnown'
    BY <2>16, GotoMoves, EndsMoves DEF RecordRelease
  <2>17. ASSUME NEW ok \in BOOLEAN, EndRelease(ok) PROVE OwnerKnown'
    BY <2>17 DEF EndRelease, ExecEnds
  <2>18. ASSUME NEW ok \in BOOLEAN, MarkTerminal(ok) PROVE OwnerKnown'
    BY <2>18 DEF MarkTerminal, ExecEnds
  <2> QED BY <1>3, <2>1, <2>2, <2>3, <2>4, <2>5, <2>6, <2>7, <2>8, <2>9, <2>10, <2>11, <2>12,
     <2>13, <2>14, <2>15, <2>16, <2>17, <2>18 DEF ExecStep
<1>4. CASE Up /\ (HidEvent \/ Environment)
  BY <1>4, OutsideFrame
<1>5. CASE Reset
  BY <1>5 DEF Reset, NoTask, NoRequest
<1>6. CASE BootStep \/ BootCut
  BY <1>6 DEF BootStep, BootRead, BootClear, BootAgain, BootService, BootCut
<1>7. CASE UNCHANGED vars
  BY <1>7 DEF vars
<1> QED BY <1>1, <1>2, <1>3, <1>4, <1>5, <1>6, <1>7 DEF Next

\* The result is OK until something ends the run, and stays as it was then or gets worse.
LEMMA ResultStep ==
  ASSUME TypeOK, BootIsQuiet, OwnerKnown, ResultKnown, CountsAgree, [Next]_vars
  PROVE  ResultKnown'
<1> USE RecordsAssumption DEF Request, Task, BootIsQuiet, OwnerKnown, ResultKnown,
      CountsAgree, Status, Locked, Active, StartPending, Typing, Armed, BeforeMark,
      AfterRun, NoTask, NoRequest, jobVars, flagVars, hidVars, powerVars, stopVars
<1> exec \in Task /\ http \in Request /\ status \in Status /\ typed \in 0 .. Records /\ completed \in 0 .. Records
  BY DEF TypeOK
<1>1. CASE Up /\ HttpRequest
  BY <1>1 DEF HttpRequest, StartRequest, StopRequest, HttpGoto, CancelJob, CreateJob,
     FinalizeJob
<1>2. CASE Up /\ HttpStep
  <2>1. CASE PrepareStart
    BY <2>1 DEF PrepareStart, HttpGoto
  <2>2. CASE StartFailed
    BY <2>2 DEF StartFailed, HttpGoto
  <2>3. CASE SetStopFlag
    BY <2>3 DEF SetStopFlag, HttpGoto
  <2>4. ASSUME NEW ok \in BOOLEAN, MarkActive(ok) PROVE ResultKnown'
    BY <2>4 DEF MarkActive, HttpGoto
  <2>5. ASSUME NEW ok \in BOOLEAN, CreateTask(ok) PROVE ResultKnown'
    BY <2>5 DEF CreateTask, HttpGoto, NoTask
  <2>6. ASSUME NEW ok \in BOOLEAN, Respond(ok) PROVE ResultKnown'
    BY <2>6 DEF Respond, HttpGoto, NoTask
  <2>7. ASSUME NEW ok \in BOOLEAN, ClearMarker(ok) PROVE ResultKnown'
    BY <2>7 DEF ClearMarker, HttpGoto
  <2> QED BY <1>2, <2>1, <2>2, <2>3, <2>4, <2>5, <2>6, <2>7 DEF HttpStep
<1>3. CASE Up /\ ExecStep
  <2>1. CASE RunCheck
    BY <2>1, GotoMoves, EndsMoves DEF RunCheck
  <2>2. CASE ArmRunning
    BY <2>2 DEF ArmRunning, ExecGoto
  <2>3. CASE ArmStop
    BY <2>3 DEF ArmStop, ExecGoto
  <2>4. CASE Countdown
    BY <2>4, GotoMoves, EndsMoves DEF Countdown
  <2>5. CASE MarkExecuting
    BY <2>5 DEF MarkExecuting, ExecGoto
  <2>6. CASE Hold
    BY <2>6, GotoMoves, EndsMoves DEF Hold
  <2>7. CASE Progress
    BY <2>7 DEF Progress, ExecGoto
  <2>8. CASE NextRecord
    <3>1. /\ exec.pc = "next" /\ UNCHANGED <<status, http, typed>>
          /\ \/ exec'.pc = "finish" /\ exec'.error = "STOPPED"
             \/ /\ exec'.pc = "finish" /\ exec'.error = exec.error
                /\ exec.index = Records
             \/ exec'.pc = "record" /\ exec'.error = exec.error
      BY <2>8, GotoMoves, EndsMoves DEF NextRecord
    <3>2. QED BY <3>1
  <2>9. CASE Disarm
    BY <2>9 DEF Disarm, ExecGoto
  <2>10. CASE Complete
    BY <2>10 DEF Complete, ExecGoto
  <2>11. CASE Leave
    BY <2>11 DEF Leave, NoTask
  <2>12. ASSUME NEW ok \in BOOLEAN, FirstRelease(ok) PROVE ResultKnown'
    BY <2>12, GotoMoves, EndsMoves DEF FirstRelease
  <2>13. ASSUME NEW ok \in BOOLEAN, Abort(ok) PROVE ResultKnown'
    BY <2>13 DEF Abort, ExecGoto
  <2>14. ASSUME NEW ok \in BOOLEAN, RecordBegin(ok) PROVE ResultKnown'
    BY <2>14, GotoMoves, EndsMoves DEF RecordBegin
  <2>15. ASSUME NEW ok \in BOOLEAN, Press(ok) PROVE ResultKnown'
    BY <2>15, GotoMoves, EndsMoves DEF Press
  <2>16. ASSUME NEW ok \in BOOLEAN, RecordRelease(ok) PROVE ResultKnown'
    BY <2>16, GotoMoves, EndsMoves DEF RecordRelease
  <2>17. ASSUME NEW ok \in BOOLEAN, EndRelease(ok) PROVE ResultKnown'
    BY <2>17 DEF EndRelease, ExecEnds
  <2>18. ASSUME NEW ok \in BOOLEAN, MarkTerminal(ok) PROVE ResultKnown'
    BY <2>18 DEF MarkTerminal, ExecEnds
  <2> QED BY <1>3, <2>1, <2>2, <2>3, <2>4, <2>5, <2>6, <2>7, <2>8, <2>9, <2>10, <2>11, <2>12,
     <2>13, <2>14, <2>15, <2>16, <2>17, <2>18 DEF ExecStep
<1>4. CASE Up /\ (HidEvent \/ Environment)
  BY <1>4, OutsideFrame
<1>5. CASE Reset
  BY <1>5 DEF Reset, NoTask, NoRequest
<1>6. CASE BootStep \/ BootCut
  BY <1>6 DEF BootStep, BootRead, BootClear, BootAgain, BootService, BootCut
<1>7. CASE UNCHANGED vars
  BY <1>7 DEF vars
<1> QED BY <1>1, <1>2, <1>3, <1>4, <1>5, <1>6, <1>7 DEF Next

\* The index and the keys typed advance together; the counter starts over with each
\* upload.
LEMMA CountStep ==
  ASSUME TypeOK, BootIsQuiet, OwnerKnown, CountsAgree, [Next]_vars
  PROVE  CountsAgree'
<1> USE RecordsAssumption DEF Request, Task, BootIsQuiet, OwnerKnown, CountsAgree,
      Status, Locked, Active, StartPending, Typing, Armed, BeforeMark, AfterRun, NoTask,
      NoRequest, jobVars, flagVars, hidVars, powerVars, stopVars
<1> exec \in Task /\ http \in Request /\ status \in Status /\ typed \in 0 .. Records /\ completed \in 0 .. Records
  BY DEF TypeOK
<1>1. CASE Up /\ HttpRequest
  BY <1>1 DEF HttpRequest, StartRequest, StopRequest, HttpGoto, CancelJob, CreateJob,
     FinalizeJob
<1>2. CASE Up /\ HttpStep
  <2>1. CASE PrepareStart
    BY <2>1 DEF PrepareStart, HttpGoto
  <2>2. CASE StartFailed
    BY <2>2 DEF StartFailed, HttpGoto
  <2>3. CASE SetStopFlag
    BY <2>3 DEF SetStopFlag, HttpGoto
  <2>4. ASSUME NEW ok \in BOOLEAN, MarkActive(ok) PROVE CountsAgree'
    BY <2>4 DEF MarkActive, HttpGoto
  <2>5. ASSUME NEW ok \in BOOLEAN, CreateTask(ok) PROVE CountsAgree'
    BY <2>5 DEF CreateTask, HttpGoto, NoTask
  <2>6. ASSUME NEW ok \in BOOLEAN, Respond(ok) PROVE CountsAgree'
    BY <2>6 DEF Respond, HttpGoto, NoTask
  <2>7. ASSUME NEW ok \in BOOLEAN, ClearMarker(ok) PROVE CountsAgree'
    BY <2>7 DEF ClearMarker, HttpGoto
  <2> QED BY <1>2, <2>1, <2>2, <2>3, <2>4, <2>5, <2>6, <2>7 DEF HttpStep
<1>3. CASE Up /\ ExecStep
  <2>1. CASE RunCheck
    BY <2>1, GotoMoves, EndsMoves DEF RunCheck
  <2>2. CASE ArmRunning
    BY <2>2 DEF ArmRunning, ExecGoto
  <2>3. CASE ArmStop
    BY <2>3 DEF ArmStop, ExecGoto
  <2>4. CASE Countdown
    BY <2>4, GotoMoves, EndsMoves DEF Countdown
  <2>5. CASE MarkExecuting
    BY <2>5 DEF MarkExecuting, ExecGoto
  <2>6. CASE Hold
    BY <2>6, GotoMoves, EndsMoves DEF Hold
  <2>7. CASE Progress
    BY <2>7 DEF Progress, ExecGoto
  <2>8. CASE NextRecord
    <3>1. /\ exec.pc = "next" /\ UNCHANGED <<status, http, typed, completed>>
          /\ \/ exec'.pc = "finish"
             \/ exec'.pc = "record" /\ exec'.index = exec.index + 1
      BY <2>8 DEF NextRecord, ExecGoto, ExecEnds
    <3>2. QED BY <3>1
  <2>9. CASE Disarm
    BY <2>9 DEF Disarm, ExecGoto
  <2>10. CASE Complete
    BY <2>10 DEF Complete, ExecGoto
  <2>11. CASE Leave
    BY <2>11 DEF Leave, NoTask
  <2>12. ASSUME NEW ok \in BOOLEAN, FirstRelease(ok) PROVE CountsAgree'
    BY <2>12, GotoMoves, EndsMoves DEF FirstRelease
  <2>13. ASSUME NEW ok \in BOOLEAN, Abort(ok) PROVE CountsAgree'
    BY <2>13 DEF Abort, ExecGoto
  <2>14. ASSUME NEW ok \in BOOLEAN, RecordBegin(ok) PROVE CountsAgree'
    <3>1. /\ exec.pc = "record" /\ UNCHANGED <<status, http, typed, completed>>
          /\ exec'.pc \in {"finish", "press"} /\ exec'.index = exec.index
      BY <2>14, GotoMoves, EndsMoves DEF RecordBegin
    <3>2. QED BY <3>1
  <2>15. ASSUME NEW ok \in BOOLEAN, Press(ok) PROVE CountsAgree'
    BY <2>15, GotoMoves, EndsMoves DEF Press
  <2>16. ASSUME NEW ok \in BOOLEAN, RecordRelease(ok) PROVE CountsAgree'
    BY <2>16, GotoMoves, EndsMoves DEF RecordRelease
  <2>17. ASSUME NEW ok \in BOOLEAN, EndRelease(ok) PROVE CountsAgree'
    BY <2>17 DEF EndRelease, ExecEnds
  <2>18. ASSUME NEW ok \in BOOLEAN, MarkTerminal(ok) PROVE CountsAgree'
    BY <2>18 DEF MarkTerminal, ExecEnds
  <2> QED BY <1>3, <2>1, <2>2, <2>3, <2>4, <2>5, <2>6, <2>7, <2>8, <2>9, <2>10, <2>11, <2>12,
     <2>13, <2>14, <2>15, <2>16, <2>17, <2>18 DEF ExecStep
<1>4. CASE Up /\ (HidEvent \/ Environment)
  BY <1>4, OutsideFrame
<1>5. CASE Reset
  BY <1>5 DEF Reset, NoTask, NoRequest
<1>6. CASE BootStep \/ BootCut
  BY <1>6 DEF BootStep, BootRead, BootClear, BootAgain, BootService, BootCut
<1>7. CASE UNCHANGED vars
  BY <1>7 DEF vars
<1> QED BY <1>1, <1>2, <1>3, <1>4, <1>5, <1>6, <1>7 DEF Next

\* What the run has released stays up until it presses again.
LEMMA KeysStep ==
  ASSUME TypeOK, BootIsQuiet, KeysUp, ResultKnown, [Next]_vars
  PROVE  KeysUp'
<1> USE DEF Task, BootIsQuiet, KeysUp, ResultKnown, Typing, Armed, BeforeMark, AfterRun,
      NoTask, NoRequest, jobVars, flagVars, hidVars, powerVars, stopVars
<1> exec \in Task /\ held \in BOOLEAN
  BY DEF TypeOK
<1>1. CASE Up /\ HttpRequest
  BY <1>1 DEF HttpRequest, StartRequest, StopRequest, HttpGoto, CancelJob, CreateJob,
     FinalizeJob
<1>2. CASE Up /\ HttpStep
  <2>1. CASE PrepareStart
    BY <2>1 DEF PrepareStart, HttpGoto
  <2>2. CASE StartFailed
    BY <2>2 DEF StartFailed, HttpGoto
  <2>3. CASE SetStopFlag
    BY <2>3 DEF SetStopFlag, HttpGoto
  <2>4. ASSUME NEW ok \in BOOLEAN, MarkActive(ok) PROVE KeysUp'
    BY <2>4 DEF MarkActive, HttpGoto
  <2>5. ASSUME NEW ok \in BOOLEAN, CreateTask(ok) PROVE KeysUp'
    BY <2>5 DEF CreateTask, HttpGoto, NoTask
  <2>6. ASSUME NEW ok \in BOOLEAN, Respond(ok) PROVE KeysUp'
    BY <2>6 DEF Respond, HttpGoto, NoTask
  <2>7. ASSUME NEW ok \in BOOLEAN, ClearMarker(ok) PROVE KeysUp'
    BY <2>7 DEF ClearMarker, HttpGoto
  <2> QED BY <1>2, <2>1, <2>2, <2>3, <2>4, <2>5, <2>6, <2>7 DEF HttpStep
<1>3. CASE Up /\ ExecStep
  <2>1. CASE RunCheck
    BY <2>1 DEF RunCheck, ExecGoto, ExecEnds
  <2>2. CASE ArmRunning
    BY <2>2 DEF ArmRunning, ExecGoto
  <2>3. CASE ArmStop
    BY <2>3 DEF ArmStop, ExecGoto
  <2>4. CASE Countdown
    BY <2>4 DEF Countdown, ExecGoto, ExecEnds
  <2>5. CASE MarkExecuting
    BY <2>5 DEF MarkExecuting, ExecGoto
  <2>6. CASE Hold
    BY <2>6 DEF Hold, ExecGoto, ExecEnds
  <2>7. CASE Progress
    BY <2>7 DEF Progress, ExecGoto
  <2>8. CASE NextRecord
    BY <2>8 DEF NextRecord, ExecGoto, ExecEnds
  <2>9. CASE Disarm
    BY <2>9 DEF Disarm, ExecGoto
  <2>10. CASE Complete
    BY <2>10 DEF Complete, ExecGoto
  <2>11. CASE Leave
    BY <2>11 DEF Leave, NoTask
  <2>12. ASSUME NEW ok \in BOOLEAN, FirstRelease(ok) PROVE KeysUp'
    BY <2>12, ReleaseLifts DEF FirstRelease, ExecGoto, ExecEnds
  <2>13. ASSUME NEW ok \in BOOLEAN, Abort(ok) PROVE KeysUp'
    BY <2>13, ReleaseLifts DEF Abort, ExecGoto
  <2>14. ASSUME NEW ok \in BOOLEAN, RecordBegin(ok) PROVE KeysUp'
    BY <2>14 DEF RecordBegin, ExecGoto, ExecEnds
  <2>15. ASSUME NEW ok \in BOOLEAN, Press(ok) PROVE KeysUp'
    BY <2>15 DEF Press, ExecGoto, ExecEnds
  <2>16. ASSUME NEW ok \in BOOLEAN, RecordRelease(ok) PROVE KeysUp'
    BY <2>16, ReleaseLifts DEF RecordRelease, ExecGoto, ExecEnds
  <2>17. ASSUME NEW ok \in BOOLEAN, EndRelease(ok) PROVE KeysUp'
    BY <2>17, ReleaseLifts DEF EndRelease, ExecEnds
  <2>18. ASSUME NEW ok \in BOOLEAN, MarkTerminal(ok) PROVE KeysUp'
    BY <2>18 DEF MarkTerminal, ExecEnds
  <2> QED BY <1>3, <2>1, <2>2, <2>3, <2>4, <2>5, <2>6, <2>7, <2>8, <2>9, <2>10, <2>11, <2>12,
     <2>13, <2>14, <2>15, <2>16, <2>17, <2>18 DEF ExecStep
<1>4. CASE Up /\ (HidEvent \/ Environment)
  BY <1>4, OutsideFrame
<1>5. CASE Reset
  BY <1>5 DEF Reset, NoTask, NoRequest
<1>6. CASE BootStep \/ BootCut
  <2>1. CASE BootRead
    BY <2>1 DEF BootRead
  <2>2. ASSUME NEW ok \in BOOLEAN, BootClear(ok) PROVE KeysUp'
    BY <2>2 DEF BootClear, BootAgain
  <2>3. CASE BootService
    BY <2>3 DEF BootService
  <2>4. CASE BootCut
    BY <2>4 DEF BootCut, BootAgain
  <2> QED BY <1>6, <2>1, <2>2, <2>3, <2>4 DEF BootStep
<1>7. CASE UNCHANGED vars
  BY <1>7 DEF vars
<1> QED BY <1>1, <1>2, <1>3, <1>4, <1>5, <1>6, <1>7 DEF Next

\* The press that the flag overtakes is the last.
LEMMA OverrunStep ==
  ASSUME TypeOK, BootIsQuiet, OwnerKnown, OverrunKnown, FlagSilences, [Next]_vars
  PROVE  (OverrunKnown /\ FlagSilences)'
<1> USE DEF Request, Task, BootIsQuiet, OwnerKnown, OverrunKnown, FlagSilences,
      StartPending, NoTask, NoRequest, jobVars, flagVars, hidVars, powerVars, stopVars
<1> exec \in Task /\ http \in Request /\ status \in Status /\ overrun \in 0 .. 2 /\ stopRequested \in BOOLEAN
  BY DEF TypeOK
<1>1. CASE Up /\ HttpRequest
  BY <1>1 DEF HttpRequest, StartRequest, StopRequest, HttpGoto, CancelJob, CreateJob,
     FinalizeJob
<1>2. CASE Up /\ HttpStep
  <2>1. CASE PrepareStart
    BY <2>1 DEF PrepareStart, HttpGoto
  <2>2. CASE StartFailed
    BY <2>2 DEF StartFailed, HttpGoto
  <2>3. CASE SetStopFlag
    BY <2>3 DEF SetStopFlag, HttpGoto
  <2>4. ASSUME NEW ok \in BOOLEAN, MarkActive(ok) PROVE (OverrunKnown /\ FlagSilences)'
    BY <2>4 DEF MarkActive, HttpGoto
  <2>5. ASSUME NEW ok \in BOOLEAN, CreateTask(ok) PROVE (OverrunKnown /\ FlagSilences)'
    BY <2>5 DEF CreateTask, HttpGoto, NoTask
  <2>6. ASSUME NEW ok \in BOOLEAN, Respond(ok) PROVE (OverrunKnown /\ FlagSilences)'
    BY <2>6 DEF Respond, HttpGoto, NoTask
  <2>7. ASSUME NEW ok \in BOOLEAN, ClearMarker(ok) PROVE (OverrunKnown /\ FlagSilences)'
    BY <2>7 DEF ClearMarker, HttpGoto
  <2> QED BY <1>2, <2>1, <2>2, <2>3, <2>4, <2>5, <2>6, <2>7 DEF HttpStep
<1>3. CASE Up /\ ExecStep
  <2>1. CASE RunCheck
    BY <2>1 DEF RunCheck, ExecGoto, ExecEnds
  <2>2. CASE ArmRunning
    BY <2>2 DEF ArmRunning, ExecGoto
  <2>3. CASE ArmStop
    BY <2>3 DEF ArmStop, ExecGoto
  <2>4. CASE Countdown
    BY <2>4 DEF Countdown, ExecGoto, ExecEnds, StopSeen
  <2>5. CASE MarkExecuting
    BY <2>5 DEF MarkExecuting, ExecGoto
  <2>6. CASE Hold
    BY <2>6 DEF Hold, ExecGoto, ExecEnds, StopSeen
  <2>7. CASE Progress
    BY <2>7 DEF Progress, ExecGoto
  <2>8. CASE NextRecord
    BY <2>8 DEF NextRecord, ExecGoto, ExecEnds, StopSeen
  <2>9. CASE Disarm
    BY <2>9 DEF Disarm, ExecGoto
  <2>10. CASE Complete
    BY <2>10 DEF Complete, ExecGoto
  <2>11. CASE Leave
    BY <2>11 DEF Leave, NoTask
  <2>12. ASSUME NEW ok \in BOOLEAN, FirstRelease(ok) PROVE (OverrunKnown /\ FlagSilences)'
    BY <2>12 DEF FirstRelease, ExecGoto, ExecEnds
  <2>13. ASSUME NEW ok \in BOOLEAN, Abort(ok) PROVE (OverrunKnown /\ FlagSilences)'
    BY <2>13 DEF Abort, ExecGoto
  <2>14. ASSUME NEW ok \in BOOLEAN, RecordBegin(ok) PROVE (OverrunKnown /\ FlagSilences)'
    BY <2>14 DEF RecordBegin, ExecGoto, ExecEnds, StopSeen
  <2>15. ASSUME NEW ok \in BOOLEAN, Press(ok) PROVE (OverrunKnown /\ FlagSilences)'
    BY <2>15 DEF Press, ExecGoto, ExecEnds, UpTo2
  <2>16. ASSUME NEW ok \in BOOLEAN, RecordRelease(ok) PROVE (OverrunKnown /\ FlagSilences)'
    BY <2>16 DEF RecordRelease, ExecGoto, ExecEnds
  <2>17. ASSUME NEW ok \in BOOLEAN, EndRelease(ok) PROVE (OverrunKnown /\ FlagSilences)'
    BY <2>17 DEF EndRelease, ExecEnds
  <2>18. ASSUME NEW ok \in BOOLEAN, MarkTerminal(ok) PROVE (OverrunKnown /\ FlagSilences)'
    BY <2>18 DEF MarkTerminal, ExecEnds
  <2> QED BY <1>3, <2>1, <2>2, <2>3, <2>4, <2>5, <2>6, <2>7, <2>8, <2>9, <2>10, <2>11, <2>12,
     <2>13, <2>14, <2>15, <2>16, <2>17, <2>18 DEF ExecStep
<1>4. CASE Up /\ (HidEvent \/ Environment)
  BY <1>4, OutsideFrame
<1>5. CASE Reset
  BY <1>5 DEF Reset, NoTask, NoRequest
<1>6. CASE BootStep \/ BootCut
  BY <1>6 DEF BootStep, BootRead, BootClear, BootAgain, BootService, BootCut
<1>7. CASE UNCHANGED vars
  BY <1>7 DEF vars
<1> QED BY <1>1, <1>2, <1>3, <1>4, <1>5, <1>6, <1>7 DEF Next

\* The marker is written before the task is created and cleared when it has ended.
LEMMA MarkerStep ==
  ASSUME TypeOK, BootIsQuiet, OwnerKnown, MarkerStands, [Next]_vars
  PROVE  MarkerStands'
<1> USE DEF Request, Task, BootIsQuiet, OwnerKnown, MarkerStands, StartPending, Typing,
      Armed, BeforeMark, AfterRun, NoTask, NoRequest, jobVars, flagVars, hidVars,
      powerVars, stopVars
<1> exec \in Task /\ http \in Request /\ status \in Status /\ marker \in BOOLEAN /\ interrupted \in BOOLEAN
  BY DEF TypeOK
<1>1. CASE Up /\ HttpRequest
  BY <1>1 DEF HttpRequest, StartRequest, StopRequest, HttpGoto, CancelJob, CreateJob,
     FinalizeJob
<1>2. CASE Up /\ HttpStep
  <2>1. CASE PrepareStart
    BY <2>1 DEF PrepareStart, HttpGoto
  <2>2. CASE StartFailed
    BY <2>2 DEF StartFailed, HttpGoto
  <2>3. CASE SetStopFlag
    BY <2>3 DEF SetStopFlag, HttpGoto
  <2>4. ASSUME NEW ok \in BOOLEAN, MarkActive(ok) PROVE MarkerStands'
    BY <2>4, MarkerWritten DEF MarkActive, HttpGoto
  <2>5. ASSUME NEW ok \in BOOLEAN, CreateTask(ok) PROVE MarkerStands'
    BY <2>5 DEF CreateTask, HttpGoto, NoTask
  <2>6. ASSUME NEW ok \in BOOLEAN, Respond(ok) PROVE MarkerStands'
    BY <2>6 DEF Respond, HttpGoto, NoTask
  <2>7. ASSUME NEW ok \in BOOLEAN, ClearMarker(ok) PROVE MarkerStands'
    BY <2>7, MarkerWritten DEF ClearMarker, HttpGoto
  <2> QED BY <1>2, <2>1, <2>2, <2>3, <2>4, <2>5, <2>6, <2>7 DEF HttpStep
<1>3. CASE Up /\ ExecStep
  <2>1. CASE RunCheck
    BY <2>1 DEF RunCheck, ExecGoto, ExecEnds
  <2>2. CASE ArmRunning
    BY <2>2 DEF ArmRunning, ExecGoto
  <2>3. CASE ArmStop
    BY <2>3 DEF ArmStop, ExecGoto
  <2>4. CASE Countdown
    BY <2>4 DEF Countdown, ExecGoto, ExecEnds
  <2>5. CASE MarkExecuting
    BY <2>5 DEF MarkExecuting, ExecGoto
  <2>6. CASE Hold
    BY <2>6 DEF Hold, ExecGoto, ExecEnds
  <2>7. CASE Progress
    BY <2>7 DEF Progress, ExecGoto
  <2>8. CASE NextRecord
    BY <2>8 DEF NextRecord, ExecGoto, ExecEnds
  <2>9. CASE Disarm
    BY <2>9 DEF Disarm, ExecGoto
  <2>10. CASE Complete
    BY <2>10 DEF Complete, ExecGoto
  <2>11. CASE Leave
    BY <2>11 DEF Leave, NoTask
  <2>12. ASSUME NEW ok \in BOOLEAN, FirstRelease(ok) PROVE MarkerStands'
    BY <2>12 DEF FirstRelease, ExecGoto, ExecEnds
  <2>13. ASSUME NEW ok \in BOOLEAN, Abort(ok) PROVE MarkerStands'
    BY <2>13 DEF Abort, ExecGoto
  <2>14. ASSUME NEW ok \in BOOLEAN, RecordBegin(ok) PROVE MarkerStands'
    BY <2>14 DEF RecordBegin, ExecGoto, ExecEnds
  <2>15. ASSUME NEW ok \in BOOLEAN, Press(ok) PROVE MarkerStands'
    BY <2>15 DEF Press, ExecGoto, ExecEnds
  <2>16. ASSUME NEW ok \in BOOLEAN, RecordRelease(ok) PROVE MarkerStands'
    BY <2>16 DEF RecordRelease, ExecGoto, ExecEnds
  <2>17. ASSUME NEW ok \in BOOLEAN, EndRelease(ok) PROVE MarkerStands'
    BY <2>17 DEF EndRelease, ExecEnds
  <2>18. ASSUME NEW ok \in BOOLEAN, MarkTerminal(ok) PROVE MarkerStands'
    BY <2>18, MarkerWritten DEF MarkTerminal, ExecEnds
  <2> QED BY <1>3, <2>1, <2>2, <2>3, <2>4, <2>5, <2>6, <2>7, <2>8, <2>9, <2>10, <2>11, <2>12,
     <2>13, <2>14, <2>15, <2>16, <2>17, <2>18 DEF ExecStep
<1>4. CASE Up /\ (HidEvent \/ Environment)
  BY <1>4, OutsideFrame
<1>5. CASE Reset
  BY <1>5 DEF Reset, NoTask, NoRequest
<1>6. CASE BootStep \/ BootCut
  <2>1. CASE BootRead
    BY <2>1 DEF BootRead
  <2>2. ASSUME NEW ok \in BOOLEAN, BootClear(ok) PROVE MarkerStands'
    BY <2>2, MarkerWritten DEF BootClear, BootAgain
  <2>3. CASE BootService
    BY <2>3 DEF BootService
  <2>4. CASE BootCut
    BY <2>4 DEF BootCut, BootAgain
  <2> QED BY <1>6, <2>1, <2>2, <2>3, <2>4 DEF BootStep
<1>7. CASE UNCHANGED vars
  BY <1>7 DEF vars
<1> QED BY <1>1, <1>2, <1>3, <1>4, <1>5, <1>6, <1>7 DEF Next

\* The counter follows the keys, and only a run without an error completes the job.
LEMMA ReportStep ==
  ASSUME TypeOK, BootIsQuiet, OwnerKnown, CountsAgree, ResultKnown, ReportIsTrue,
         [Next]_vars
  PROVE  ReportIsTrue'
<1> USE DEF Request, Task, BootIsQuiet, OwnerKnown, CountsAgree, ResultKnown,
      ReportIsTrue, Status, Locked, Active, StartPending, Typing, Armed, BeforeMark,
      AfterRun, NoTask, NoRequest, jobVars, flagVars, hidVars, powerVars, stopVars
<1> exec \in Task /\ http \in Request /\ status \in Status /\ typed \in 0 .. Records /\ completed \in 0 .. Records
  BY DEF TypeOK
<1>1. CASE Up /\ HttpRequest
  BY <1>1 DEF HttpRequest, StartRequest, StopRequest, HttpGoto, CancelJob, CreateJob,
     FinalizeJob
<1>2. CASE Up /\ HttpStep
  <2>1. CASE PrepareStart
    BY <2>1 DEF PrepareStart, HttpGoto
  <2>2. CASE StartFailed
    BY <2>2 DEF StartFailed, HttpGoto
  <2>3. CASE SetStopFlag
    BY <2>3 DEF SetStopFlag, HttpGoto
  <2>4. ASSUME NEW ok \in BOOLEAN, MarkActive(ok) PROVE ReportIsTrue'
    BY <2>4 DEF MarkActive, HttpGoto
  <2>5. ASSUME NEW ok \in BOOLEAN, CreateTask(ok) PROVE ReportIsTrue'
    BY <2>5 DEF CreateTask, HttpGoto, NoTask
  <2>6. ASSUME NEW ok \in BOOLEAN, Respond(ok) PROVE ReportIsTrue'
    BY <2>6 DEF Respond, HttpGoto, NoTask
  <2>7. ASSUME NEW ok \in BOOLEAN, ClearMarker(ok) PROVE ReportIsTrue'
    BY <2>7 DEF ClearMarker, HttpGoto
  <2> QED BY <1>2, <2>1, <2>2, <2>3, <2>4, <2>5, <2>6, <2>7 DEF HttpStep
<1>3. CASE Up /\ ExecStep
  <2>1. CASE RunCheck
    BY <2>1 DEF RunCheck, ExecGoto, ExecEnds
  <2>2. CASE ArmRunning
    BY <2>2 DEF ArmRunning, ExecGoto
  <2>3. CASE ArmStop
    BY <2>3 DEF ArmStop, ExecGoto
  <2>4. CASE Countdown
    BY <2>4 DEF Countdown, ExecGoto, ExecEnds
  <2>5. CASE MarkExecuting
    BY <2>5 DEF MarkExecuting, ExecGoto
  <2>6. CASE Hold
    BY <2>6 DEF Hold, ExecGoto, ExecEnds
  <2>7. CASE Progress
    BY <2>7 DEF Progress, ExecGoto
  <2>8. CASE NextRecord
    BY <2>8 DEF NextRecord, ExecGoto, ExecEnds
  <2>9. CASE Disarm
    BY <2>9 DEF Disarm, ExecGoto
  <2>10. CASE Complete
    BY <2>10 DEF Complete, ExecGoto
  <2>11. CASE Leave
    BY <2>11 DEF Leave, NoTask
  <2>12. ASSUME NEW ok \in BOOLEAN, FirstRelease(ok) PROVE ReportIsTrue'
    BY <2>12 DEF FirstRelease, ExecGoto, ExecEnds
  <2>13. ASSUME NEW ok \in BOOLEAN, Abort(ok) PROVE ReportIsTrue'
    BY <2>13 DEF Abort, ExecGoto
  <2>14. ASSUME NEW ok \in BOOLEAN, RecordBegin(ok) PROVE ReportIsTrue'
    BY <2>14 DEF RecordBegin, ExecGoto, ExecEnds
  <2>15. ASSUME NEW ok \in BOOLEAN, Press(ok) PROVE ReportIsTrue'
    BY <2>15 DEF Press, ExecGoto, ExecEnds
  <2>16. ASSUME NEW ok \in BOOLEAN, RecordRelease(ok) PROVE ReportIsTrue'
    BY <2>16 DEF RecordRelease, ExecGoto, ExecEnds
  <2>17. ASSUME NEW ok \in BOOLEAN, EndRelease(ok) PROVE ReportIsTrue'
    BY <2>17 DEF EndRelease, ExecEnds
  <2>18. ASSUME NEW ok \in BOOLEAN, MarkTerminal(ok) PROVE ReportIsTrue'
    BY <2>18 DEF MarkTerminal, ExecEnds
  <2> QED BY <1>3, <2>1, <2>2, <2>3, <2>4, <2>5, <2>6, <2>7, <2>8, <2>9, <2>10, <2>11, <2>12,
     <2>13, <2>14, <2>15, <2>16, <2>17, <2>18 DEF ExecStep
<1>4. CASE Up /\ (HidEvent \/ Environment)
  BY <1>4, OutsideFrame
<1>5. CASE Reset
  BY <1>5 DEF Reset, NoTask, NoRequest
<1>6. CASE BootStep \/ BootCut
  BY <1>6 DEF BootStep, BootRead, BootClear, BootAgain, BootService, BootCut
<1>7. CASE UNCHANGED vars
  BY <1>7 DEF vars
<1> QED BY <1>1, <1>2, <1>3, <1>4, <1>5, <1>6, <1>7 DEF Next

-----------------------------------------------------------------------------
(* The theorems *)

\* The invariant holds in every state, whatever the bounds.
THEOREM InvariantHolds == Spec => []IInv
<1>1. Init => IInv
  <2> SUFFICES ASSUME Init PROVE IInv
    OBVIOUS
  <2> USE DEF Init, NoTask, NoRequest
  <2>1. TypeOK
    <3>1. RecordsTyped
      BY RecordsAssumption DEF RecordsTyped, Request, Task
    <3>2. WordsTyped /\ FlagsTyped
      BY DEF WordsTyped, FlagsTyped, Status, Hid!Init, Hid!TypeOK
    <3>3. CountersTyped
      BY RecordsAssumption, BoundsAssumption DEF CountersTyped
    <3>4. QED BY <3>1, <3>2, <3>3, TypeParts
  <2>2. BootIsQuiet BY DEF BootIsQuiet
  <2>3. OwnerKnown
    BY DEF OwnerKnown, StartPending, BeforeMark, Typing, AfterRun, Active
  <2>4. ResultKnown /\ CountsAgree
    BY DEF ResultKnown, CountsAgree, AfterRun, Typing, BeforeMark, StartPending
  <2>5. KeysUp /\ OverrunKnown BY DEF KeysUp, OverrunKnown, AfterRun
  <2>6. MarkerStands BY DEF MarkerStands, BeforeMark, Typing
  <2>7. FlagSilences /\ ReportIsTrue BY DEF FlagSilences, ReportIsTrue, Typing
  <2>8. QED BY <2>1, <2>2, <2>3, <2>4, <2>5, <2>6, <2>7 DEF IInv
<1>2. IInv /\ [Next]_vars => IInv'
  <2> SUFFICES ASSUME IInv, [Next]_vars PROVE IInv'
    OBVIOUS
  <2> USE DEF IInv
  <2>1. TypeOK'
    BY RecordTypes, WordTypes, CounterTypes, FlagTypes
    DEF TypeOK, RecordsTyped, WordsTyped, CountersTyped, FlagsTyped
  <2>2. QED
    BY <2>1, BootQuietStep, OwnerStep, ResultStep, CountStep, KeysStep, OverrunStep,
       MarkerStep, ReportStep
<1>3. QED BY <1>1, <1>2, PTL DEF Spec

\* The variables keep their types: the record index never leaves the schedule.
THEOREM TypeCorrect == Spec => []TypeOK
BY InvariantHolds, PTL DEF IInv

\* A job in an active state has exactly one thread that ends it, on every path through
\* start_handler, and a job in no active state has none.
THEOREM ActiveIffOwnedHolds == Spec => []ActiveIffOwned
<1>1. IInv => ActiveIffOwned
  <2> SUFFICES ASSUME IInv PROVE ActiveIffOwned
    OBVIOUS
  <2> exec \in Task BY DEF IInv, TypeOK
  <2> USE DEF IInv, OwnerKnown, Task, Armed, Typing, BeforeMark, AfterRun, StartPending, Active
  <2>1. ASSUME exec.pc \notin {"none", "notify", "handle"} PROVE status \in Active
    BY <2>1
  <2>2. QED BY <2>1 DEF ActiveIffOwned
<1>2. QED BY <1>1, InvariantHolds, PTL

\* Once the stop flag of an armed run is up, at most the key-down under way goes out:
\* the executor tests the flag between any two of them.
THEOREM FlagSilencesHolds == Spec => []FlagSilences
BY InvariantHolds, PTL DEF IInv

\* The counter the phone polls is never ahead of the keys, and a job reported complete
\* has typed every record of its schedule.
THEOREM ReportIsTrueHolds == Spec => []ReportIsTrue
BY InvariantHolds, PTL DEF IInv

\* The boot that first comes to its end after a reset has cut a run short reports it.
THEOREM InterruptionReportedHolds == Spec => InterruptionReported
<1>1. IInv /\ [Next]_vars =>
        (boot = "service" /\ boot' = "up" /\ cut = "cut" => status' = "INTERRUPTED_RESET")
  <2> SUFFICES ASSUME IInv, [Next]_vars, boot = "service", boot' = "up", cut = "cut"
               PROVE  status' = "INTERRUPTED_RESET"
    OBVIOUS
  <2>1. interrupted BY DEF IInv, MarkerStands
  <2>2. boot' # boot /\ ~Up BY DEF Up
  <2>3. CASE Reset BY <2>3 DEF Reset
  <2>4. CASE BootStep
    BY <2>1, <2>4 DEF BootStep, BootRead, BootClear, BootAgain, BootService
  <2>5. CASE BootCut BY <2>5 DEF BootCut, BootAgain
  <2>6. CASE UNCHANGED vars BY <2>2, <2>6 DEF vars, powerVars
  <2>7. QED BY <2>2, <2>3, <2>4, <2>5, <2>6 DEF Next
<1>2. QED BY <1>1, InvariantHolds, PTL DEF Spec, InterruptionReported

-----------------------------------------------------------------------------
(* The life of a job *)

\* Every step of the code is a step of the job's life or leaves status and keyboard as
\* they were.
THEOREM LifecycleImplemented == Spec => ImplementsLifecycle
<1>1. Init => Lifecycle!Init
  BY DEF Init, Lifecycle!Init
<1>2. IInv /\ [Next]_vars => [Lifecycle!Next]_<<status, held>>
  <2> SUFFICES ASSUME IInv, [Next]_vars PROVE [Lifecycle!Next]_<<status, held>>
    OBVIOUS
  <2> RecordsTyped /\ status \in Status /\ held \in BOOLEAN
    BY DEF IInv, TypeOK, RecordsTyped
  <2> USE DEF Lifecycle!Next, Lifecycle!Move
  <2>1. CASE Up /\ HttpRequest
    <3> USE DEF jobVars
    <3>1. CASE StartRequest BY <3>1 DEF StartRequest
    <3>2. CASE StopRequest BY <3>2 DEF StopRequest, Lifecycle!Stop
    <3>3. CASE CancelJob BY <3>3 DEF CancelJob, Lifecycle!Cancel
    <3>4. ASSUME NEW ok \in BOOLEAN, CreateJob(ok) PROVE [Lifecycle!Next]_<<status, held>>
      BY <3>4 DEF CreateJob, Status, Locked, Lifecycle!Create
    <3>5. ASSUME NEW ok \in BOOLEAN, FinalizeJob(ok) PROVE [Lifecycle!Next]_<<status, held>>
      BY <3>5 DEF FinalizeJob, Lifecycle!Finalize
    <3>6. QED BY <2>1, <3>1, <3>2, <3>3, <3>4, <3>5 DEF HttpRequest
  <2>2. CASE Up /\ HttpStep
    BY <2>2 DEF HttpStep, PrepareStart, StartFailed, SetStopFlag, MarkActive, CreateTask,
       Respond, ClearMarker, jobVars, Lifecycle!Start, Lifecycle!StartFailed
  <2>3. CASE Up /\ ExecStep
    <3>1. CASE MarkExecuting
      BY <3>1 DEF MarkExecuting, Lifecycle!Execute
    <3>2. CASE Complete
      <4> exec.pc = "complete" /\ UNCHANGED held BY <3>2 DEF Complete
      <4>1. status \in Active BY DEF IInv, OwnerKnown, AfterRun
      <4>2. CASE exec.error = "OK"
        <5>1. status \in {"EXECUTING", "STOPPING"} /\ ~held
          BY <4>2 DEF IInv, ResultKnown, KeysUp, AfterRun
        <5>2. QED BY <3>2, <4>2, <5>1 DEF Complete, Lifecycle!End
      <4>3. CASE exec.error = "STOPPED"
        <5>1. ~held BY <4>3 DEF IInv, KeysUp, AfterRun
        <5>2. QED BY <3>2, <4>1, <4>3, <5>1 DEF Complete, Active, Lifecycle!End
      <4>4. CASE exec.error = "FAILED"
        BY <3>2, <4>1, <4>4 DEF Complete, Active, Lifecycle!Fail
      <4>5. QED BY <4>2, <4>3, <4>4 DEF RecordsTyped, Task
    <3>3. ASSUME NEW ok \in BOOLEAN, Press(ok)
          PROVE  [Lifecycle!Next]_<<status, held>>
      <4>1. status \in {"EXECUTING", "STOPPING"}
        BY <3>3 DEF Press, IInv, OwnerKnown, Typing
      <4>2. QED BY <3>3, <4>1 DEF Press, jobVars, Lifecycle!KeyDown
    <3>4. ASSUME NEW ok \in BOOLEAN,
                 FirstRelease(ok) \/ Abort(ok) \/ RecordRelease(ok) \/ EndRelease(ok)
          PROVE  [Lifecycle!Next]_<<status, held>>
      <4>1. UNCHANGED status /\ ReleaseAll(ok)
        BY <3>4 DEF FirstRelease, Abort, RecordRelease, EndRelease, jobVars
      <4>2. held' = held \/ held' = FALSE BY <4>1 DEF ReleaseAll
      <4>3. QED BY <4>1, <4>2 DEF Lifecycle!KeyUp
    <3>5. CASE \/ RunCheck \/ ArmRunning \/ ArmStop \/ Countdown \/ Hold \/ Progress
               \/ NextRecord \/ Disarm \/ Leave
      BY <3>5 DEF RunCheck, ArmRunning, ArmStop, Countdown, Hold, Progress, NextRecord,
         Disarm, Leave, jobVars
    <3>6. ASSUME NEW ok \in BOOLEAN, RecordBegin(ok) \/ MarkTerminal(ok)
          PROVE  [Lifecycle!Next]_<<status, held>>
      BY <3>6 DEF RecordBegin, MarkTerminal, jobVars
    <3>7. QED BY <2>3, <3>1, <3>2, <3>3, <3>4, <3>5, <3>6 DEF ExecStep
  <2>4. CASE Up /\ (HidEvent \/ Environment)
    <3>1. UNCHANGED status /\ (held' = held \/ held' = FALSE)
      BY <2>4, OutsideFrame DEF IInv, jobVars
    <3>2. QED BY <3>1 DEF Lifecycle!KeyUp
  <2>5. CASE Reset
    BY <2>5 DEF Reset, Lifecycle!Reset
  <2>6. CASE BootStep \/ BootCut
    <3>1. status = "IDLE"
      BY <2>6 DEF BootStep, BootCut, BootRead, BootClear, BootService, IInv, BootIsQuiet
    <3>2. QED
      BY <2>6, <3>1 DEF BootStep, BootRead, BootClear, BootService, BootCut, jobVars,
         Lifecycle!BootReports
  <2>7. CASE UNCHANGED vars
    BY <2>7 DEF vars, jobVars
  <2>8. QED BY <2>1, <2>2, <2>3, <2>4, <2>5, <2>6, <2>7 DEF Next
<1>3. QED
  BY <1>1, <1>2, InvariantHolds, PTL DEF Spec, ImplementsLifecycle, Lifecycle!Spec

=============================================================================
