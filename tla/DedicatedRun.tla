---------------------------- MODULE DedicatedRun ----------------------------
(***************************************************************************)
(* One dedicated job from START to its terminal state, and across a reset.   *)
(*                                                                           *)
(*   http   the HTTP server task: create, finalize, start, stop and cancel   *)
(*          handlers, one request at a time (typx_wifi_service.c);            *)
(*   exec   the execution task: execution_task, the observed countdown run    *)
(*          (typx_ble_hid.c) and typx_executor_run;                           *)
(*   hid    hid_callback for CONNECT and DISCONNECT, and the safety release,  *)
(*          the latter as HidReadiness promises it;                           *)
(*   the UART console, whose stop command needs no mutex;                    *)
(*   power  a reset at any moment and the boot that follows.                  *)
(*                                                                           *)
(* s_upload changes under s_mutex; the flags of s_runtime change under none,  *)
(* so each write of them is a step.                                          *)
(***************************************************************************)
EXTENDS Naturals

CONSTANTS
  Records,     \* action_count of the schedule; finalize refuses an empty one
  MaxJobs,     \* bound: jobs created
  MaxLinks,    \* bound: CONNECT events since boot
  MaxResets,   \* bound: resets and power cuts, those of a boot not counted
  NvsFails     \* TRUE: an NVS write may fail

ASSUME RecordsAssumption == Records \in Nat \ {0}
ASSUME BoundsAssumption == MaxJobs \in Nat /\ MaxLinks \in Nat /\ MaxResets \in Nat
ASSUME FaultsAssumption == NvsFails \in BOOLEAN

VARIABLES
  status,         \* s_upload.status
  completed,      \* s_upload.completed_records
  http,           \* the handler in progress and the readiness it has seen
  exec,           \* the execution task: place, result so far, record index
  connected,      \* s_runtime.connected
  running,        \* s_runtime.running
  stopRequested,  \* s_runtime.stop_requested
  readiness,      \* what a snapshot of s_execution_safety says
  hid,            \* where hid_callback stands
  marker,         \* the byte "active" in NVS: survives a reset
  boot,           \* progress of the boot
  interrupted,    \* s_execution_safety.interrupted_reset
  held,           \* a key of the latest keyboard report is down at the host
  jobs, links, resets,
  typed,          \* history: records pressed and released in this run
  answered,       \* history: a STOP was answered while this run was alive
  ignored,        \* history: key-downs sent since then, up to 2
  overrun,        \* history: key-downs sent with stop_requested up, up to 2
  cut             \* history: a reset cut a run short and is to be reported, or
                  \* cannot be: a second one came after the marker was cleared

jobVars == <<status, completed>>
flagVars == <<connected, running, stopRequested>>
hidVars == <<readiness, hid, links>>
powerVars == <<boot, interrupted, resets, cut>>
stopVars == <<answered, ignored, overrun>>
vars == <<jobVars, http, exec, flagVars, hidVars, marker, powerVars, held, jobs,
          typed, stopVars>>

Hid == INSTANCE HidReadiness

Status == {"IDLE", "RECEIVING", "READY", "COUNTDOWN", "EXECUTING", "STOPPING",
           "STOPPED", "COMPLETED", "ERROR", "INTERRUPTED_RESET"}
Locked == {"READY", "COUNTDOWN", "EXECUTING", "STOPPING"}
Active == {"COUNTDOWN", "EXECUTING", "STOPPING"}

\* The part of the execution task in which keys may go down.
Typing == {"record", "press", "hold", "release", "progress", "next", "finish",
           "lastRelease"}
Armed == {"firstRelease", "countdown", "abort", "mark", "disarm"} \union Typing

\* A request of the HTTP server, and the execution task.
Request == [pc : {"idle", "prepare", "markActive", "create", "respond", "clear",
                  "startFailed", "setFlag"},
            seen : {"DISCONNECTED", "PENDING", "FAILED", "READY"}]
Task == [pc : {"none", "notify", "check", "armRunning", "armStop", "terminal",
               "complete", "handle"} \union Armed,
         error : {"OK", "STOPPED", "FAILED"},
         index : 1 .. Records]

TypeOK ==
  /\ status \in Status
  /\ completed \in 0 .. Records
  /\ http \in Request
  /\ exec \in Task
  /\ connected \in BOOLEAN /\ running \in BOOLEAN /\ stopRequested \in BOOLEAN
  /\ Hid!TypeOK
  /\ hid \in {"idle", "connect", "stop", "connected", "stopAgain", "running"}
  /\ marker \in BOOLEAN
  /\ boot \in {"read", "clear", "service", "up"}
  /\ interrupted \in BOOLEAN /\ held \in BOOLEAN
  /\ jobs \in 0 .. MaxJobs /\ links \in 0 .. MaxLinks /\ resets \in 0 .. MaxResets
  /\ typed \in 0 .. Records
  /\ answered \in BOOLEAN /\ ignored \in 0 .. 2 /\ overrun \in 0 .. 2
  /\ cut \in {"no", "cut", "lost"}

NoTask == [pc |-> "none", error |-> "OK", index |-> 1]
NoRequest == [pc |-> "idle", seen |-> "DISCONNECTED"]

Init ==
  /\ status = "IDLE" /\ completed = 0
  /\ http = NoRequest /\ exec = NoTask
  /\ connected = FALSE /\ running = FALSE /\ stopRequested = FALSE
  /\ Hid!Init /\ hid = "idle"
  /\ boot = "read" /\ interrupted = FALSE
  /\ typed = 0 /\ answered = FALSE /\ ignored = 0 /\ overrun = 0
  /\ marker = FALSE /\ held = FALSE /\ cut = "no"
  /\ jobs = 0 /\ links = 0 /\ resets = 0

\* A write of the marker; one that fails may have reached the flash.
WriteMarker(active, ok) ==
  /\ ok \/ NvsFails
  /\ marker' \in IF ok THEN {active} ELSE {marker, active}

\* An all-zero keyboard report and, when it is accepted, a consumer report; each
\* is tried three times and may be refused whatever the link.
ReleaseAll(ok) ==
  /\ ok => connected
  /\ held' \in IF ok THEN {FALSE} ELSE IF connected THEN {held, FALSE} ELSE {held}

-----------------------------------------------------------------------------
(* The HTTP server task.  The jobs themselves are modelled in UploadJob. *)

HttpGoto(pc) == http' = [http EXCEPT !.pc = pc]

\* POST /v1/jobs.  The staging area may refuse to be erased.
CreateJob(ok) ==
  /\ http.pc = "idle"
  /\ status \notin Locked
  /\ jobs < MaxJobs
  /\ jobs' = jobs + 1
  /\ status' = IF ok THEN "RECEIVING" ELSE "ERROR"
  /\ completed' = 0
  /\ UNCHANGED <<http, exec, flagVars, hidVars, marker, powerVars, held, typed, stopVars>>

\* POST /v1/jobs/finalize, after the chunks.  Creating, uploading and finalizing
\* a job takes seconds; the execution task of the job before it leaves within
\* microseconds of its terminal status, and the model takes that for granted.
FinalizeJob(ok) ==
  /\ http.pc = "idle"
  /\ status = "RECEIVING"
  /\ exec.pc = "none"
  /\ status' = IF ok THEN "READY" ELSE "ERROR"
  /\ completed' = IF ok THEN 0 ELSE completed
  /\ UNCHANGED <<http, exec, flagVars, hidVars, marker, powerVars, held, jobs,
                 typed, stopVars>>

\* START takes its snapshot of the safety release before it takes the mutex.
StartRequest ==
  /\ http.pc = "idle"
  /\ http' = [pc |-> "prepare", seen |-> readiness]
  /\ UNCHANGED <<jobVars, exec, flagVars, hidVars, marker, powerVars, held, jobs,
                 typed, stopVars>>

PrepareStart ==
  /\ http.pc = "prepare"
  /\ IF status = "READY" /\ http.seen = "READY"
     THEN /\ status' = "COUNTDOWN"
          /\ answered' = FALSE /\ ignored' = 0
          /\ HttpGoto("markActive")
     ELSE /\ HttpGoto("idle")
          /\ UNCHANGED <<status, answered, ignored>>
  /\ UNCHANGED <<completed, exec, flagVars, hidVars, marker, powerVars, held, jobs,
                 typed, overrun>>

\* Mutant: the result of the write is not looked at.
MarkActiveUnchecked(ok) ==
  /\ http.pc = "markActive"
  /\ WriteMarker(TRUE, ok)
  /\ HttpGoto("create")
  /\ UNCHANGED <<jobVars, exec, flagVars, hidVars, powerVars, held, jobs, typed,
                 stopVars>>

MarkActive(ok) ==
  /\ http.pc = "markActive"
  /\ WriteMarker(TRUE, ok)
  /\ HttpGoto(IF ok THEN "create" ELSE "startFailed")
  /\ UNCHANGED <<jobVars, exec, flagVars, hidVars, powerVars, held, jobs, typed,
                 stopVars>>

CreateTask(ok) ==
  /\ http.pc = "create"
  /\ exec' = IF ok THEN [NoTask EXCEPT !.pc = "notify"] ELSE exec
  /\ HttpGoto(IF ok THEN "respond" ELSE "clear")
  /\ UNCHANGED <<jobVars, flagVars, hidVars, marker, powerVars, held, jobs, typed,
                 stopVars>>

\* Mutant: the job is not rolled back when the 202 cannot be sent.
RespondNoRollback(ok) ==
  /\ http.pc = "respond"
  /\ exec' = IF ok THEN [exec EXCEPT !.pc = "check"] ELSE NoTask
  /\ HttpGoto("idle")
  /\ UNCHANGED <<jobVars, flagVars, hidVars, marker, powerVars, held, jobs, typed,
                 stopVars>>

\* Mutant: the task is not notified.
RespondNoNotify(ok) ==
  /\ http.pc = "respond"
  /\ exec' = IF ok THEN exec ELSE NoTask
  /\ HttpGoto(IF ok THEN "idle" ELSE "clear")
  /\ UNCHANGED <<jobVars, flagVars, hidVars, marker, powerVars, held, jobs, typed,
                 stopVars>>

\* The 202 goes out before the task is notified; if it cannot, the task goes.
Respond(ok) ==
  /\ http.pc = "respond"
  /\ exec' = IF ok THEN [exec EXCEPT !.pc = "check"] ELSE NoTask
  /\ HttpGoto(IF ok THEN "idle" ELSE "clear")
  /\ UNCHANGED <<jobVars, flagVars, hidVars, marker, powerVars, held, jobs, typed,
                 stopVars>>

ClearMarker(ok) ==
  /\ http.pc = "clear"
  /\ WriteMarker(FALSE, ok)
  /\ HttpGoto("startFailed")
  /\ UNCHANGED <<jobVars, exec, flagVars, hidVars, powerVars, held, jobs, typed,
                 stopVars>>

StartFailed ==
  /\ http.pc = "startFailed"
  /\ status' = IF status = "COUNTDOWN" THEN "READY" ELSE status
  /\ HttpGoto("idle")
  /\ UNCHANGED <<completed, exec, flagVars, hidVars, marker, powerVars, held, jobs,
                 typed, stopVars>>

\* STOP moves the job under the mutex and raises the flag after releasing it.
StopRequest ==
  /\ http.pc = "idle"
  /\ status \in {"COUNTDOWN", "EXECUTING", "STOPPING", "STOPPED"}
  /\ status' = IF status = "STOPPED" THEN status ELSE "STOPPING"
  /\ HttpGoto("setFlag")
  /\ UNCHANGED <<completed, exec, flagVars, hidVars, marker, powerVars, held, jobs,
                 typed, stopVars>>

SetStopFlag ==
  /\ http.pc = "setFlag"
  /\ stopRequested' = TRUE
  /\ answered' = (answered \/ status = "STOPPING")
  /\ HttpGoto("idle")
  /\ UNCHANGED <<jobVars, exec, connected, running, hidVars, marker, powerVars,
                 held, jobs, typed, ignored, overrun>>

CancelJob ==
  /\ http.pc = "idle"
  /\ status = "READY"
  /\ status' = "IDLE"
  /\ completed' = 0
  /\ UNCHANGED <<http, exec, flagVars, hidVars, marker, powerVars, held, jobs, typed,
                 stopVars>>

HttpStep ==
  \/ PrepareStart
  \/ StartFailed
  \/ SetStopFlag
  \/ \E ok \in BOOLEAN : MarkActive(ok) \/ CreateTask(ok) \/ Respond(ok) \/ ClearMarker(ok)

HttpRequest ==
  \/ StartRequest
  \/ StopRequest
  \/ CancelJob
  \/ \E ok \in BOOLEAN : CreateJob(ok) \/ FinalizeJob(ok)

-----------------------------------------------------------------------------
(* hid_callback, the safety release and the console *)

LinkUp ==
  /\ hid = "idle" /\ ~connected /\ readiness = "DISCONNECTED"
  /\ links < MaxLinks
  /\ links' = links + 1
  /\ connected' = TRUE
  /\ hid' = "connect"
  /\ UNCHANGED <<jobVars, http, exec, running, stopRequested, readiness, marker,
                 powerVars, held, jobs, typed, stopVars>>

LinkUpSafety ==
  /\ hid = "connect"
  /\ Hid!HostConnects
  /\ hid' = "idle"
  /\ UNCHANGED <<jobVars, http, exec, flagVars, links, marker, powerVars, held, jobs,
                 typed, stopVars>>

\* A host that loses the keyboard may release its keys or keep them down.
LinkDown ==
  /\ hid = "idle"
  /\ connected
  /\ Hid!HostDisconnects
  /\ held' \in {held, FALSE}
  /\ hid' = "stop"
  /\ UNCHANGED <<jobVars, http, exec, flagVars, links, marker, powerVars, jobs, typed,
                 stopVars>>

\* request_stop and set_connected(false), assignment by assignment.
LinkDownFlags ==
  /\ \/ /\ hid = "stop" /\ hid' = "connected"
        /\ stopRequested' = TRUE
        /\ UNCHANGED <<connected, running>>
     \/ /\ hid = "connected" /\ hid' = "stopAgain"
        /\ connected' = FALSE
        /\ UNCHANGED <<running, stopRequested>>
     \/ /\ hid = "stopAgain" /\ hid' = "running"
        /\ stopRequested' = TRUE
        /\ UNCHANGED <<connected, running>>
     \/ /\ hid = "running" /\ hid' = "idle"
        /\ running' = FALSE
        /\ UNCHANGED <<connected, stopRequested>>
  /\ UNCHANGED <<jobVars, http, exec, readiness, links, marker, powerVars, held, jobs,
                 typed, stopVars>>

\* The release task's reports, and what becomes of them.
SafetyRelease ==
  /\ readiness = "PENDING" /\ connected
  /\ held
  /\ held' = FALSE
  /\ UNCHANGED <<jobVars, http, exec, flagVars, hidVars, marker, powerVars, jobs,
                 typed, stopVars>>

SafetyOutcome ==
  /\ Hid!ReleaseConfirmed \/ Hid!ReleaseFailed \/ Hid!ReleaseReopened
  /\ UNCHANGED <<jobVars, http, exec, flagVars, hid, links, marker, powerVars, held,
                 jobs, typed, stopVars>>

\* The UART command stop: the flag, then a release at once.  A key that goes down
\* between the two is one that goes down before a second ConsoleRelease.
ConsoleStop(ok) ==
  /\ stopRequested' = TRUE
  /\ ReleaseAll(ok)
  /\ UNCHANGED <<jobVars, http, exec, connected, running, hidVars, marker, powerVars,
                 jobs, typed, stopVars>>

\* The UART command release, where it has an effect.
ConsoleRelease ==
  /\ connected /\ held
  /\ held' = FALSE
  /\ UNCHANGED <<jobVars, http, exec, flagVars, hidVars, marker, powerVars, jobs,
                 typed, stopVars>>

HidEvent == LinkUpSafety \/ LinkDownFlags

Environment ==
  \/ LinkUp \/ LinkDown
  \/ SafetyRelease \/ SafetyOutcome
  \/ ConsoleRelease
  \/ \E ok \in BOOLEAN : ConsoleStop(ok)
-----------------------------------------------------------------------------
(* The execution task *)

ExecGoto(pc) == exec' = [exec EXCEPT !.pc = pc]
ExecEnds(pc, error) == exec' = [exec EXCEPT !.pc = pc, !.error = error]

\* Mutant: only a lost host stops the run.
StopSeenOnLossOnly == ~connected

\* executor_stop_requested and the test of scheduler_wait_ticks.
StopSeen == stopRequested \/ ~connected

\* The run is refused without a host or while another run holds the flag.
RunCheck ==
  /\ exec.pc = "check"
  /\ IF connected /\ ~running THEN ExecGoto("armRunning")
                              ELSE ExecEnds("terminal", "FAILED")
  /\ UNCHANGED <<jobVars, http, flagVars, hidVars, marker, powerVars, held, jobs,
                 typed, stopVars>>

ArmRunning ==
  /\ exec.pc = "armRunning"
  /\ running' = TRUE
  /\ ExecGoto("armStop")
  /\ UNCHANGED <<jobVars, http, connected, stopRequested, hidVars, marker, powerVars,
                 held, jobs, typed, stopVars>>

\* A stop requested since START is forgotten here.
ArmStop ==
  /\ exec.pc = "armStop"
  /\ stopRequested' = FALSE
  /\ typed' = 0 /\ overrun' = 0
  /\ ExecGoto("firstRelease")
  /\ UNCHANGED <<jobVars, http, connected, running, hidVars, marker, powerVars, held,
                 jobs, answered, ignored>>

FirstRelease(ok) ==
  /\ exec.pc = "firstRelease"
  /\ ReleaseAll(ok)
  /\ IF ok THEN ExecGoto("countdown") /\ UNCHANGED running
           ELSE ExecEnds("terminal", "FAILED") /\ running' = FALSE
  /\ UNCHANGED <<jobVars, http, connected, stopRequested, hidVars, marker, powerVars,
                 jobs, typed, stopVars>>

\* Eight waits of a second, cut short by a stop or a lost link.
Countdown ==
  /\ exec.pc = "countdown"
  /\ IF ~StopSeen THEN ExecGoto("mark")
     ELSE ExecEnds("abort", IF stopRequested THEN "STOPPED" ELSE "FAILED")
  /\ UNCHANGED <<jobVars, http, flagVars, hidVars, marker, powerVars, held, jobs,
                 typed, stopVars>>

\* The release after a broken countdown is not looked at.
Abort(ok) ==
  /\ exec.pc = "abort"
  /\ ReleaseAll(ok)
  /\ ExecGoto("disarm")
  /\ UNCHANGED <<jobVars, http, flagVars, hidVars, marker, powerVars, jobs, typed,
                 stopVars>>

MarkExecuting ==
  /\ exec.pc = "mark"
  /\ status' = IF status = "COUNTDOWN" THEN "EXECUTING" ELSE status
  /\ ExecGoto("record")
  /\ UNCHANGED <<completed, http, flagVars, hidVars, marker, powerVars, held, jobs,
                 typed, stopVars>>

\* Everything before the key goes down: the staged record may be unreadable, and
\* the stop flag is tested last of all.
RecordBegin(readable) ==
  /\ exec.pc = "record"
  /\ IF StopSeen THEN ExecEnds("finish", "STOPPED")
     ELSE IF ~readable THEN ExecEnds("finish", "FAILED")
     ELSE ExecGoto("press")
  /\ UNCHANGED <<jobVars, http, flagVars, hidVars, marker, powerVars, held, jobs,
                 typed, stopVars>>

UpTo2(n) == IF n = 2 THEN 2 ELSE n + 1

Press(sent) ==
  /\ exec.pc = "press"
  /\ sent => connected
  /\ IF sent
     THEN /\ held' = TRUE
          /\ ExecGoto("hold")
          /\ overrun' = IF stopRequested THEN UpTo2(overrun) ELSE overrun
          /\ ignored' = IF answered THEN UpTo2(ignored) ELSE ignored
     ELSE /\ ExecEnds("finish", "FAILED")
          /\ UNCHANGED <<held, overrun, ignored>>
  /\ UNCHANGED <<jobVars, http, flagVars, hidVars, marker, powerVars, jobs, typed,
                 answered>>

\* The hold is 8 ms in every verified record, so the flag is always tested.
Hold ==
  /\ exec.pc = "hold"
  /\ IF StopSeen THEN ExecEnds("finish", "STOPPED") ELSE ExecGoto("release")
  /\ UNCHANGED <<jobVars, http, flagVars, hidVars, marker, powerVars, held, jobs,
                 typed, stopVars>>

\* A release that fails is tried once more and ends the run.
RecordRelease(ok) ==
  /\ exec.pc = "release"
  /\ ReleaseAll(ok)
  /\ IF ok THEN ExecGoto("progress") /\ typed' = typed + 1
           ELSE ExecEnds("lastRelease", "FAILED") /\ UNCHANGED typed
  /\ UNCHANGED <<jobVars, http, flagVars, hidVars, marker, powerVars, jobs, stopVars>>

\* Written without the mutex; refused once the job is no longer EXECUTING.
Progress ==
  /\ exec.pc = "progress"
  /\ completed' = IF status = "EXECUTING" THEN exec.index ELSE completed
  /\ ExecGoto("next")
  /\ UNCHANGED <<status, http, flagVars, hidVars, marker, powerVars, held, jobs, typed,
                 stopVars>>

\* Mutant: one record too many.
NextRecordPastEnd ==
  /\ exec.pc = "next"
  /\ IF StopSeen THEN ExecEnds("finish", "STOPPED")
     ELSE IF exec.index > Records THEN ExecGoto("finish")
     ELSE exec' = [exec EXCEPT !.pc = "record", !.index = @ + 1]
  /\ UNCHANGED <<jobVars, http, flagVars, hidVars, marker, powerVars, held, jobs,
                 typed, stopVars>>

\* Mutant: one record too few.
NextRecordShort ==
  /\ exec.pc = "next"
  /\ IF StopSeen THEN ExecEnds("finish", "STOPPED")
     ELSE IF exec.index + 1 >= Records THEN ExecGoto("finish")
     ELSE exec' = [exec EXCEPT !.pc = "record", !.index = @ + 1]
  /\ UNCHANGED <<jobVars, http, flagVars, hidVars, marker, powerVars, held, jobs,
                 typed, stopVars>>

NextRecord ==
  /\ exec.pc = "next"
  /\ IF StopSeen THEN ExecEnds("finish", "STOPPED")
     ELSE IF exec.index = Records THEN ExecGoto("finish")
     ELSE exec' = [exec EXCEPT !.pc = "record", !.index = @ + 1]
  /\ UNCHANGED <<jobVars, http, flagVars, hidVars, marker, powerVars, held, jobs,
                 typed, stopVars>>

\* Mutant: a release that fails at the end is not reported.
EndReleaseIgnored(ok) ==
  /\ exec.pc \in {"finish", "lastRelease"}
  /\ ReleaseAll(ok)
  /\ ExecGoto(IF exec.pc = "finish" THEN "lastRelease" ELSE "disarm")
  /\ UNCHANGED <<jobVars, http, flagVars, hidVars, marker, powerVars, jobs, typed,
                 stopVars>>

\* The release in finish of the executor and the one after typx_executor_run.
EndRelease(ok) ==
  /\ exec.pc \in {"finish", "lastRelease"}
  /\ ReleaseAll(ok)
  /\ ExecEnds(IF exec.pc = "finish" THEN "lastRelease" ELSE "disarm",
              IF ok THEN exec.error ELSE "FAILED")
  /\ UNCHANGED <<jobVars, http, flagVars, hidVars, marker, powerVars, jobs, typed,
                 stopVars>>

Disarm ==
  /\ exec.pc = "disarm"
  /\ running' = FALSE /\ stopRequested' = FALSE
  /\ ExecGoto("terminal")
  /\ UNCHANGED <<jobVars, http, connected, hidVars, marker, powerVars, held, jobs,
                 typed, stopVars>>

MarkTerminal(ok) ==
  /\ exec.pc = "terminal"
  /\ WriteMarker(FALSE, ok)
  /\ ExecEnds("complete", IF ok THEN exec.error ELSE "FAILED")
  /\ UNCHANGED <<jobVars, http, flagVars, hidVars, powerVars, held, jobs, typed,
                 stopVars>>

Complete ==
  /\ exec.pc = "complete"
  /\ status' = CASE exec.error = "OK" -> "COMPLETED"
                 [] exec.error = "STOPPED" -> "STOPPED"
                 [] exec.error = "FAILED" -> "ERROR"
  /\ ExecGoto("handle")
  /\ UNCHANGED <<completed, http, flagVars, hidVars, marker, powerVars, held, jobs,
                 typed, stopVars>>

\* s_execution_task = NULL, and the task deletes itself.
Leave ==
  /\ exec.pc = "handle"
  /\ exec' = NoTask
  /\ answered' = FALSE
  /\ UNCHANGED <<jobVars, http, flagVars, hidVars, marker, powerVars, held, jobs,
                 typed, ignored, overrun>>

ExecStep ==
  \/ RunCheck \/ ArmRunning \/ ArmStop
  \/ Countdown \/ MarkExecuting
  \/ Hold \/ Progress \/ NextRecord
  \/ Disarm \/ Complete \/ Leave
  \/ \E ok \in BOOLEAN :
       \/ FirstRelease(ok) \/ Abort(ok) \/ RecordBegin(ok) \/ Press(ok)
       \/ RecordRelease(ok) \/ EndRelease(ok) \/ MarkTerminal(ok)

-----------------------------------------------------------------------------
(* Reset and boot *)

\* RAM starts over; the host may keep the last report's keys down.
Reset ==
  /\ resets < MaxResets
  /\ boot = "up"
  /\ resets' = resets + 1
  /\ status' = "IDLE" /\ completed' = 0
  /\ http' = NoRequest /\ exec' = NoTask
  /\ connected' = FALSE /\ running' = FALSE /\ stopRequested' = FALSE
  /\ readiness' = "DISCONNECTED" /\ hid' = "idle"
  /\ boot' = "read" /\ interrupted' = FALSE
  /\ typed' = 0 /\ answered' = FALSE /\ ignored' = 0 /\ overrun' = 0
  /\ held' \in {held, FALSE}
  /\ cut' = IF exec.pc \in Armed THEN "cut" ELSE "no"
  /\ links' = 0
  /\ UNCHANGED <<marker, jobs>>

\* typx_execution_safety_init.
BootRead ==
  /\ boot = "read"
  /\ interrupted' = marker
  /\ boot' = IF marker THEN "clear" ELSE "service"
  /\ UNCHANGED <<jobVars, http, exec, flagVars, hidVars, marker, resets, cut, held,
                 jobs, typed, stopVars>>

\* Boot starts over: what it has read of the marker is gone with RAM.
BootAgain ==
  /\ boot' = "read" /\ interrupted' = FALSE
  /\ cut' = IF cut = "cut" /\ interrupted /\ ~marker' THEN "lost" ELSE cut

\* A marker that cannot be cleared makes app_main abort.
BootClear(ok) ==
  /\ boot = "clear"
  /\ WriteMarker(FALSE, ok)
  /\ IF ok THEN boot' = "service" /\ UNCHANGED <<interrupted, cut>> ELSE BootAgain
  /\ UNCHANGED <<jobVars, http, exec, flagVars, hidVars, resets, held, jobs, typed,
                 stopVars>>

\* The power is cut before the boot is over.
BootCut ==
  /\ boot \in {"clear", "service"}
  /\ UNCHANGED <<jobVars, http, exec, flagVars, hidVars, marker, resets, held, jobs,
                 typed, stopVars>>
  /\ BootAgain

\* typx_wifi_service_init: from here on the job state can be asked for.
BootService ==
  /\ boot = "service"
  /\ boot' = "up"
  /\ status' = IF interrupted THEN "INTERRUPTED_RESET" ELSE "IDLE"
  /\ cut' = "no"
  /\ UNCHANGED <<completed, http, exec, flagVars, hidVars, marker, interrupted, resets,
                 held, jobs, typed, stopVars>>

BootStep == BootRead \/ (\E ok \in BOOLEAN : BootClear(ok)) \/ BootService

-----------------------------------------------------------------------------
Up == boot = "up"

Next ==
  \/ Up /\ HttpRequest
  \/ Up /\ HttpStep
  \/ Up /\ ExecStep
  \/ Up /\ HidEvent
  \/ Up /\ Environment
  \/ Reset
  \/ BootStep
  \/ BootCut

Spec == Init /\ [][Next]_vars

\* The tasks run: FreeRTOS schedules the execution task above the HTTP server,
\* every wait of either is bounded and the execution task sleeps between records.
TaskFairness ==
  /\ WF_vars(Up /\ HttpStep)
  /\ WF_vars(Up /\ ExecStep)
  /\ WF_vars(BootStep)

LiveSpec == Spec /\ TaskFairness
-----------------------------------------------------------------------------
(* Properties *)

\* What the phone sees is the life of a job, and keys go down in its running
\* states only, whatever handlers, tasks, links and resets do in between.
Lifecycle == INSTANCE JobLifecycle

ImplementsLifecycle == Lifecycle!Spec

StartPending == {"markActive", "create", "respond", "clear", "startFailed"}

\* A job in an active state has exactly one thread that will take it out of it,
\* on every path through start_handler; a job in no active state has none.
\* Otherwise the job stays locked until a reset, or two runs share the keyboard.
ActiveIffOwned ==
  status \in Active
    <=> \/ /\ http.pc \in StartPending
           /\ exec.pc \in {"none", "notify"}
        \/ exec.pc \notin {"none", "notify", "handle"}

\* Once the stop flag of an armed run is up, at most the key-down that is already
\* under way goes out.
FlagSilences == overrun <= 1

\* The counter the phone polls is never ahead of the keys, and a job reported
\* complete has typed every record.
ReportIsTrue ==
  /\ exec.pc \in Typing => completed <= typed
  /\ status = "COMPLETED" => typed = Records

\* A reset that cuts a run short while keys may be down is reported by the boot that
\* is the first to come to its end, through failing writes of the marker, an older
\* job's leftovers and boots cut short, unless one was after it had cleared the marker.
InterruptionReported ==
  [][boot = "service" /\ boot' = "up" /\ cut = "cut" => status' = "INTERRUPTED_RESET"]_vars

\* A job that has started reaches a terminal state, or READY if START failed:
\* nothing waits for a host, a phone or a flag that may never come.
RunEnds == status \in Active ~> status \notin Active

-----------------------------------------------------------------------------
(* What the documentation says and the code does not do. *)

\* "The executor observes the stop flag between bounded waits, sends no later
\* key-down" (ESP32_CAM_STATE_MACHINE.md): after a STOP was answered, at most the
\* key-down under way goes out.
StopSilences == ignored <= 1
=============================================================================
