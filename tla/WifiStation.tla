----------------------------- MODULE WifiStation -----------------------------
(***************************************************************************)
(* The Wi-Fi of the board (typx_wifi_service.c): station mode on the phone's   *)
(* hotspot, the recovery access point, and what brings the board back when     *)
(* the hotspot goes.  Four threads share the variables without a lock:         *)
(*                                                                           *)
(*   console   app_main at boot, and the UART commands;                        *)
(*   fallback  station_fallback_task, one at a time;                           *)
(*   restarter http_restart_task, one at a time;                               *)
(*   the event loop, which runs wifi_event_handler;                            *)
(*   the execution task, which takes the mDNS announcement down for its run.     *)
(*                                                                           *)
(* The Wi-Fi driver and its event queue are external, and so is the mDNS        *)
(* library, which announces the server (typx_discovery.c).  A job is seen as    *)
(* DedicatedRun's: not READY, READY, or running; "starting" and "ending" are the *)
(* execution task before and after the run.  start_mdns and stop_mdns are one    *)
(* step each.  The branches that depend on s_post_job_station_reconnect are left  *)
(* out: nothing sets it.                                                       *)
(***************************************************************************)
EXTENDS Naturals, Sequences, SequencesExt

CONSTANTS
  Retries,       \* STA_CONNECT_RETRIES
  MaxCommands,   \* bound: console commands
  MaxJobs,       \* bound: jobs
  MaxLosses,     \* bound: losses of an established connection
  MaxQueue       \* bound: events that wait while an attempt ends

ASSUME BoundsAssumption ==
  /\ Retries \in Nat \ {0}
  /\ {MaxCommands, MaxJobs, MaxLosses, MaxQueue} \subseteq Nat

Callers == {"console", "fallback"}   \* who runs start_mode

VARIABLES
  mode, started, pause, ip, attempts, configured,  \* the statics of the service
  http, mdns,       \* s_http is not NULL, s_mdns_started
  pc, target,       \* each caller's place, and the mode it is to start
  fallbackPending, retryNeeded,
  restarter, restartPending,
  radio, link, events,   \* the driver
  job,
  commands, jobs, losses,
  abandoned,        \* history: since the last address or radio start, a recovery
                    \* was given up, or what it needs was refused
  silent,           \* history: the server or its announcement could not be
                    \* started, or is not to be restarted
  lateJob,          \* history: the job started while the mode was being changed
  overlapped        \* history: the last two start_mode ran at the same time

modeVars == <<mode, started, pause, ip, attempts, configured>>
callerVars == <<pc, target>>
fallbackVars == <<fallbackPending, retryNeeded>>
restartVars == <<restarter, restartPending>>
serverVars == <<http, mdns>>
driverVars == <<radio, link, events, losses>>
jobVars == <<job, jobs, lateJob>>
vars == <<modeVars, serverVars, callerVars, fallbackVars, restartVars, driverVars, jobVars,
          commands, abandoned, silent, overlapped>>

Modes == {"STOPPED", "AP", "STA"}
StartMode == {"enter", "httpStop", "wifiStop", "setMode", "wifiStart", "httpStart"}

TypeOK ==
  /\ mode \in Modes /\ attempts \in 0 .. Retries
  /\ {started, pause, ip, configured, http, mdns, fallbackPending, retryNeeded,
      restartPending, radio, abandoned, silent, lateJob, overlapped} \subseteq BOOLEAN
  /\ pc \in [Callers -> {"none", "begin", "delay", "refused", "finish"} \union StartMode]
  /\ target \in [Callers -> Modes]
  /\ restarter \in {"none", "stop", "start", "clear"}
  /\ link \in {"down", "trying", "up"}
  /\ events \in Seq({"START", "DISCONNECTED", "GOT_IP"})
  /\ job \in {"none", "ready", "starting", "running", "ending"}
  /\ commands \in 0 .. MaxCommands /\ jobs \in 0 .. MaxJobs /\ losses \in 0 .. MaxLosses

\* typx_wifi_service_start at boot: station mode with saved credentials, or the
\* access point.
Init ==
  /\ mode = "STOPPED" /\ started = FALSE /\ pause = FALSE /\ ip = FALSE
  /\ attempts = 0 /\ configured \in BOOLEAN /\ http = FALSE /\ mdns = FALSE
  /\ pc = [c \in Callers |-> IF c = "console" THEN "enter" ELSE "none"]
  /\ target = [c \in Callers |-> IF c = "console" /\ configured THEN "STA" ELSE "AP"]
  /\ fallbackPending = FALSE /\ retryNeeded = FALSE
  /\ restarter = "none" /\ restartPending = FALSE
  /\ radio = FALSE /\ link = "down" /\ events = <<>> /\ losses = 0
  /\ job = "none" /\ jobs = 0 /\ commands = 0
  /\ abandoned = FALSE /\ silent = FALSE /\ lateJob = FALSE
  /\ overlapped = FALSE

\* s_execution_task is not NULL.
Executing == job \in {"starting", "running"}

Goto(c, place) == pc' = [pc EXCEPT ![c] = place]

\* Where a caller goes when start_mode returns.
Return(c) == Goto(c, IF c = "console" THEN "none" ELSE "finish")

\* esp_wifi_connect, which the driver accepts or refuses: a connection that is being set
\* up, or is up, stays.  "trying" is also an association that has no address yet.
Connected(accepted) == IF radio /\ link = "down" /\ accepted THEN "trying" ELSE link

\* Refused while nothing is under way: the code logs it, and no event will follow.
LeftDown(accepted) == radio /\ link = "down" /\ ~accepted

\* The driver reports the end of a connection, and of an attempt.
LostEvents == IF link = "down" THEN <<>> ELSE <<"DISCONNECTED">>

-----------------------------------------------------------------------------
(* start_mode and typx_wifi_service_stop *)

\* Mutant: a job does not keep the mode.
MayStartAlways(c) == target[c] = "STA" => configured

MayStart(c) ==
  /\ Executing => pause
  /\ target[c] = "STA" => configured

\* Nothing keeps two callers apart.
Another(c) == \E other \in Callers \ {c} : pc[other] \in StartMode \ {"enter"}

Enter(c) ==
  /\ pc[c] = "enter"
  /\ IF MayStart(c)
     THEN Goto(c, "httpStop") /\ pause' = TRUE /\ UNCHANGED abandoned
     ELSE Return(c) /\ UNCHANGED pause /\ abandoned' = (abandoned \/ c = "fallback")
  /\ overlapped' = IF MayStart(c) THEN Another(c) ELSE overlapped
  /\ UNCHANGED <<mode, started, ip, attempts, configured, serverVars, target, fallbackVars,
                 restartVars, driverVars, jobVars, commands, silent>>

HttpStop(c) ==
  /\ pc[c] = "httpStop"
  /\ http' = FALSE /\ mdns' = FALSE
  /\ Goto(c, "wifiStop")
  /\ UNCHANGED <<modeVars, target, fallbackVars, restartVars, driverVars, jobVars,
                 commands, abandoned, silent, overlapped>>

\* The radio goes off; a stop ends here.
WifiStop(c) ==
  /\ pc[c] = "wifiStop"
  /\ mode' = IF started THEN "STOPPED" ELSE mode
  /\ radio' = (radio /\ ~started)
  /\ link' = IF started THEN "down" ELSE link
  /\ events' = IF started THEN events \o LostEvents ELSE events
  /\ started' = FALSE /\ ip' = FALSE
  /\ IF target[c] = "STOPPED" THEN Return(c) /\ pause' = FALSE
                              ELSE Goto(c, "setMode") /\ UNCHANGED pause
  /\ UNCHANGED <<attempts, configured, serverVars, target, fallbackVars, restartVars, losses,
                 jobVars, commands, abandoned, silent, overlapped>>

\* esp_wifi_set_mode and esp_wifi_set_config.  If one fails the radio stays off.
SetMode(c, ok) ==
  /\ pc[c] = "setMode"
  /\ mode' = IF ok THEN target[c] ELSE "STOPPED"
  /\ attempts' = IF ok THEN 0 ELSE attempts
  /\ pause' = FALSE
  /\ link' = IF ok /\ target[c] = "AP" THEN "down" ELSE link
  /\ events' = IF ok /\ target[c] = "AP" THEN events \o LostEvents ELSE events
  /\ IF ok THEN Goto(c, "wifiStart") ELSE Return(c)
  /\ abandoned' = (abandoned \/ (c = "fallback" /\ ~ok))
  /\ UNCHANGED <<started, ip, configured, serverVars, target, fallbackVars, restartVars, radio,
                 losses, jobVars, commands, silent, overlapped>>

WifiStart(c, ok) ==
  /\ pc[c] = "wifiStart"
  /\ IF ok
     THEN /\ started' = TRUE /\ ip' = (ip \/ target[c] = "AP")
          /\ radio' = TRUE
          /\ events' = IF radio \/ mode # "STA" THEN events ELSE Append(events, "START")
          /\ abandoned' = FALSE /\ Goto(c, "httpStart")
          /\ UNCHANGED <<mode, pause>>
     ELSE /\ mode' = "STOPPED" /\ pause' = FALSE /\ Return(c)
          /\ abandoned' = (abandoned \/ c = "fallback")
          /\ UNCHANGED <<started, ip, radio, events>>
  /\ UNCHANGED <<attempts, configured, serverVars, target, fallbackVars, restartVars, link,
                 losses, jobVars, commands, silent, overlapped>>

\* typx_discovery_should_start, and the flags start_mdns tests with it.
ShouldAnnounce(server) == started /\ server /\ (mode = "STA" => ip)

\* start_http leaves a server that is there alone, and start_mdns an announcement.
StartServer(served, announced, tell) ==
  /\ http' = (http \/ served)
  /\ mdns' = (mdns \/ (tell /\ ShouldAnnounce(http') /\ announced))
  /\ silent' = IF tell THEN ~(http' /\ mdns') ELSE silent \/ ~http'

\* A station is announced by the task that restarts the server for its address.
HttpStart(c, served, announced) ==
  /\ pc[c] = "httpStart"
  /\ StartServer(served, announced, target[c] = "AP")
  /\ Return(c)
  /\ UNCHANGED <<modeVars, target, fallbackVars, restartVars, driverVars, jobVars,
                 commands, abandoned, overlapped>>

StartModeStep(c) ==
  \/ Enter(c) \/ HttpStop(c) \/ WifiStop(c)
  \/ \E ok \in BOOLEAN : SetMode(c, ok) \/ WifiStart(c, ok)
  \/ \E served, announced \in BOOLEAN : HttpStart(c, served, announced)

-----------------------------------------------------------------------------
(* The console *)

\* typx_wifi_service_job_locked
Locked == job = "ready" \/ Executing

Command ==
  /\ pc["console"] = "none"
  /\ commands < MaxCommands /\ commands' = commands + 1

StartCommand(m) ==
  /\ Command
  /\ Goto("console", "enter") /\ target' = [target EXCEPT !["console"] = m]
  /\ UNCHANGED <<modeVars, serverVars, fallbackVars, restartVars, driverVars, jobVars,
                 abandoned, silent, overlapped>>

StopCommand ==
  /\ Command /\ ~Locked
  /\ mode' = "STOPPED" /\ pause' = TRUE
  /\ Goto("console", "httpStop") /\ target' = [target EXCEPT !["console"] = "STOPPED"]
  /\ overlapped' = Another("console")
  /\ UNCHANGED <<started, ip, attempts, configured, serverVars, fallbackVars, restartVars,
                 driverVars, jobVars, abandoned, silent>>

ConfigureCommand ==
  /\ Command /\ ~Locked
  /\ configured' = TRUE
  /\ UNCHANGED <<mode, started, pause, ip, attempts, serverVars, callerVars, fallbackVars,
                 restartVars, driverVars, jobVars, abandoned, silent, overlapped>>

\* Without credentials a station becomes an access point.
ForgetCommand ==
  /\ Command /\ ~Locked
  /\ configured' = FALSE
  /\ IF mode = "STA"
     THEN Goto("console", "enter") /\ target' = [target EXCEPT !["console"] = "AP"]
     ELSE UNCHANGED callerVars
  /\ UNCHANGED <<mode, started, pause, ip, attempts, serverVars, fallbackVars, restartVars,
                 driverVars, jobVars, abandoned, silent, overlapped>>

Console ==
  \/ \E m \in {"STA", "AP"} : StartCommand(m)
  \/ StopCommand \/ ConfigureCommand \/ ForgetCommand

-----------------------------------------------------------------------------
(* wifi_event_handler *)

Take(event) == events # <<>> /\ Head(events) = event /\ events' = Tail(events)

\* schedule_station_fallback, with memory for the task or without.
ScheduleFallback(ok) ==
  IF fallbackPending THEN UNCHANGED <<pc, fallbackPending, retryNeeded, abandoned>>
  ELSE /\ fallbackPending' = ok /\ retryNeeded' = FALSE
       /\ pc' = [pc EXCEPT !["fallback"] = IF ok THEN "begin" ELSE "none"]
       /\ abandoned' = (abandoned \/ ~ok)

StationEvent == mode = "STA" /\ ~pause

Started(accepted) ==
  /\ Take("START")
  /\ IF StationEvent
     THEN /\ attempts' = 0 /\ link' = Connected(accepted)
          /\ abandoned' = (abandoned \/ LeftDown(accepted))
     ELSE UNCHANGED <<attempts, link, abandoned>>
  /\ UNCHANGED <<mode, started, pause, ip, configured, serverVars, callerVars, fallbackVars,
                 restartVars, radio, losses, jobVars, commands, silent, overlapped>>

\* Mutant: one attempt too many.
DisconnectedOnceMore(ok) ==
  /\ Take("DISCONNECTED")
  /\ IF StationEvent
     THEN /\ ip' = FALSE
          /\ IF attempts <= Retries
             THEN /\ attempts' = attempts + 1 /\ link' = Connected(ok)
                  /\ abandoned' = (abandoned \/ LeftDown(ok))
                  /\ UNCHANGED <<pc, fallbackVars>>
             ELSE ScheduleFallback(ok) /\ UNCHANGED <<attempts, link>>
     ELSE UNCHANGED <<ip, attempts, link, pc, fallbackVars, abandoned>>
  /\ UNCHANGED <<mode, started, pause, configured, serverVars, target, restartVars, radio,
                 losses, jobVars, commands, silent, overlapped>>

\* The driver accepts the next attempt, or the scheduler the task, or they do not.
Disconnected(ok) ==
  /\ Take("DISCONNECTED")
  /\ IF StationEvent
     THEN /\ ip' = FALSE
          /\ IF attempts < Retries
             THEN /\ attempts' = attempts + 1 /\ link' = Connected(ok)
                  /\ abandoned' = (abandoned \/ LeftDown(ok))
                  /\ UNCHANGED <<pc, fallbackVars>>
             ELSE ScheduleFallback(ok) /\ UNCHANGED <<attempts, link>>
     ELSE UNCHANGED <<ip, attempts, link, pc, fallbackVars, abandoned>>
  /\ UNCHANGED <<mode, started, pause, configured, serverVars, target, restartVars, radio,
                 losses, jobVars, commands, silent, overlapped>>

\* schedule_http_restart.
GotIp(ok) ==
  /\ Take("GOT_IP")
  /\ IF mode = "STA"
     THEN /\ ip' = TRUE /\ attempts' = 0 /\ abandoned' = FALSE
          /\ IF restartPending
             THEN /\ silent' = (silent \/ (restarter = "clear" /\ ~(http /\ mdns)))
                  /\ UNCHANGED restartVars
             ELSE /\ restartPending' = ok
                  /\ restarter' = IF ok THEN "stop" ELSE "none"
                  /\ silent' = (silent \/ ~ok)
     ELSE UNCHANGED <<ip, attempts, restartVars, silent, abandoned>>
  /\ UNCHANGED <<mode, started, pause, configured, serverVars, callerVars, fallbackVars, radio,
                 link, losses, jobVars, commands, overlapped>>

EventLoop == \E ok \in BOOLEAN : Started(ok) \/ Disconnected(ok) \/ GotIp(ok)

-----------------------------------------------------------------------------
(* station_fallback_task *)

FallbackBegin ==
  /\ pc["fallback"] = "begin"
  /\ Goto("fallback", IF Executing /\ configured THEN "delay"
                      ELSE IF mode = "STA" /\ ~pause THEN "enter" ELSE "finish")
  /\ UNCHANGED <<modeVars, serverVars, target, fallbackVars, restartVars, driverVars, jobVars,
                 commands, abandoned, silent, overlapped>>

\* Mutant: a refused attempt is not made again.
FallbackRetryUnlessRefused(accepted) ==
  /\ pc["fallback"] = "delay"
  /\ IF Executing /\ mode = "STA" /\ started /\ ~ip
     THEN /\ link' = Connected(accepted) /\ retryNeeded' = accepted
          /\ Goto("fallback", IF LeftDown(accepted) THEN "refused" ELSE "finish")
          /\ UNCHANGED abandoned
     ELSE /\ abandoned' = (abandoned \/ ~Executing)
          /\ Goto("fallback", "finish")
          /\ UNCHANGED <<link, retryNeeded>>
  /\ UNCHANGED <<modeVars, serverVars, target, fallbackPending, restartVars, radio, events,
                 losses, jobVars, commands, silent, overlapped>>

\* Two seconds later: if the job is over by now, nobody takes over.  The task keeps the
\* error of the driver in a local variable, here a place of its own.
FallbackRetry(accepted) ==
  /\ pc["fallback"] = "delay"
  /\ IF Executing /\ mode = "STA" /\ started /\ ~ip
     THEN /\ link' = Connected(accepted) /\ retryNeeded' = TRUE
          /\ Goto("fallback", IF LeftDown(accepted) THEN "refused" ELSE "finish")
          /\ UNCHANGED abandoned
     ELSE /\ abandoned' = (abandoned \/ ~Executing)
          /\ Goto("fallback", "finish")
          /\ UNCHANGED <<link, retryNeeded>>
  /\ UNCHANGED <<modeVars, serverVars, target, fallbackPending, restartVars, radio, events,
                 losses, jobVars, commands, silent, overlapped>>

\* Mutant: the task leaves without clearing s_fallback_task_pending.
FallbackFinishHoldsPending(ok) ==
  /\ pc["fallback"] \in {"refused", "finish"}
  /\ Goto("fallback", "none")
  /\ UNCHANGED <<modeVars, serverVars, target, fallbackVars, restartVars, driverVars, jobVars,
                 commands, abandoned, silent, overlapped>>

\* A refused attempt is made again while the job runs, and never after it.
FallbackFinish(ok) ==
  /\ pc["fallback"] \in {"refused", "finish"}
  /\ LET again == retryNeeded /\ Executing IN
       /\ fallbackPending' = (again /\ ok)
       /\ Goto("fallback", IF again /\ ok THEN "begin" ELSE "none")
       /\ abandoned' = \/ abandoned
                       \/ again /\ ~ok
                       \/ pc["fallback"] = "refused" /\ ~Executing
  /\ retryNeeded' = FALSE
  /\ UNCHANGED <<modeVars, serverVars, target, restartVars, driverVars, jobVars, commands,
                 silent, overlapped>>

FallbackStep ==
  \/ FallbackBegin
  \/ \E ok \in BOOLEAN : FallbackRetry(ok) \/ FallbackFinish(ok)
  \/ StartModeStep("fallback")

-----------------------------------------------------------------------------
(* http_restart_task *)

RestartStop ==
  /\ restarter = "stop" /\ restarter' = "start"
  /\ http' = FALSE /\ mdns' = FALSE
  /\ UNCHANGED <<modeVars, callerVars, fallbackVars, restartPending, driverVars, jobVars,
                 commands, abandoned, silent, overlapped>>

\* An access point that came up between the two steps stays without its server.
RestartStart(served, announced) ==
  /\ restarter = "start" /\ restarter' = "clear"
  /\ IF mode = "STA" /\ started /\ ip THEN StartServer(served, announced, TRUE)
     ELSE silent' = (silent \/ mode = "AP") /\ UNCHANGED serverVars
  /\ UNCHANGED <<modeVars, callerVars, fallbackVars, restartPending, driverVars, jobVars,
                 commands, abandoned, overlapped>>

RestartClear ==
  /\ restarter = "clear" /\ restarter' = "none"
  /\ restartPending' = FALSE
  /\ UNCHANGED <<modeVars, serverVars, callerVars, fallbackVars, driverVars, jobVars, commands,
                 abandoned, silent, overlapped>>

RestarterStep ==
  \/ RestartStop \/ RestartClear
  \/ \E served, announced \in BOOLEAN : RestartStart(served, announced)

-----------------------------------------------------------------------------
(* The driver and the job *)

\* An attempt takes longer than the last instructions of the fallback task.
AttemptEnds(up) ==
  /\ link = "trying" /\ pc["fallback"] # "finish" /\ Len(events) < MaxQueue
  /\ link' = IF up THEN "up" ELSE "down"
  /\ events' = Append(events, IF up THEN "GOT_IP" ELSE "DISCONNECTED")
  /\ UNCHANGED <<modeVars, serverVars, callerVars, fallbackVars, restartVars, radio, losses,
                 jobVars, commands, abandoned, silent, overlapped>>

LinkLost ==
  /\ link = "up"
  /\ losses < MaxLosses /\ losses' = losses + 1
  /\ link' = "down" /\ events' = Append(events, "DISCONNECTED")
  /\ UNCHANGED <<modeVars, serverVars, callerVars, fallbackVars, restartVars, radio, jobVars,
                 commands, abandoned, silent, overlapped>>

\* A phone that reaches the server uploads, starts or cancels a job.
Reachable == http /\ (link = "up" \/ mode = "AP")

JobChanges ==
  /\ Reachable
  /\ \/ job = "none" /\ jobs < MaxJobs /\ job' = "ready"
     \/ job = "ready" /\ job' \in {"starting", "none"}
  /\ jobs' = IF job = "none" THEN jobs + 1 ELSE jobs
  /\ lateJob' = (job' = "starting" /\ \E c \in Callers : pc[c] \in StartMode)
  /\ UNCHANGED <<modeVars, serverVars, callerVars, fallbackVars, restartVars, driverVars,
                 commands, abandoned, silent, overlapped>>

\* The execution task: stop_mdns, the run, start_mdns.
Suspend ==
  /\ job = "starting" /\ job' = "running"
  /\ mdns' = FALSE
  /\ UNCHANGED <<modeVars, http, callerVars, fallbackVars, restartVars, driverVars, jobs,
                 lateJob, commands, abandoned, silent, overlapped>>

RunEnds ==
  /\ job = "running" /\ job' = "ending"
  /\ UNCHANGED <<modeVars, serverVars, callerVars, fallbackVars, restartVars, driverVars,
                 jobs, lateJob, commands, abandoned, silent, overlapped>>

\* Mutant: the announcement stays down after a run.
ResumeForgets(announced) ==
  /\ job = "ending" /\ job' = "none" /\ lateJob' = FALSE
  /\ UNCHANGED <<modeVars, serverVars, callerVars, fallbackVars, restartVars, driverVars,
                 jobs, commands, abandoned, silent, overlapped>>

Resume(announced) ==
  /\ job = "ending" /\ job' = "none" /\ lateJob' = FALSE
  /\ IF ~mdns /\ ShouldAnnounce(http)
     THEN mdns' = announced /\ silent' = ~announced
     ELSE UNCHANGED <<mdns, silent>>
  /\ UNCHANGED <<modeVars, http, callerVars, fallbackVars, restartVars, driverVars, jobs,
                 commands, abandoned, overlapped>>

ExecutionStep == Suspend \/ RunEnds \/ \E announced \in BOOLEAN : Resume(announced)

Next ==
  \/ StartModeStep("console") \/ Console
  \/ FallbackStep
  \/ EventLoop
  \/ RestarterStep
  \/ \E up \in BOOLEAN : AttemptEnds(up)
  \/ LinkLost
  \/ JobChanges \/ ExecutionStep

Spec == Init /\ [][Next]_vars

\* Tasks and the event loop run, and a job ends.  Nothing is asked of the hotspot.
Fairness ==
  /\ WF_vars(StartModeStep("console")) /\ WF_vars(FallbackStep)
  /\ WF_vars(EventLoop) /\ WF_vars(RestarterStep)
  /\ WF_vars(ExecutionStep)

LiveSpec == Spec /\ Fairness
-----------------------------------------------------------------------------
(* Properties *)

\* A station without an address is on its way to one: it is connecting, or waits for its
\* lease, it has an event to act on, or the fallback task is at work.  The ways out are
\* those that raise abandoned (no memory for the task, a job that ends during the task's
\* delay or after its refused attempt, a mode change or an attempt of the event handler
\* refused) or overlapped.
RecoveryUnderWay ==
  mode = "STA" /\ started /\ ~ip /\ ~abandoned /\ ~overlapped =>
    link # "down" \/ events # <<>> \/ fallbackPending \/ pc["console"] \in StartMode

\* A board that has an address serves the phone and announces itself, or is about to:
\* neither the restart of the server that GOT_IP asks for nor the announcement that a
\* run took down is ever lost, unless memory, the server or the mDNS library refused
\* (silent) or two mode changes overlapped.  A run need not announce.
OnlineServes ==
  started /\ ip /\ ~silent /\ ~overlapped =>
    \/ http /\ (mdns \/ Executing \/ job = "ending")
    \/ events # <<>> \/ restartPending
    \/ \E c \in Callers : pc[c] \in StartMode

\* A job keeps the mode it was started in: neither the console nor the recovery
\* takes the phone's way to stop it, unless they had begun before it started.
JobKeepsMode == [][Executing /\ ~lateJob => mode' = mode]_vars

\* A station that loses the hotspot gets an address again: its own, or that of the recovery
\* access point, which has to start.  Otherwise the operator has begun to change the mode,
\* a way out of RecoveryUnderWay was taken, or the hotspot keeps the station associated for
\* ever without giving it a lease, of which the driver reports nothing.
StationRecovers ==
  \/ mode = "STA" /\ started /\ ~ip
       ~> ip \/ pc["console"] \in StartMode \/ abandoned \/ overlapped
  \/ <>[](link = "trying")
=============================================================================
