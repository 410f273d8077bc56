-------------------------- MODULE WifiStationProofs --------------------------
(***************************************************************************)
(* Proofs about WifiStation, for every number of retries, commands, jobs,     *)
(* losses and events: a job keeps the mode, a station that lost the hotspot    *)
(* has something under way that acts on it, and a board with an address has     *)
(* its server and its announcement, or the step that brings them.              *)
(***************************************************************************)
EXTENDS WifiStation, SequenceTheorems, TLAPS

-----------------------------------------------------------------------------
(* The inductive invariant *)

\* Where a caller of start_mode holds s_execution_wifi_pause, and where it may change the mode.
Pausing == {"httpStop", "wifiStop", "setMode"}
Changing == StartMode \ {"enter"}

\* A caller that is taking the server and the radio down.
Stopping == \E c \in Callers : pc[c] \in {"httpStop", "wifiStop"}

\* An event waits in the driver's queue; every event a has an event b behind it.
Waits(event) == \E k \in 1 .. Len(events) : events[k] = event
Followed(a, b) ==
  \A k \in 1 .. Len(events) : events[k] = a =>
    \E j \in k + 1 .. Len(events) : events[j] = b

\* The two pending flags say whether their tasks are there, and a refused attempt is to be
\* made again.
PendingTells ==
  /\ fallbackPending <=> pc["fallback"] # "none"
  /\ restartPending <=> restarter # "none"
  /\ pc["fallback"] = "refused" => retryNeeded

\* The fallback starts the access point; a stop does not come as far as setting a mode.
TargetKnown ==
  /\ target["fallback"] = "AP"
  /\ \A c \in Callers : pc[c] \in {"setMode", "wifiStart", "httpStart"} => target[c] # "STOPPED"

\* The pause has an owner that will end it.
PauseOwned == pause => \E c \in Callers : pc[c] \in Pausing

\* Unless it is on record, no two callers are in the midst of a mode change.
OneAtATime ==
  ~overlapped => \A c, d \in Callers : pc[c] \in Changing /\ pc[d] \in Changing => c = d

\* The service knows whether the radio is on.
RadioKnown ==
  /\ radio = started
  /\ ~started => link = "down"

\* A station is started, or about to be.  A mode change alone finds the radio off from
\* where it sets the mode, and the mode as it set it until it returns.
ModeKnown ==
  /\ mode = "STA" /\ ~started => pc["console"] = "wifiStart"
  /\ ~overlapped =>
       /\ mode = "STOPPED" /\ started => Stopping
       /\ \A c \in Callers :
            /\ pc[c] \in {"setMode", "wifiStart"} => ~started
            /\ pc[c] \in {"wifiStart", "httpStart"} => mode = target[c]
            /\ pc[c] = "setMode" => mode # "STA" /\ ~ip

\* No mode change is under way while a job runs, but for those that began before it.
JobQuiet == Executing /\ ~lateJob => \A c \in Callers : pc[c] \notin Changing

\* The queue is in order: a connection that is up has reported itself after every loss,
\* and one that is not has reported its loss after every address.
QueueKnown ==
  /\ link = "up" => Followed("DISCONNECTED", "GOT_IP")
  /\ link # "up" => Followed("GOT_IP", "DISCONNECTED")

\* What the service says of the address is so, or the event that corrects it waits; an
\* address gives the station all its attempts back.
AddressKnown ==
  mode = "STA" /\ ~overlapped /\ ~Stopping =>
    /\ link = "up" => ip \/ Waits("GOT_IP")
    /\ link # "up" => ~ip \/ Waits("DISCONNECTED")
    /\ ip => attempts = 0

\* A station that is down is looked after: by the fallback task while it may still act, by
\* an event while there are attempts left, or by one that does not need any.
RecoveryKnown ==
  mode = "STA" /\ started /\ ~ip /\ ~abandoned /\ ~overlapped /\ ~Stopping /\ link = "down" =>
    \/ pc["fallback"] \in {"begin", "delay", "enter", "refused"}
    \/ pc["fallback"] = "none" /\ events # <<>>
    \/ attempts < Retries /\ events # <<>>
    \/ Waits("START") \/ Waits("GOT_IP")

\* OnlineServes has been met.
Served == http /\ (mdns \/ Executing \/ job = "ending")

\* A server that is not there is being restarted, or started with the access point, or
\* the address is about to go.
ServerKnown ==
  started /\ ip /\ ~silent /\ ~overlapped /\ ~Stopping =>
    \/ Served \/ restarter \in {"stop", "start"}
    \/ \E c \in Callers : pc[c] = "httpStart" /\ target[c] = "AP"
    \/ mode = "STA" /\ Waits("DISCONNECTED")

IInv ==
  /\ TypeOK /\ PendingTells /\ TargetKnown /\ PauseOwned /\ OneAtATime
  /\ RadioKnown /\ ModeKnown /\ JobQuiet /\ QueueKnown /\ AddressKnown
  /\ RecoveryKnown /\ ServerKnown

-----------------------------------------------------------------------------
(* Parts of the type invariant, and what steps leave alone *)

Places == {"none", "begin", "delay", "refused", "finish"} \union StartMode
Events == {"START", "DISCONNECTED", "GOT_IP"}

\* The steps that leave the mode, the callers and the driver alone.
Aside == RestarterStep \/ JobChanges \/ ExecutionStep \/ ConfigureCommand \/ UNCHANGED vars

AsideKept ==
  UNCHANGED <<mode, started, pause, ip, attempts, callerVars, fallbackVars, driverVars,
              abandoned, overlapped>>

\* Each of them does.
LEMMA AsideFrame ==
  ASSUME Aside PROVE AsideKept
<1> USE DEF AsideKept, modeVars, callerVars, fallbackVars, driverVars
<1>1. CASE RestartStop BY <1>1 DEF RestartStop
<1>2. CASE RestartClear BY <1>2 DEF RestartClear
<1>3. ASSUME NEW served \in BOOLEAN, NEW announced \in BOOLEAN, RestartStart(served, announced)
      PROVE  AsideKept
  BY <1>3 DEF RestartStart
<1>4. CASE JobChanges BY <1>4 DEF JobChanges
<1>5. CASE Suspend BY <1>5 DEF Suspend
<1>6. CASE RunEnds BY <1>6 DEF RunEnds
<1>7. ASSUME NEW announced \in BOOLEAN, Resume(announced) PROVE AsideKept
  BY <1>7 DEF Resume
<1>8. CASE ConfigureCommand BY <1>8 DEF ConfigureCommand, Command
<1>9. CASE UNCHANGED vars BY <1>9 DEF vars
<1> QED BY <1>1, <1>2, <1>3, <1>4, <1>5, <1>6, <1>7, <1>8, <1>9
     DEF Aside, RestarterStep, ExecutionStep

\* The event loop takes an event off the queue.
LEMMA TakeEffect ==
  ASSUME events \in Seq(Events), NEW event, Take(event)
  PROVE  /\ events # <<>> /\ events' \in Seq(Events)
         /\ \A a : Waits(a)' => Waits(a)
         /\ \A a : a # event /\ Waits(a) => Waits(a)'
         /\ \A a, b : Followed(a, b) => Followed(a, b)'
         /\ \A b : Followed(event, b) => Waits(b)'
<1>1. /\ events # <<>> /\ events[1] = event /\ events' = Tail(events)
      /\ Len(events) \in Nat \ {0}
  BY DEF Take
<1>2. /\ events' \in Seq(Events) /\ Len(events') = Len(events) - 1
      /\ \A k \in 1 .. Len(events') : events'[k] = events[k + 1]
  BY <1>1
<1>3. ASSUME NEW a, NEW k \in 2 .. Len(events), events[k] = a
      PROVE  k - 1 \in 1 .. Len(events') /\ events'[k - 1] = a
  BY <1>1, <1>2, <1>3
<1>4. ASSUME NEW a, Waits(a)' PROVE Waits(a)
  <2>1. PICK k \in 1 .. Len(events') : events'[k] = a BY <1>4 DEF Waits
  <2>2. k + 1 \in 1 .. Len(events) /\ events[k + 1] = a BY <1>1, <1>2, <2>1
  <2>3. QED BY <2>2 DEF Waits
<1>5. ASSUME NEW a, a # event, Waits(a) PROVE Waits(a)'
  <2>1. PICK k \in 1 .. Len(events) : events[k] = a BY <1>5 DEF Waits
  <2>2. k \in 2 .. Len(events) BY <1>1, <1>5, <2>1
  <2>3. QED BY <1>3, <2>1, <2>2 DEF Waits
<1>6. ASSUME NEW a, NEW b, Followed(a, b) PROVE Followed(a, b)'
  <2> SUFFICES ASSUME NEW k \in 1 .. Len(events'), events'[k] = a
               PROVE  \E j \in k + 1 .. Len(events') : events'[j] = b
    BY DEF Followed
  <2>1. k + 1 \in 1 .. Len(events) /\ events[k + 1] = a BY <1>1, <1>2
  <2>2. PICK j \in (k + 1) + 1 .. Len(events) : events[j] = b BY <1>6, <2>1 DEF Followed
  <2>3. j - 1 \in k + 1 .. Len(events') /\ events'[j - 1] = b BY <1>1, <1>2, <2>2
  <2>4. QED BY <2>3
<1>7. ASSUME NEW b, Followed(event, b) PROVE Waits(b)'
  <2>1. PICK j \in 1 + 1 .. Len(events) : events[j] = b BY <1>1, <1>7 DEF Followed
  <2>2. QED BY <1>1, <1>2, <1>3, <2>1 DEF Waits
<1>8. QED BY <1>1, <1>2, <1>4, <1>5, <1>6, <1>7

\* The driver adds one.
LEMMA AppendEffect ==
  ASSUME events \in Seq(Events), NEW event \in Events, events' = Append(events, event)
  PROVE  /\ events' # <<>> /\ events' \in Seq(Events)
         /\ Waits(event)'
         /\ \A a : Waits(a) => Waits(a)'
         /\ \A a, b : a # event /\ Followed(a, b) => Followed(a, b)'
         /\ \A a : a # event => Followed(a, event)'
<1>1. /\ events' \in Seq(Events) /\ Len(events) \in Nat /\ Len(events') = Len(events) + 1
      /\ events'[Len(events')] = event
      /\ \A k \in 1 .. Len(events) : events'[k] = events[k]
  OBVIOUS
<1>2. ASSUME NEW a, Waits(a) PROVE Waits(a)'
  BY <1>1, <1>2 DEF Waits
<1>3. ASSUME NEW a, a # event, NEW k \in 1 .. Len(events'), events'[k] = a
      PROVE  k \in 1 .. Len(events) /\ events[k] = a
  BY <1>1, <1>3
<1>4. ASSUME NEW a, NEW b, a # event, Followed(a, b) PROVE Followed(a, b)'
  <2> SUFFICES ASSUME NEW k \in 1 .. Len(events'), events'[k] = a
               PROVE  \E j \in k + 1 .. Len(events') : events'[j] = b
    BY DEF Followed
  <2>1. PICK j \in k + 1 .. Len(events) : events[j] = b BY <1>3, <1>4 DEF Followed
  <2>2. j \in k + 1 .. Len(events') /\ events'[j] = b BY <1>1, <2>1
  <2>3. QED BY <2>2
<1>5. ASSUME NEW a, a # event PROVE Followed(a, event)'
  <2> SUFFICES ASSUME NEW k \in 1 .. Len(events'), events'[k] = a
               PROVE  \E j \in k + 1 .. Len(events') : events'[j] = event
    BY DEF Followed
  <2>1. k \in 1 .. Len(events) BY <1>3, <1>5
  <2>2. Len(events') \in k + 1 .. Len(events') BY <1>1, <2>1
  <2>3. QED BY <1>1, <2>2
<1>6. events' # <<>> /\ Waits(event)' BY <1>1 DEF Waits
<1>7. QED BY <1>1, <1>2, <1>4, <1>5, <1>6

\* The driver's report of the end of a connection.
LEMMA LostEffect ==
  ASSUME events \in Seq(Events)
  PROVE  /\ events \o LostEvents \in Seq(Events)
         /\ events \o LostEvents = IF link = "down" THEN events
                                                  ELSE Append(events, "DISCONNECTED")
<1> "DISCONNECTED" \in Events BY DEF Events
<1>1. events \o LostEvents = IF link = "down" THEN events
                                             ELSE Append(events, "DISCONNECTED")
  BY DEF LostEvents
<1>2. Append(events, "DISCONNECTED") \in Seq(Events) OBVIOUS
<1>3. QED BY <1>1, <1>2

-----------------------------------------------------------------------------
(* The type invariant *)

FlagsTyped ==
  {started, pause, ip, configured, http, mdns, fallbackPending, retryNeeded,
   restartPending, radio, abandoned, silent, lateJob, overlapped} \subseteq BOOLEAN

PlacesTyped ==
  /\ pc \in [Callers -> Places] /\ target \in [Callers -> Modes]
  /\ restarter \in {"none", "stop", "start", "clear"}
  /\ link \in {"down", "trying", "up"}
  /\ job \in {"none", "ready", "starting", "running", "ending"}

CountersTyped ==
  /\ mode \in Modes /\ attempts \in 0 .. Retries /\ events \in Seq(Events)
  /\ commands \in 0 .. MaxCommands /\ jobs \in 0 .. MaxJobs /\ losses \in 0 .. MaxLosses

\* The type invariant in three parts.
LEMMA Typed ==
  TypeOK <=> FlagsTyped /\ PlacesTyped /\ CountersTyped
BY DEF TypeOK, FlagsTyped, PlacesTyped, CountersTyped, Places, Events

\* The flags stay flags.
LEMMA FlagTypes ==
  ASSUME FlagsTyped, [Next]_vars PROVE FlagsTyped'
<1> USE DEF FlagsTyped, modeVars, serverVars, callerVars, fallbackVars, restartVars,
            driverVars, jobVars
<1>1. ASSUME NEW c \in Callers, Enter(c) PROVE FlagsTyped'
  <2>1. {pause', abandoned', overlapped'} \subseteq BOOLEAN
    BY <1>1 DEF Enter, Another
  <2>2. UNCHANGED <<started, ip, configured, http, mdns, fallbackPending, retryNeeded,
                    restartPending, radio, silent, lateJob>>
    BY <1>1 DEF Enter
  <2>3. QED BY <2>1, <2>2
<1>2. ASSUME NEW c \in Callers, HttpStop(c) PROVE FlagsTyped'
  BY <1>2 DEF HttpStop
<1>3. ASSUME NEW c \in Callers, WifiStop(c) PROVE FlagsTyped'
  <2>1. {started', pause', ip', radio'} \subseteq BOOLEAN
    BY <1>3 DEF WifiStop
  <2>2. UNCHANGED <<configured, http, mdns, fallbackPending, retryNeeded, restartPending,
                    abandoned, silent, lateJob, overlapped>>
    BY <1>3 DEF WifiStop
  <2>3. QED BY <2>1, <2>2
<1>4. ASSUME NEW c \in Callers, NEW ok \in BOOLEAN, SetMode(c, ok) PROVE FlagsTyped'
  <2>1. {pause', abandoned'} \subseteq BOOLEAN
    BY <1>4 DEF SetMode
  <2>2. UNCHANGED <<started, ip, configured, http, mdns, fallbackPending, retryNeeded,
                    restartPending, radio, silent, lateJob, overlapped>>
    BY <1>4 DEF SetMode
  <2>3. QED BY <2>1, <2>2
<1>5. ASSUME NEW c \in Callers, NEW ok \in BOOLEAN, WifiStart(c, ok) PROVE FlagsTyped'
  <2>1. {started', pause', ip', radio', abandoned'} \subseteq BOOLEAN
    BY <1>5 DEF WifiStart
  <2>2. UNCHANGED <<configured, http, mdns, fallbackPending, retryNeeded, restartPending,
                    silent, lateJob, overlapped>>
    BY <1>5 DEF WifiStart
  <2>3. QED BY <2>1, <2>2
<1>6. ASSUME NEW c \in Callers, NEW served \in BOOLEAN, NEW announced \in BOOLEAN,
             HttpStart(c, served, announced)
      PROVE  FlagsTyped'
  <2>1. {http', mdns', silent'} \subseteq BOOLEAN
    BY <1>6 DEF HttpStart, StartServer
  <2>2. UNCHANGED <<started, pause, ip, configured, fallbackPending, retryNeeded,
                    restartPending, radio, abandoned, lateJob, overlapped>>
    BY <1>6 DEF HttpStart, StartServer
  <2>3. QED BY <2>1, <2>2
<1>7. CASE \E m \in {"STA", "AP"} : StartCommand(m)
  BY <1>7 DEF StartCommand, Command
<1>8. CASE StopCommand
  <2>1. {pause', overlapped'} \subseteq BOOLEAN
    BY <1>8 DEF StopCommand, Another
  <2>2. UNCHANGED <<started, ip, configured, http, mdns, fallbackPending, retryNeeded,
                    restartPending, radio, abandoned, silent, lateJob>>
    BY <1>8 DEF StopCommand
  <2>3. QED BY <2>1, <2>2
<1>9. CASE ForgetCommand BY <1>9 DEF ForgetCommand, Command
<1>10. ASSUME NEW ok \in BOOLEAN, Started(ok) PROVE FlagsTyped'
  <2>1. {abandoned'} \subseteq BOOLEAN BY <1>10 DEF Started
  <2>2. UNCHANGED <<started, pause, ip, configured, http, mdns, fallbackPending, retryNeeded,
                    restartPending, radio, silent, lateJob, overlapped>>
    BY <1>10 DEF Started
  <2>3. QED BY <2>1, <2>2
<1>11. ASSUME NEW ok \in BOOLEAN, Disconnected(ok) PROVE FlagsTyped'
  <2>1. {ip', fallbackPending', retryNeeded', abandoned'} \subseteq BOOLEAN
    BY <1>11 DEF Disconnected, ScheduleFallback
  <2>2. UNCHANGED <<started, pause, configured, http, mdns, restartPending, radio, silent,
                    lateJob, overlapped>>
    BY <1>11 DEF Disconnected, ScheduleFallback
  <2>3. QED BY <2>1, <2>2
<1>12. ASSUME NEW ok \in BOOLEAN, GotIp(ok) PROVE FlagsTyped'
  <2>1. {ip', restartPending', abandoned', silent'} \subseteq BOOLEAN
    BY <1>12 DEF GotIp
  <2>2. UNCHANGED <<started, pause, configured, http, mdns, fallbackPending, retryNeeded,
                    radio, lateJob, overlapped>>
    BY <1>12 DEF GotIp
  <2>3. QED BY <2>1, <2>2
<1>13. CASE FallbackBegin BY <1>13 DEF FallbackBegin
<1>14. ASSUME NEW ok \in BOOLEAN, FallbackRetry(ok) PROVE FlagsTyped'
  <2>1. {retryNeeded', abandoned'} \subseteq BOOLEAN
    BY <1>14 DEF FallbackRetry
  <2>2. UNCHANGED <<started, pause, ip, configured, http, mdns, fallbackPending,
                    restartPending, radio, silent, lateJob, overlapped>>
    BY <1>14 DEF FallbackRetry
  <2>3. QED BY <2>1, <2>2
<1>15. ASSUME NEW ok \in BOOLEAN, FallbackFinish(ok) PROVE FlagsTyped'
  <2>1. {fallbackPending', retryNeeded', abandoned'} \subseteq BOOLEAN
    BY <1>15 DEF FallbackFinish
  <2>2. UNCHANGED <<started, pause, ip, configured, http, mdns, restartPending, radio,
                    silent, lateJob, overlapped>>
    BY <1>15 DEF FallbackFinish
  <2>3. QED BY <2>1, <2>2
<1>16. CASE \E up \in BOOLEAN : AttemptEnds(up) BY <1>16 DEF AttemptEnds
<1>17. CASE LinkLost BY <1>17 DEF LinkLost
<1>18. CASE RestartStop BY <1>18 DEF RestartStop
<1>19. CASE RestartClear BY <1>19 DEF RestartClear
<1>20. ASSUME NEW served \in BOOLEAN, NEW announced \in BOOLEAN,
              RestartStart(served, announced)
       PROVE  FlagsTyped'
  <2>1. {http', mdns', silent'} \subseteq BOOLEAN
    BY <1>20 DEF RestartStart, StartServer
  <2>2. UNCHANGED <<started, pause, ip, configured, fallbackPending, retryNeeded,
                    restartPending, radio, abandoned, lateJob, overlapped>>
    BY <1>20 DEF RestartStart
  <2>3. QED BY <2>1, <2>2
<1>21. CASE JobChanges BY <1>21 DEF JobChanges
<1>22. CASE Suspend BY <1>22 DEF Suspend
<1>23. CASE RunEnds BY <1>23 DEF RunEnds
<1>24. ASSUME NEW announced \in BOOLEAN, Resume(announced) PROVE FlagsTyped'
  <2>1. {mdns', silent', lateJob'} \subseteq BOOLEAN
    BY <1>24 DEF Resume
  <2>2. UNCHANGED <<started, pause, ip, configured, http, fallbackPending, retryNeeded,
                    restartPending, radio, abandoned, overlapped>>
    BY <1>24 DEF Resume
  <2>3. QED BY <2>1, <2>2
<1>25. CASE ConfigureCommand BY <1>25 DEF ConfigureCommand, Command
<1>26. CASE UNCHANGED vars BY <1>26 DEF vars
<1> QED
  BY <1>1, <1>2, <1>3, <1>4, <1>5, <1>6, <1>7, <1>8, <1>9, <1>10, <1>11, <1>12, <1>13, <1>14,
     <1>15, <1>16, <1>17, <1>18, <1>19, <1>20, <1>21, <1>22, <1>23, <1>24, <1>25, <1>26
  DEF Next, StartModeStep, Console, EventLoop, FallbackStep, RestarterStep, ExecutionStep,
      Callers

\* Callers, tasks, link and job go only where they have a place.
LEMMA PlaceTypes ==
  ASSUME PlacesTyped, [Next]_vars PROVE PlacesTyped'
<1> USE DEF PlacesTyped, Places, StartMode, Modes, Goto, Return, Connected, restartVars,
            jobVars
<1>1. ASSUME NEW c \in Callers, Enter(c) PROVE PlacesTyped'
  BY <1>1 DEF Enter, driverVars
<1>2. ASSUME NEW c \in Callers, HttpStop(c) PROVE PlacesTyped'
  BY <1>2 DEF HttpStop, driverVars
<1>3. ASSUME NEW c \in Callers, WifiStop(c) PROVE PlacesTyped'
  BY <1>3 DEF WifiStop
<1>4. ASSUME NEW c \in Callers, NEW ok \in BOOLEAN, SetMode(c, ok) PROVE PlacesTyped'
  BY <1>4 DEF SetMode
<1>5. ASSUME NEW c \in Callers, NEW ok \in BOOLEAN, WifiStart(c, ok) PROVE PlacesTyped'
  BY <1>5 DEF WifiStart
<1>6. ASSUME NEW c \in Callers, NEW served \in BOOLEAN, NEW announced \in BOOLEAN,
             HttpStart(c, served, announced)
      PROVE  PlacesTyped'
  BY <1>6 DEF HttpStart, driverVars
<1>7. ASSUME NEW m \in {"STA", "AP"}, StartCommand(m) PROVE PlacesTyped'
  BY <1>7 DEF StartCommand, driverVars, Callers
<1>8. CASE StopCommand BY <1>8 DEF StopCommand, driverVars, Callers
<1>9. CASE ForgetCommand BY <1>9 DEF ForgetCommand, callerVars, driverVars, Callers
<1>10. ASSUME NEW ok \in BOOLEAN, Started(ok) PROVE PlacesTyped'
  BY <1>10 DEF Started, callerVars
<1>11. ASSUME NEW ok \in BOOLEAN, Disconnected(ok) PROVE PlacesTyped'
  BY <1>11 DEF Disconnected, ScheduleFallback, Callers
<1>12. ASSUME NEW ok \in BOOLEAN, GotIp(ok) PROVE PlacesTyped'
  BY <1>12 DEF GotIp, callerVars
<1>13. CASE FallbackBegin BY <1>13 DEF FallbackBegin, driverVars, Callers
<1>14. ASSUME NEW ok \in BOOLEAN, FallbackRetry(ok) PROVE PlacesTyped'
  BY <1>14 DEF FallbackRetry, Callers
<1>15. ASSUME NEW ok \in BOOLEAN, FallbackFinish(ok) PROVE PlacesTyped'
  BY <1>15 DEF FallbackFinish, driverVars, Callers
<1>16. CASE \E up \in BOOLEAN : AttemptEnds(up) BY <1>16 DEF AttemptEnds, callerVars
<1>17. CASE LinkLost BY <1>17 DEF LinkLost, callerVars
<1>18. CASE Aside
  <2>1. UNCHANGED <<pc, target, link>>
    BY <1>18, AsideFrame DEF AsideKept, callerVars, driverVars
  <2>2. /\ restarter' \in {"none", "stop", "start", "clear"}
        /\ job' \in {"none", "ready", "starting", "running", "ending"}
    BY <1>18 DEF Aside, RestarterStep, RestartStop, RestartStart, RestartClear, JobChanges,
       ExecutionStep, Suspend, RunEnds, Resume, ConfigureCommand, vars
  <2>3. QED BY <2>1, <2>2
<1> QED
  BY <1>1, <1>2, <1>3, <1>4, <1>5, <1>6, <1>7, <1>8, <1>9, <1>10, <1>11, <1>12, <1>13, <1>14,
     <1>15, <1>16, <1>17, <1>18
  DEF Next, StartModeStep, Console, EventLoop, FallbackStep, Aside, Callers

\* Attempts, events and the bounded counts keep their ranges.
LEMMA CounterTypes ==
  ASSUME PlacesTyped, CountersTyped, [Next]_vars PROVE CountersTyped'
<1> Retries \in Nat \ {0} /\ MaxCommands \in Nat /\ MaxJobs \in Nat /\ MaxLosses \in Nat
  BY BoundsAssumption
<1> events \in Seq(Events) BY DEF CountersTyped
<1> /\ "DISCONNECTED" \in Events /\ "START" \in Events /\ "GOT_IP" \in Events
  BY DEF Events
<1> USE DEF CountersTyped, PlacesTyped, Modes, modeVars, jobVars, driverVars
<1>1. ASSUME NEW c \in Callers, Enter(c) PROVE CountersTyped'
  BY <1>1 DEF Enter
<1>2. ASSUME NEW c \in Callers, HttpStop(c) PROVE CountersTyped'
  BY <1>2 DEF HttpStop
<1>3. ASSUME NEW c \in Callers, WifiStop(c) PROVE CountersTyped'
  <2> events \o LostEvents \in Seq(Events) BY LostEffect
  <2>1. events' \in Seq(Events) BY <1>3 DEF WifiStop
  <2>2. QED BY <1>3, <2>1 DEF WifiStop
<1>4. ASSUME NEW c \in Callers, NEW ok \in BOOLEAN, SetMode(c, ok) PROVE CountersTyped'
  <2> events \o LostEvents \in Seq(Events) BY LostEffect
  <2>1. events' \in Seq(Events) BY <1>4 DEF SetMode
  <2>2. QED BY <1>4, <2>1 DEF SetMode
<1>5. ASSUME NEW c \in Callers, NEW ok \in BOOLEAN, WifiStart(c, ok) PROVE CountersTyped'
  <2>1. events' \in Seq(Events) BY <1>5 DEF WifiStart
  <2>2. QED BY <1>5, <2>1 DEF WifiStart
<1>6. ASSUME NEW c \in Callers, NEW served \in BOOLEAN, NEW announced \in BOOLEAN,
             HttpStart(c, served, announced)
      PROVE  CountersTyped'
  BY <1>6 DEF HttpStart
<1>7. CASE \E m \in {"STA", "AP"} : StartCommand(m)
  BY <1>7 DEF StartCommand, Command
<1>8. CASE StopCommand BY <1>8 DEF StopCommand, Command
<1>9. CASE ForgetCommand BY <1>9 DEF ForgetCommand, Command
<1>10. ASSUME NEW ok \in BOOLEAN, Started(ok) PROVE CountersTyped'
  <2>1. events' \in Seq(Events) BY <1>10, TakeEffect DEF Started
  <2>2. QED BY <1>10, <2>1 DEF Started
<1>11. ASSUME NEW ok \in BOOLEAN, Disconnected(ok) PROVE CountersTyped'
  <2>1. events' \in Seq(Events) BY <1>11, TakeEffect DEF Disconnected
  <2>2. QED BY <1>11, <2>1 DEF Disconnected
<1>12. ASSUME NEW ok \in BOOLEAN, GotIp(ok) PROVE CountersTyped'
  <2>1. events' \in Seq(Events) BY <1>12, TakeEffect DEF GotIp
  <2>2. QED BY <1>12, <2>1 DEF GotIp
<1>13. CASE FallbackBegin BY <1>13 DEF FallbackBegin
<1>14. ASSUME NEW ok \in BOOLEAN, FallbackRetry(ok) PROVE CountersTyped'
  BY <1>14 DEF FallbackRetry
<1>15. ASSUME NEW ok \in BOOLEAN, FallbackFinish(ok) PROVE CountersTyped'
  BY <1>15 DEF FallbackFinish
<1>16. CASE \E up \in BOOLEAN : AttemptEnds(up)
  <2>1. events' \in Seq(Events) BY <1>16 DEF AttemptEnds
  <2>2. QED BY <1>16, <2>1 DEF AttemptEnds
<1>17. CASE LinkLost
  <2>1. events' \in Seq(Events) BY <1>17 DEF LinkLost
  <2>2. QED BY <1>17, <2>1 DEF LinkLost
<1>18. CASE Aside
  <2>1. UNCHANGED <<mode, attempts, events, losses>> BY <1>18, AsideFrame DEF AsideKept
  <2>2. CASE ConfigureCommand
    BY <1>18, <2>1, <2>2 DEF ConfigureCommand, Command
  <2>3. CASE JobChanges BY <1>18, <2>1, <2>3 DEF JobChanges
  <2>4. ASSUME ~ConfigureCommand, ~JobChanges PROVE commands' = commands /\ jobs' = jobs
    BY <1>18, <2>4 DEF Aside, RestarterStep, RestartStop, RestartStart, RestartClear,
       ExecutionStep, Suspend, RunEnds, Resume, vars
  <2>5. QED BY <2>1, <2>2, <2>3, <2>4
<1> QED
  BY <1>1, <1>2, <1>3, <1>4, <1>5, <1>6, <1>7, <1>8, <1>9, <1>10, <1>11, <1>12, <1>13, <1>14,
     <1>15, <1>16, <1>17, <1>18
  DEF Next, StartModeStep, Console, EventLoop, FallbackStep, Aside, Callers

-----------------------------------------------------------------------------
(* Who is at work *)

\* A pending flag goes up and down with its task.
LEMMA PendingStep ==
  ASSUME TypeOK, PendingTells, [Next]_vars PROVE PendingTells'
<1> /\ pc \in [Callers -> Places] /\ target \in [Callers -> Modes]
    /\ "console" \in Callers /\ "fallback" \in Callers /\ "console" # "fallback"
  BY DEF TypeOK, Places, Callers
<1> USE DEF PendingTells, StartMode, restartVars, modeVars, callerVars, fallbackVars,
            driverVars, Goto, Return
<1>1. ASSUME NEW c \in Callers, Enter(c) PROVE PendingTells'
  BY <1>1 DEF Enter
<1>2. ASSUME NEW c \in Callers, HttpStop(c) PROVE PendingTells'
  BY <1>2 DEF HttpStop
<1>3. ASSUME NEW c \in Callers, WifiStop(c) PROVE PendingTells'
  BY <1>3 DEF WifiStop
<1>4. ASSUME NEW c \in Callers, NEW ok \in BOOLEAN, SetMode(c, ok) PROVE PendingTells'
  BY <1>4 DEF SetMode
<1>5. ASSUME NEW c \in Callers, NEW ok \in BOOLEAN, WifiStart(c, ok) PROVE PendingTells'
  BY <1>5 DEF WifiStart
<1>6. ASSUME NEW c \in Callers, NEW served \in BOOLEAN, NEW announced \in BOOLEAN,
             HttpStart(c, served, announced)
      PROVE  PendingTells'
  BY <1>6 DEF HttpStart
<1>7. ASSUME NEW m \in {"STA", "AP"}, StartCommand(m) PROVE PendingTells'
  BY <1>7 DEF StartCommand, Command
<1>8. CASE StopCommand
  BY <1>8 DEF StopCommand, Command
<1>9. CASE ForgetCommand
  BY <1>9 DEF ForgetCommand, Command
<1>10. ASSUME NEW ok \in BOOLEAN, Started(ok) PROVE PendingTells'
  BY <1>10 DEF Started
<1>11. ASSUME NEW ok \in BOOLEAN, Disconnected(ok) PROVE PendingTells'
  BY <1>11 DEF Disconnected, ScheduleFallback
<1>12. ASSUME NEW ok \in BOOLEAN, GotIp(ok) PROVE PendingTells'
  BY <1>12 DEF GotIp
<1>13. CASE FallbackBegin
  BY <1>13 DEF FallbackBegin
<1>14. ASSUME NEW ok \in BOOLEAN, FallbackRetry(ok) PROVE PendingTells'
  BY <1>14 DEF FallbackRetry
<1>15. ASSUME NEW ok \in BOOLEAN, FallbackFinish(ok) PROVE PendingTells'
  BY <1>15 DEF FallbackFinish
<1>16. ASSUME NEW up \in BOOLEAN, AttemptEnds(up) PROVE PendingTells'
  BY <1>16 DEF AttemptEnds
<1>17. CASE LinkLost
  BY <1>17 DEF LinkLost
<1>18. CASE Aside
  <2>1. /\ fallbackPending' <=> pc'["fallback"] # "none"
        /\ pc'["fallback"] = "refused" => retryNeeded'
    BY <1>18, AsideFrame DEF AsideKept
  <2>2. restartPending' <=> restarter' # "none"
    <3>1. CASE RestarterStep
      BY <1>18, <3>1 DEF RestarterStep, RestartStop, RestartStart, RestartClear
    <3>2. CASE ~RestarterStep
      BY <1>18, <3>2 DEF Aside, JobChanges, ExecutionStep, Suspend, RunEnds, Resume,
         ConfigureCommand, Command, vars
    <3>3. QED BY <3>1, <3>2
  <2>3. QED BY <2>1, <2>2
<1> QED
  BY <1>1, <1>2, <1>3, <1>4, <1>5, <1>6, <1>7, <1>8, <1>9, <1>10, <1>11, <1>12, <1>13, <1>14,
     <1>15, <1>16, <1>17, <1>18
  DEF Next, StartModeStep, Console, EventLoop, FallbackStep, Aside, Callers

\* Nobody changes the target of a mode change under way.
LEMMA TargetStep ==
  ASSUME TypeOK, TargetKnown, [Next]_vars PROVE TargetKnown'
<1> /\ pc \in [Callers -> Places] /\ target \in [Callers -> Modes]
    /\ "console" \in Callers /\ "fallback" \in Callers /\ "console" # "fallback"
  BY DEF TypeOK, Places, Callers
<1> USE DEF TargetKnown, StartMode, modeVars, callerVars, fallbackVars, driverVars, Goto,
            Return
<1>1. ASSUME NEW c \in Callers, Enter(c) PROVE TargetKnown'
  BY <1>1 DEF Enter
<1>2. ASSUME NEW c \in Callers, HttpStop(c) PROVE TargetKnown'
  BY <1>2 DEF HttpStop
<1>3. ASSUME NEW c \in Callers, WifiStop(c) PROVE TargetKnown'
  BY <1>3 DEF WifiStop
<1>4. ASSUME NEW c \in Callers, NEW ok \in BOOLEAN, SetMode(c, ok) PROVE TargetKnown'
  BY <1>4 DEF SetMode
<1>5. ASSUME NEW c \in Callers, NEW ok \in BOOLEAN, WifiStart(c, ok) PROVE TargetKnown'
  BY <1>5 DEF WifiStart
<1>6. ASSUME NEW c \in Callers, NEW served \in BOOLEAN, NEW announced \in BOOLEAN,
             HttpStart(c, served, announced)
      PROVE  TargetKnown'
  BY <1>6 DEF HttpStart
<1>7. ASSUME NEW m \in {"STA", "AP"}, StartCommand(m) PROVE TargetKnown'
  BY <1>7 DEF StartCommand, Command
<1>8. CASE StopCommand
  BY <1>8 DEF StopCommand, Command
<1>9. CASE ForgetCommand
  BY <1>9 DEF ForgetCommand, Command
<1>10. ASSUME NEW ok \in BOOLEAN, Started(ok) PROVE TargetKnown'
  BY <1>10 DEF Started
<1>11. ASSUME NEW ok \in BOOLEAN, Disconnected(ok) PROVE TargetKnown'
  BY <1>11 DEF Disconnected, ScheduleFallback
<1>12. ASSUME NEW ok \in BOOLEAN, GotIp(ok) PROVE TargetKnown'
  BY <1>12 DEF GotIp
<1>13. CASE FallbackBegin
  BY <1>13 DEF FallbackBegin
<1>14. ASSUME NEW ok \in BOOLEAN, FallbackRetry(ok) PROVE TargetKnown'
  BY <1>14 DEF FallbackRetry
<1>15. ASSUME NEW ok \in BOOLEAN, FallbackFinish(ok) PROVE TargetKnown'
  BY <1>15 DEF FallbackFinish
<1>16. ASSUME NEW up \in BOOLEAN, AttemptEnds(up) PROVE TargetKnown'
  BY <1>16 DEF AttemptEnds
<1>17. CASE LinkLost
  BY <1>17 DEF LinkLost
<1>18. CASE Aside
  BY <1>18, AsideFrame DEF AsideKept
<1> QED
  BY <1>1, <1>2, <1>3, <1>4, <1>5, <1>6, <1>7, <1>8, <1>9, <1>10, <1>11, <1>12, <1>13, <1>14,
     <1>15, <1>16, <1>17, <1>18
  DEF Next, StartModeStep, Console, EventLoop, FallbackStep, Aside, Callers

\* Whoever set the pause, or another caller behind it, ends it.
LEMMA PauseStep ==
  ASSUME TypeOK, PendingTells, PauseOwned, [Next]_vars PROVE PauseOwned'
<1> /\ pc \in [Callers -> Places] /\ target \in [Callers -> Modes]
    /\ "console" \in Callers /\ "fallback" \in Callers /\ "console" # "fallback"
  BY DEF TypeOK, Places, Callers
<1> USE DEF PendingTells, PauseOwned, Pausing, StartMode, modeVars, callerVars, fallbackVars,
            driverVars, Goto, Return
<1>1. ASSUME NEW c \in Callers, Enter(c) PROVE PauseOwned'
  BY <1>1 DEF Enter
<1>2. ASSUME NEW c \in Callers, HttpStop(c) PROVE PauseOwned'
  BY <1>2 DEF HttpStop
<1>3. ASSUME NEW c \in Callers, WifiStop(c) PROVE PauseOwned'
  BY <1>3 DEF WifiStop
<1>4. ASSUME NEW c \in Callers, NEW ok \in BOOLEAN, SetMode(c, ok) PROVE PauseOwned'
  BY <1>4 DEF SetMode
<1>5. ASSUME NEW c \in Callers, NEW ok \in BOOLEAN, WifiStart(c, ok) PROVE PauseOwned'
  BY <1>5 DEF WifiStart
<1>6. ASSUME NEW c \in Callers, NEW served \in BOOLEAN, NEW announced \in BOOLEAN,
             HttpStart(c, served, announced)
      PROVE  PauseOwned'
  BY <1>6 DEF HttpStart
<1>7. ASSUME NEW m \in {"STA", "AP"}, StartCommand(m) PROVE PauseOwned'
  BY <1>7 DEF StartCommand, Command
<1>8. CASE StopCommand
  BY <1>8 DEF StopCommand, Command
<1>9. CASE ForgetCommand
  BY <1>9 DEF ForgetCommand, Command
<1>10. ASSUME NEW ok \in BOOLEAN, Started(ok) PROVE PauseOwned'
  BY <1>10 DEF Started
<1>11. ASSUME NEW ok \in BOOLEAN, Disconnected(ok) PROVE PauseOwned'
  BY <1>11 DEF Disconnected, ScheduleFallback
<1>12. ASSUME NEW ok \in BOOLEAN, GotIp(ok) PROVE PauseOwned'
  BY <1>12 DEF GotIp
<1>13. CASE FallbackBegin
  BY <1>13 DEF FallbackBegin
<1>14. ASSUME NEW ok \in BOOLEAN, FallbackRetry(ok) PROVE PauseOwned'
  BY <1>14 DEF FallbackRetry
<1>15. ASSUME NEW ok \in BOOLEAN, FallbackFinish(ok) PROVE PauseOwned'
  BY <1>15 DEF FallbackFinish
<1>16. ASSUME NEW up \in BOOLEAN, AttemptEnds(up) PROVE PauseOwned'
  BY <1>16 DEF AttemptEnds
<1>17. CASE LinkLost
  BY <1>17 DEF LinkLost
<1>18. CASE Aside
  BY <1>18, AsideFrame DEF AsideKept
<1> QED
  BY <1>1, <1>2, <1>3, <1>4, <1>5, <1>6, <1>7, <1>8, <1>9, <1>10, <1>11, <1>12, <1>13, <1>14,
     <1>15, <1>16, <1>17, <1>18
  DEF Next, StartModeStep, Console, EventLoop, FallbackStep, Aside, Callers

\* A mode change that begins beside another is on record.
LEMMA OneStep ==
  ASSUME TypeOK, PendingTells, OneAtATime, [Next]_vars PROVE OneAtATime'
<1> /\ pc \in [Callers -> Places] /\ target \in [Callers -> Modes]
    /\ "console" \in Callers /\ "fallback" \in Callers /\ "console" # "fallback"
  BY DEF TypeOK, Places, Callers
<1> USE DEF PendingTells, OneAtATime, Changing, StartMode, Another, modeVars, callerVars,
            fallbackVars, driverVars, Goto, Return
<1>1. ASSUME NEW c \in Callers, Enter(c) PROVE OneAtATime'
  BY <1>1 DEF Enter
<1>2. ASSUME NEW c \in Callers, HttpStop(c) PROVE OneAtATime'
  BY <1>2 DEF HttpStop
<1>3. ASSUME NEW c \in Callers, WifiStop(c) PROVE OneAtATime'
  BY <1>3 DEF WifiStop
<1>4. ASSUME NEW c \in Callers, NEW ok \in BOOLEAN, SetMode(c, ok) PROVE OneAtATime'
  BY <1>4 DEF SetMode
<1>5. ASSUME NEW c \in Callers, NEW ok \in BOOLEAN, WifiStart(c, ok) PROVE OneAtATime'
  BY <1>5 DEF WifiStart
<1>6. ASSUME NEW c \in Callers, NEW served \in BOOLEAN, NEW announced \in BOOLEAN,
             HttpStart(c, served, announced)
      PROVE  OneAtATime'
  BY <1>6 DEF HttpStart
<1>7. ASSUME NEW m \in {"STA", "AP"}, StartCommand(m) PROVE OneAtATime'
  BY <1>7 DEF StartCommand, Command
<1>8. CASE StopCommand
  BY <1>8 DEF StopCommand, Command
<1>9. CASE ForgetCommand
  BY <1>9 DEF ForgetCommand, Command
<1>10. ASSUME NEW ok \in BOOLEAN, Started(ok) PROVE OneAtATime'
  BY <1>10 DEF Started
<1>11. ASSUME NEW ok \in BOOLEAN, Disconnected(ok) PROVE OneAtATime'
  BY <1>11 DEF Disconnected, ScheduleFallback
<1>12. ASSUME NEW ok \in BOOLEAN, GotIp(ok) PROVE OneAtATime'
  BY <1>12 DEF GotIp
<1>13. CASE FallbackBegin
  BY <1>13 DEF FallbackBegin
<1>14. ASSUME NEW ok \in BOOLEAN, FallbackRetry(ok) PROVE OneAtATime'
  BY <1>14 DEF FallbackRetry
<1>15. ASSUME NEW ok \in BOOLEAN, FallbackFinish(ok) PROVE OneAtATime'
  BY <1>15 DEF FallbackFinish
<1>16. ASSUME NEW up \in BOOLEAN, AttemptEnds(up) PROVE OneAtATime'
  BY <1>16 DEF AttemptEnds
<1>17. CASE LinkLost
  BY <1>17 DEF LinkLost
<1>18. CASE Aside
  BY <1>18, AsideFrame DEF AsideKept
<1> QED
  BY <1>1, <1>2, <1>3, <1>4, <1>5, <1>6, <1>7, <1>8, <1>9, <1>10, <1>11, <1>12, <1>13, <1>14,
     <1>15, <1>16, <1>17, <1>18
  DEF Next, StartModeStep, Console, EventLoop, FallbackStep, Aside, Callers

\* Only a mode change turns the radio on and off.
LEMMA RadioStep ==
  ASSUME TypeOK, RadioKnown, [Next]_vars PROVE RadioKnown'
<1> /\ pc \in [Callers -> Places] /\ target \in [Callers -> Modes]
    /\ "console" \in Callers /\ "fallback" \in Callers /\ "console" # "fallback"
  BY DEF TypeOK, Places, Callers
<1> USE DEF RadioKnown, Connected, modeVars, callerVars, fallbackVars, driverVars, Goto, Return
<1>1. ASSUME NEW c \in Callers, Enter(c) PROVE RadioKnown'
  BY <1>1 DEF Enter
<1>2. ASSUME NEW c \in Callers, HttpStop(c) PROVE RadioKnown'
  BY <1>2 DEF HttpStop
<1>3. ASSUME NEW c \in Callers, WifiStop(c) PROVE RadioKnown'
  BY <1>3 DEF WifiStop
<1>4. ASSUME NEW c \in Callers, NEW ok \in BOOLEAN, SetMode(c, ok) PROVE RadioKnown'
  BY <1>4 DEF SetMode
<1>5. ASSUME NEW c \in Callers, NEW ok \in BOOLEAN, WifiStart(c, ok) PROVE RadioKnown'
  BY <1>5 DEF WifiStart
<1>6. ASSUME NEW c \in Callers, NEW served \in BOOLEAN, NEW announced \in BOOLEAN,
             HttpStart(c, served, announced)
      PROVE  RadioKnown'
  BY <1>6 DEF HttpStart
<1>7. ASSUME NEW m \in {"STA", "AP"}, StartCommand(m) PROVE RadioKnown'
  BY <1>7 DEF StartCommand, Command
<1>8. CASE StopCommand
  BY <1>8 DEF StopCommand, Command
<1>9. CASE ForgetCommand
  BY <1>9 DEF ForgetCommand, Command
<1>10. ASSUME NEW ok \in BOOLEAN, Started(ok) PROVE RadioKnown'
  BY <1>10 DEF Started
<1>11. ASSUME NEW ok \in BOOLEAN, Disconnected(ok) PROVE RadioKnown'
  BY <1>11 DEF Disconnected, ScheduleFallback
<1>12. ASSUME NEW ok \in BOOLEAN, GotIp(ok) PROVE RadioKnown'
  BY <1>12 DEF GotIp
<1>13. CASE FallbackBegin
  BY <1>13 DEF FallbackBegin
<1>14. ASSUME NEW ok \in BOOLEAN, FallbackRetry(ok) PROVE RadioKnown'
  BY <1>14 DEF FallbackRetry
<1>15. ASSUME NEW ok \in BOOLEAN, FallbackFinish(ok) PROVE RadioKnown'
  BY <1>15 DEF FallbackFinish
<1>16. ASSUME NEW up \in BOOLEAN, AttemptEnds(up) PROVE RadioKnown'
  BY <1>16 DEF AttemptEnds
<1>17. CASE LinkLost
  BY <1>17 DEF LinkLost
<1>18. CASE Aside
  BY <1>18, AsideFrame DEF AsideKept
<1> QED
  BY <1>1, <1>2, <1>3, <1>4, <1>5, <1>6, <1>7, <1>8, <1>9, <1>10, <1>11, <1>12, <1>13, <1>14,
     <1>15, <1>16, <1>17, <1>18
  DEF Next, StartModeStep, Console, EventLoop, FallbackStep, Aside, Callers

\* A mode change alone is not interfered with.
LEMMA ModeStep ==
  ASSUME TypeOK, PendingTells, TargetKnown, OneAtATime, RadioKnown, ModeKnown, [Next]_vars
  PROVE  ModeKnown'
<1> /\ pc \in [Callers -> Places] /\ target \in [Callers -> Modes]
    /\ "console" \in Callers /\ "fallback" \in Callers /\ "console" # "fallback"
  BY DEF TypeOK, Places, Callers
<1> started \in BOOLEAN /\ ip \in BOOLEAN /\ mode \in Modes BY DEF TypeOK
<1> USE DEF PendingTells, TargetKnown, RadioKnown, OneAtATime, ModeKnown, Stopping, Changing,
            StartMode, Modes, Another, modeVars, callerVars, fallbackVars, driverVars, Goto,
            Return
<1>1. ASSUME NEW c \in Callers, Enter(c) PROVE ModeKnown'
  BY <1>1 DEF Enter
<1>2. ASSUME NEW c \in Callers, HttpStop(c) PROVE ModeKnown'
  BY <1>2 DEF HttpStop
<1>3. ASSUME NEW c \in Callers, WifiStop(c) PROVE ModeKnown'
  BY <1>3 DEF WifiStop
<1>4. ASSUME NEW c \in Callers, NEW ok \in BOOLEAN, SetMode(c, ok) PROVE ModeKnown'
  <2>1. /\ pc[c] = "setMode" /\ mode' = (IF ok THEN target[c] ELSE "STOPPED")
        /\ pc' = [pc EXCEPT ![c] = pc'[c]] /\ (ok => pc'[c] = "wifiStart")
        /\ pc'[c] # "setMode" /\ (~ok => pc'[c] \notin StartMode)
        /\ UNCHANGED <<started, ip, target, overlapped>>
    BY <1>4 DEF SetMode
  <2>2. mode' = "STA" /\ ~started' => pc'["console"] = "wifiStart"
    BY <2>1 DEF Callers
  <2>3. ASSUME ~overlapped PROVE ~started /\ \A d \in Callers \ {c} : pc[d] \notin Changing
    BY <2>1, <2>3
  <2>4. QED BY <2>1, <2>2, <2>3
<1>5. ASSUME NEW c \in Callers, NEW ok \in BOOLEAN, WifiStart(c, ok) PROVE ModeKnown'
  BY <1>5 DEF WifiStart
<1>6. ASSUME NEW c \in Callers, NEW served \in BOOLEAN, NEW announced \in BOOLEAN,
             HttpStart(c, served, announced)
      PROVE  ModeKnown'
  BY <1>6 DEF HttpStart
<1>7. ASSUME NEW m \in {"STA", "AP"}, StartCommand(m) PROVE ModeKnown'
  BY <1>7 DEF StartCommand, Command
<1>8. CASE StopCommand
  BY <1>8 DEF StopCommand, Command
<1>9. CASE ForgetCommand
  BY <1>9 DEF ForgetCommand, Command
<1>10. ASSUME NEW ok \in BOOLEAN, Started(ok) PROVE ModeKnown'
  BY <1>10 DEF Started
<1>11. ASSUME NEW ok \in BOOLEAN, Disconnected(ok) PROVE ModeKnown'
  BY <1>11 DEF Disconnected, ScheduleFallback
<1>12. ASSUME NEW ok \in BOOLEAN, GotIp(ok) PROVE ModeKnown'
  BY <1>12 DEF GotIp
<1>13. CASE FallbackBegin
  BY <1>13 DEF FallbackBegin
<1>14. ASSUME NEW ok \in BOOLEAN, FallbackRetry(ok) PROVE ModeKnown'
  BY <1>14 DEF FallbackRetry
<1>15. ASSUME NEW ok \in BOOLEAN, FallbackFinish(ok) PROVE ModeKnown'
  BY <1>15 DEF FallbackFinish
<1>16. ASSUME NEW up \in BOOLEAN, AttemptEnds(up) PROVE ModeKnown'
  BY <1>16 DEF AttemptEnds
<1>17. CASE LinkLost
  BY <1>17 DEF LinkLost
<1>18. CASE Aside
  BY <1>18, AsideFrame DEF AsideKept
<1> QED
  BY <1>1, <1>2, <1>3, <1>4, <1>5, <1>6, <1>7, <1>8, <1>9, <1>10, <1>11, <1>12, <1>13, <1>14,
     <1>15, <1>16, <1>17, <1>18
  DEF Next, StartModeStep, Console, EventLoop, FallbackStep, Aside, Callers

\* While a job runs no mode change begins: Enter refuses, and so do the commands.
LEMMA QuietStep ==
  ASSUME TypeOK, PendingTells, PauseOwned, JobQuiet, [Next]_vars PROVE JobQuiet'
<1> /\ pc \in [Callers -> Places] /\ target \in [Callers -> Modes]
    /\ "console" \in Callers /\ "fallback" \in Callers /\ "console" # "fallback"
  BY DEF TypeOK, Places, Callers
<1> /\ job \in {"none", "ready", "starting", "running", "ending"}
    /\ lateJob \in BOOLEAN
  BY DEF TypeOK
<1> USE DEF PendingTells, PauseOwned, JobQuiet, Executing, Locked, MayStart, Pausing, Changing,
            StartMode, jobVars, modeVars, callerVars, fallbackVars, driverVars, Goto, Return
<1>1. ASSUME NEW c \in Callers, Enter(c) PROVE JobQuiet'
  BY <1>1 DEF Enter
<1>2. ASSUME NEW c \in Callers, HttpStop(c) PROVE JobQuiet'
  BY <1>2 DEF HttpStop
<1>3. ASSUME NEW c \in Callers, WifiStop(c) PROVE JobQuiet'
  BY <1>3 DEF WifiStop
<1>4. ASSUME NEW c \in Callers, NEW ok \in BOOLEAN, SetMode(c, ok) PROVE JobQuiet'
  BY <1>4 DEF SetMode
<1>5. ASSUME NEW c \in Callers, NEW ok \in BOOLEAN, WifiStart(c, ok) PROVE JobQuiet'
  BY <1>5 DEF WifiStart
<1>6. ASSUME NEW c \in Callers, NEW served \in BOOLEAN, NEW announced \in BOOLEAN,
             HttpStart(c, served, announced)
      PROVE  JobQuiet'
  BY <1>6 DEF HttpStart
<1>7. ASSUME NEW m \in {"STA", "AP"}, StartCommand(m) PROVE JobQuiet'
  BY <1>7 DEF StartCommand, Command
<1>8. CASE StopCommand
  BY <1>8 DEF StopCommand, Command
<1>9. CASE ForgetCommand
  BY <1>9 DEF ForgetCommand, Command
<1>10. ASSUME NEW ok \in BOOLEAN, Started(ok) PROVE JobQuiet'
  BY <1>10 DEF Started
<1>11. ASSUME NEW ok \in BOOLEAN, Disconnected(ok) PROVE JobQuiet'
  BY <1>11 DEF Disconnected, ScheduleFallback
<1>12. ASSUME NEW ok \in BOOLEAN, GotIp(ok) PROVE JobQuiet'
  BY <1>12 DEF GotIp
<1>13. CASE FallbackBegin
  BY <1>13 DEF FallbackBegin
<1>14. ASSUME NEW ok \in BOOLEAN, FallbackRetry(ok) PROVE JobQuiet'
  BY <1>14 DEF FallbackRetry
<1>15. ASSUME NEW ok \in BOOLEAN, FallbackFinish(ok) PROVE JobQuiet'
  BY <1>15 DEF FallbackFinish
<1>16. ASSUME NEW up \in BOOLEAN, AttemptEnds(up) PROVE JobQuiet'
  BY <1>16 DEF AttemptEnds
<1>17. CASE LinkLost
  BY <1>17 DEF LinkLost
<1>18. CASE Aside
  <2>1. UNCHANGED pc BY <1>18, AsideFrame DEF AsideKept, callerVars
  <2>2. CASE JobChanges BY <2>1, <2>2 DEF JobChanges
  <2>3. CASE Suspend BY <2>1, <2>3 DEF Suspend
  <2>4. CASE RunEnds BY <2>1, <2>4 DEF RunEnds
  <2>5. CASE \E announced \in BOOLEAN : Resume(announced) BY <2>1, <2>5 DEF Resume
  <2>6. CASE RestarterStep
    BY <2>1, <2>6 DEF RestarterStep, RestartStop, RestartStart, RestartClear
  <2>7. CASE ConfigureCommand BY <2>1, <2>7 DEF ConfigureCommand
  <2>8. CASE UNCHANGED vars BY <2>8 DEF vars
  <2>9. QED BY <1>18, <2>2, <2>3, <2>4, <2>5, <2>6, <2>7, <2>8 DEF Aside, ExecutionStep
<1> QED
  BY <1>1, <1>2, <1>3, <1>4, <1>5, <1>6, <1>7, <1>8, <1>9, <1>10, <1>11, <1>12, <1>13, <1>14,
     <1>15, <1>16, <1>17, <1>18
  DEF Next, StartModeStep, Console, EventLoop, FallbackStep, Aside, Callers

\* Without a mode change under way the mode stays.
LEMMA ModeKept ==
  ASSUME TypeOK, PauseOwned, JobQuiet, Executing, ~lateJob, [Next]_vars PROVE mode' = mode
<1> /\ pc \in [Callers -> Places] /\ target \in [Callers -> Modes]
    /\ "console" \in Callers /\ "fallback" \in Callers /\ "console" # "fallback"
  BY DEF TypeOK, Places, Callers
<1> USE DEF PauseOwned, JobQuiet, Executing, Locked, MayStart, Pausing, Changing, StartMode,
            modeVars
<1>1. ASSUME NEW c \in Callers, Enter(c) PROVE mode' = mode
  BY <1>1 DEF Enter
<1>2. ASSUME NEW c \in Callers, HttpStop(c) PROVE mode' = mode
  BY <1>2 DEF HttpStop
<1>3. ASSUME NEW c \in Callers, WifiStop(c) PROVE mode' = mode
  BY <1>3 DEF WifiStop
<1>4. ASSUME NEW c \in Callers, NEW ok \in BOOLEAN, SetMode(c, ok) PROVE mode' = mode
  BY <1>4 DEF SetMode
<1>5. ASSUME NEW c \in Callers, NEW ok \in BOOLEAN, WifiStart(c, ok) PROVE mode' = mode
  BY <1>5 DEF WifiStart
<1>6. ASSUME NEW c \in Callers, NEW served \in BOOLEAN, NEW announced \in BOOLEAN,
             HttpStart(c, served, announced)
      PROVE  mode' = mode
  BY <1>6 DEF HttpStart
<1>7. ASSUME NEW m \in {"STA", "AP"}, StartCommand(m) PROVE mode' = mode
  BY <1>7 DEF StartCommand, Command
<1>8. CASE StopCommand
  BY <1>8 DEF StopCommand, Command
<1>9. CASE ForgetCommand
  BY <1>9 DEF ForgetCommand, Command
<1>10. ASSUME NEW ok \in BOOLEAN, Started(ok) PROVE mode' = mode
  BY <1>10 DEF Started
<1>11. ASSUME NEW ok \in BOOLEAN, Disconnected(ok) PROVE mode' = mode
  BY <1>11 DEF Disconnected, ScheduleFallback
<1>12. ASSUME NEW ok \in BOOLEAN, GotIp(ok) PROVE mode' = mode
  BY <1>12 DEF GotIp
<1>13. CASE FallbackBegin
  BY <1>13 DEF FallbackBegin
<1>14. ASSUME NEW ok \in BOOLEAN, FallbackRetry(ok) PROVE mode' = mode
  BY <1>14 DEF FallbackRetry
<1>15. ASSUME NEW ok \in BOOLEAN, FallbackFinish(ok) PROVE mode' = mode
  BY <1>15 DEF FallbackFinish
<1>16. ASSUME NEW up \in BOOLEAN, AttemptEnds(up) PROVE mode' = mode
  BY <1>16 DEF AttemptEnds
<1>17. CASE LinkLost
  BY <1>17 DEF LinkLost
<1>18. CASE Aside
  BY <1>18, AsideFrame DEF AsideKept
<1> QED
  BY <1>1, <1>2, <1>3, <1>4, <1>5, <1>6, <1>7, <1>8, <1>9, <1>10, <1>11, <1>12, <1>13, <1>14,
     <1>15, <1>16, <1>17, <1>18
  DEF Next, StartModeStep, Console, EventLoop, FallbackStep, Aside, Callers

\* Every end and every beginning of a connection goes behind what waits.
LEMMA QueueStep ==
  ASSUME TypeOK, QueueKnown, [Next]_vars PROVE QueueKnown'
<1> /\ events \in Seq(Events) /\ link \in {"down", "trying", "up"}
    /\ {"START", "DISCONNECTED", "GOT_IP"} \subseteq Events
    /\ Modes = {"STOPPED", "AP", "STA"}
  BY DEF TypeOK, Events, Modes
<1> USE DEF QueueKnown
<1>1. ASSUME NEW c \in Callers, Enter(c) PROVE QueueKnown'
  <2>1. UNCHANGED <<link, events>> BY <1>1 DEF Enter, driverVars
  <2>2. QED BY <2>1 DEF Followed
<1>2. ASSUME NEW c \in Callers, HttpStop(c) PROVE QueueKnown'
  <2>1. UNCHANGED <<link, events>> BY <1>2 DEF HttpStop, driverVars
  <2>2. QED BY <2>1 DEF Followed
<1>3. ASSUME NEW c \in Callers, WifiStop(c) PROVE QueueKnown'
  <2>1. CASE link' = link /\ events' = events BY <2>1 DEF Followed
  <2>2. CASE link' = "down" /\ link # "down" /\ events' = Append(events, "DISCONNECTED")
    <3>1. Followed("GOT_IP", "DISCONNECTED")' BY <2>2, AppendEffect
    <3>2. QED BY <2>2, <3>1
  <2>3. QED BY <1>3, <2>1, <2>2, LostEffect DEF WifiStop
<1>4. ASSUME NEW c \in Callers, NEW ok \in BOOLEAN, SetMode(c, ok) PROVE QueueKnown'
  <2>1. CASE link' = link /\ events' = events BY <2>1 DEF Followed
  <2>2. CASE link' = "down" /\ link # "down" /\ events' = Append(events, "DISCONNECTED")
    <3>1. Followed("GOT_IP", "DISCONNECTED")' BY <2>2, AppendEffect
    <3>2. QED BY <2>2, <3>1
  <2>3. QED BY <1>4, <2>1, <2>2, LostEffect DEF SetMode
<1>5. ASSUME NEW c \in Callers, NEW ok \in BOOLEAN, WifiStart(c, ok) PROVE QueueKnown'
  <2>1. CASE UNCHANGED <<link, events>> BY <2>1 DEF Followed
  <2>2. CASE link' = link /\ events' = Append(events, "START") BY <2>2, AppendEffect
  <2>3. QED BY <1>5, <2>1, <2>2 DEF WifiStart
<1>6. ASSUME NEW c \in Callers, NEW served \in BOOLEAN, NEW announced \in BOOLEAN,
             HttpStart(c, served, announced)
      PROVE  QueueKnown'
  <2>1. UNCHANGED <<link, events>> BY <1>6 DEF HttpStart, driverVars
  <2>2. QED BY <2>1 DEF Followed
<1>7. ASSUME NEW m \in {"STA", "AP"}, StartCommand(m) PROVE QueueKnown'
  <2>1. UNCHANGED <<link, events>> BY <1>7 DEF StartCommand, driverVars
  <2>2. QED BY <2>1 DEF Followed
<1>8. CASE StopCommand
  <2>1. UNCHANGED <<link, events>> BY <1>8 DEF StopCommand, driverVars
  <2>2. QED BY <2>1 DEF Followed
<1>9. CASE ForgetCommand
  <2>1. UNCHANGED <<link, events>> BY <1>9 DEF ForgetCommand, driverVars
  <2>2. QED BY <2>1 DEF Followed
<1>10. ASSUME NEW ok \in BOOLEAN, Started(ok) PROVE QueueKnown'
  <2>1. \A a, b : Followed(a, b) => Followed(a, b)' BY <1>10, TakeEffect DEF Started
  <2>2. link' = "up" <=> link = "up" BY <1>10 DEF Started, Connected, driverVars
  <2>3. QED BY <2>1, <2>2
<1>11. ASSUME NEW ok \in BOOLEAN, Disconnected(ok) PROVE QueueKnown'
  <2>1. \A a, b : Followed(a, b) => Followed(a, b)' BY <1>11, TakeEffect DEF Disconnected
  <2>2. link' = "up" <=> link = "up" BY <1>11 DEF Disconnected, Connected, driverVars
  <2>3. QED BY <2>1, <2>2
<1>12. ASSUME NEW ok \in BOOLEAN, GotIp(ok) PROVE QueueKnown'
  <2>1. \A a, b : Followed(a, b) => Followed(a, b)' BY <1>12, TakeEffect DEF GotIp
  <2>2. link' = "up" <=> link = "up" BY <1>12 DEF GotIp, Connected, driverVars
  <2>3. QED BY <2>1, <2>2
<1>13. CASE FallbackBegin
  <2>1. UNCHANGED <<link, events>> BY <1>13 DEF FallbackBegin, driverVars
  <2>2. QED BY <2>1 DEF Followed
<1>14. ASSUME NEW ok \in BOOLEAN, FallbackRetry(ok) PROVE QueueKnown'
  <2>1. UNCHANGED events /\ (link' = "up" <=> link = "up")
    BY <1>14 DEF FallbackRetry, Connected
  <2>2. QED BY <2>1 DEF Followed
<1>15. ASSUME NEW ok \in BOOLEAN, FallbackFinish(ok) PROVE QueueKnown'
  <2>1. UNCHANGED <<link, events>> BY <1>15 DEF FallbackFinish, driverVars
  <2>2. QED BY <2>1 DEF Followed
<1>16. ASSUME NEW up \in BOOLEAN, AttemptEnds(up) PROVE QueueKnown'
  <2>1. CASE link' = "up" /\ events' = Append(events, "GOT_IP")
    BY <2>1, AppendEffect
  <2>2. CASE link' = "down" /\ events' = Append(events, "DISCONNECTED")
    BY <2>2, AppendEffect
  <2>3. QED BY <1>16, <2>1, <2>2 DEF AttemptEnds
<1>17. CASE LinkLost
  <2>1. link' = "down" /\ events' = Append(events, "DISCONNECTED") BY <1>17 DEF LinkLost
  <2>2. QED BY <2>1, AppendEffect
<1>18. CASE Aside
  <2>1. UNCHANGED <<link, events>> BY <1>18, AsideFrame DEF AsideKept, driverVars
  <2>2. QED BY <2>1 DEF Followed
<1> QED
  BY <1>1, <1>2, <1>3, <1>4, <1>5, <1>6, <1>7, <1>8, <1>9, <1>10, <1>11, <1>12, <1>13, <1>14,
     <1>15, <1>16, <1>17, <1>18
  DEF Next, StartModeStep, Console, EventLoop, FallbackStep, Aside, Callers

-----------------------------------------------------------------------------
(* The network *)

\* A caller moves up to a mode change, or away from one, and leaves the network as it is.
Calm ==
  /\ UNCHANGED <<mode, started, ip, attempts, http, mdns, job, restarter, silent, link, events,
                 overlapped>>
  /\ Stopping => Stopping'
  /\ \A c \in Callers :
       pc[c] = "httpStart" => pc'[c] = "httpStart" /\ target'[c] = target[c]

\* Which steps those are.
LEMMA CalmSteps ==
  ASSUME TypeOK,
         \/ \E c \in Callers : Enter(c) /\ ~MayStart(c)
         \/ \E m \in {"STA", "AP"} : StartCommand(m)
         \/ ForgetCommand \/ FallbackBegin
         \/ \E ok \in BOOLEAN : FallbackFinish(ok)
  PROVE  Calm
<1> /\ pc \in [Callers -> Places] /\ target \in [Callers -> Modes]
    /\ "console" \in Callers /\ "fallback" \in Callers /\ "console" # "fallback"
  BY DEF TypeOK, Places, Callers
<1> USE DEF Calm, Stopping, modeVars, serverVars, callerVars, driverVars, restartVars, jobVars,
            Goto, Return
<1>1. ASSUME NEW c \in Callers, Enter(c), ~MayStart(c) PROVE Calm
  BY <1>1 DEF Enter
<1>2. ASSUME NEW m \in {"STA", "AP"}, StartCommand(m) PROVE Calm
  BY <1>2 DEF StartCommand, Command
<1>3. CASE ForgetCommand BY <1>3 DEF ForgetCommand, Command
<1>4. CASE FallbackBegin BY <1>4 DEF FallbackBegin
<1>5. ASSUME NEW ok \in BOOLEAN, FallbackFinish(ok) PROVE Calm
  BY <1>5 DEF FallbackFinish
<1>6. QED BY <1>1, <1>2, <1>3, <1>4, <1>5

\* What they leave alone is all that these two speak of.
LEMMA CalmKeeps ==
  ASSUME Calm PROVE (AddressKnown => AddressKnown') /\ (ServerKnown => ServerKnown')
<1> USE DEF Calm
<1>1. /\ Waits("GOT_IP")' <=> Waits("GOT_IP")
      /\ Waits("DISCONNECTED")' <=> Waits("DISCONNECTED")
  BY DEF Waits
<1>2. Served' <=> Served BY DEF Served, Executing
<1>3. AddressKnown => AddressKnown' BY <1>1 DEF AddressKnown
<1>4. ServerKnown => ServerKnown' BY <1>1, <1>2 DEF ServerKnown
<1>5. QED BY <1>3, <1>4

\* The fallback task stays where it is.
LEMMA CalmForConsole ==
  ASSUME Calm, RecoveryKnown, UNCHANGED abandoned, pc'["fallback"] = pc["fallback"]
  PROVE  RecoveryKnown'
<1>1. /\ Waits("START")' <=> Waits("START")
      /\ Waits("GOT_IP")' <=> Waits("GOT_IP")
  BY DEF Calm, Waits
<1>2. QED BY <1>1 DEF Calm, RecoveryKnown

\* Losses and addresses reach the service in the order they happened.
LEMMA AddressStep ==
  ASSUME TypeOK, PendingTells, TargetKnown, PauseOwned, OneAtATime, RadioKnown,
         ModeKnown, QueueKnown, AddressKnown, [Next]_vars PROVE AddressKnown'
<1> /\ pc \in [Callers -> Places] /\ target \in [Callers -> Modes]
    /\ "console" \in Callers /\ "fallback" \in Callers /\ "console" # "fallback"
  BY DEF TypeOK, Places, Callers
<1> /\ events \in Seq(Events) /\ link \in {"down", "trying", "up"} /\ attempts \in 0 .. Retries
    /\ mode \in Modes /\ started \in BOOLEAN /\ ip \in BOOLEAN /\ Retries \in Nat \ {0}
    /\ {"START", "DISCONNECTED", "GOT_IP"} \subseteq Events
    /\ Modes = {"STOPPED", "AP", "STA"}
  BY BoundsAssumption DEF TypeOK, Events, Modes
<1> USE DEF AddressKnown
<1>1. ASSUME NEW c \in Callers, Enter(c) PROVE AddressKnown'
  <2>1. CASE MayStart(c)
    BY <1>1, <2>1 DEF Enter, Stopping, Goto
  <2>2. CASE ~MayStart(c) BY <1>1, <2>2, CalmSteps, CalmKeeps
  <2>3. QED BY <2>1, <2>2
<1>2. ASSUME NEW c \in Callers, HttpStop(c) PROVE AddressKnown'
  BY <1>2 DEF HttpStop, Stopping, Goto
<1>3. ASSUME NEW c \in Callers, WifiStop(c) PROVE AddressKnown'
  <2>1. mode' = "STA" => overlapped'
    BY <1>3 DEF WifiStop, ModeKnown, OneAtATime, Changing, StartMode
  <2>2. QED BY <2>1
<1>4. ASSUME NEW c \in Callers, NEW ok \in BOOLEAN, SetMode(c, ok) PROVE AddressKnown'
  <2> SUFFICES ASSUME mode' = "STA", ~overlapped' PROVE ~ip' /\ link' # "up"
    OBVIOUS
  <2>1. ~ip' /\ ~started /\ ok /\ target[c] = "STA"
    BY <1>4 DEF SetMode, ModeKnown
  <2>2. QED BY <1>4, <2>1 DEF SetMode, RadioKnown
<1>5. ASSUME NEW c \in Callers, NEW ok \in BOOLEAN, WifiStart(c, ok) PROVE AddressKnown'
  <2> SUFFICES ASSUME mode' = "STA", ~overlapped', ~Stopping'
               PROVE  /\ link' = "up" => ip' \/ Waits("GOT_IP")'
                      /\ link' # "up" => ~ip' \/ Waits("DISCONNECTED")'
                      /\ ip' => attempts' = 0
    OBVIOUS
  <2>1. /\ UNCHANGED <<mode, ip, attempts, link, overlapped>>
        /\ events' = events \/ events' = Append(events, "START")
    BY <1>5 DEF WifiStart, ModeKnown
  <2>2. ~Stopping BY <1>5 DEF WifiStart, Stopping, Goto, Return
  <2>3. \A a : Waits(a) => Waits(a)' BY <2>1, AppendEffect DEF Waits
  <2>4. QED BY <2>1, <2>2, <2>3
<1>6. ASSUME NEW c \in Callers, NEW served \in BOOLEAN, NEW announced \in BOOLEAN,
             HttpStart(c, served, announced)
      PROVE  AddressKnown'
  <2>1. /\ UNCHANGED <<mode, ip, attempts, link, events, overlapped>>
        /\ Stopping => Stopping'
    BY <1>6 DEF HttpStart, Stopping, StartMode, modeVars, driverVars, callerVars, Goto, Return
  <2>2. QED BY <2>1 DEF Waits
<1>7. ASSUME NEW m \in {"STA", "AP"}, StartCommand(m) PROVE AddressKnown'
  BY <1>7, CalmSteps, CalmKeeps
<1>8. CASE StopCommand
  BY <1>8 DEF StopCommand
<1>9. CASE ForgetCommand
  BY <1>9, CalmSteps, CalmKeeps
<1>10. ASSUME NEW ok \in BOOLEAN, Started(ok) PROVE AddressKnown'
  <2>1. /\ UNCHANGED <<mode, ip, overlapped>>
        /\ Stopping => Stopping'
        /\ link' = "up" <=> link = "up"
        /\ attempts' \in {attempts, 0}
    BY <1>10 DEF Started, Stopping, callerVars, Connected
  <2>2. /\ Waits("GOT_IP") => Waits("GOT_IP")'
        /\ Waits("DISCONNECTED") => Waits("DISCONNECTED")'
    BY <1>10, TakeEffect DEF Started
  <2>3. QED BY <2>1, <2>2
<1>11. ASSUME NEW ok \in BOOLEAN, Disconnected(ok) PROVE AddressKnown'
  <2> SUFFICES ASSUME mode = "STA", ~overlapped, ~Stopping'
               PROVE  ~ip' /\ (link' = "up" => Waits("GOT_IP")')
    BY <1>11 DEF Disconnected
  <2>1. ~Stopping
    BY <1>11 DEF Disconnected, ScheduleFallback, Stopping, PendingTells
  <2>2. ~pause BY <2>1 DEF PauseOwned, Pausing, Stopping, ModeKnown
  <2>3. ~ip' /\ (link' = "up" => link = "up")
    BY <1>11, <2>2 DEF Disconnected, StationEvent, Connected
  <2>4. Followed("DISCONNECTED", "GOT_IP") => Waits("GOT_IP")'
    BY <1>11, TakeEffect DEF Disconnected
  <2>5. QED BY <2>3, <2>4 DEF QueueKnown
<1>12. ASSUME NEW ok \in BOOLEAN, GotIp(ok) PROVE AddressKnown'
  <2> SUFFICES ASSUME mode = "STA"
               PROVE  ip' /\ attempts' = 0 /\ (link' # "up" => Waits("DISCONNECTED")')
    BY <1>12 DEF GotIp
  <2>1. ip' /\ attempts' = 0 /\ link' = link BY <1>12 DEF GotIp
  <2>2. Followed("GOT_IP", "DISCONNECTED") => Waits("DISCONNECTED")'
    BY <1>12, TakeEffect DEF GotIp
  <2>3. QED BY <2>1, <2>2 DEF QueueKnown
<1>13. CASE FallbackBegin
  BY <1>13, CalmSteps, CalmKeeps
<1>14. ASSUME NEW ok \in BOOLEAN, FallbackRetry(ok) PROVE AddressKnown'
  <2>1. /\ UNCHANGED <<mode, ip, attempts, events, overlapped>>
        /\ link' = "up" <=> link = "up"
        /\ Stopping => Stopping'
    BY <1>14 DEF FallbackRetry, Stopping, Connected, Goto, modeVars
  <2>2. QED BY <2>1 DEF Waits
<1>15. ASSUME NEW ok \in BOOLEAN, FallbackFinish(ok) PROVE AddressKnown'
  BY <1>15, CalmSteps, CalmKeeps
<1>16. ASSUME NEW up \in BOOLEAN, AttemptEnds(up) PROVE AddressKnown'
  <2>1. UNCHANGED <<mode, ip, attempts, overlapped, pc>> /\ link = "trying"
    BY <1>16 DEF AttemptEnds, modeVars, callerVars
  <2>2. CASE link' = "up" /\ events' = Append(events, "GOT_IP")
    BY <2>1, <2>2, AppendEffect DEF Stopping
  <2>3. CASE link' = "down" /\ events' = Append(events, "DISCONNECTED")
    BY <2>1, <2>3, AppendEffect DEF Stopping
  <2>4. QED BY <1>16, <2>2, <2>3 DEF AttemptEnds
<1>17. CASE LinkLost
  <2>1. /\ UNCHANGED <<mode, ip, attempts, overlapped, pc>>
        /\ link' = "down" /\ events' = Append(events, "DISCONNECTED")
    BY <1>17 DEF LinkLost, modeVars, callerVars
  <2>2. Waits("DISCONNECTED")' BY <2>1, AppendEffect
  <2>3. QED BY <2>1, <2>2 DEF Stopping
<1>18. CASE Aside
  <2>1. UNCHANGED <<mode, ip, attempts, link, events, overlapped, pc>>
    BY <1>18, AsideFrame DEF AsideKept, callerVars, driverVars
  <2>2. QED BY <2>1 DEF Waits, Stopping
<1> QED
  BY <1>1, <1>2, <1>3, <1>4, <1>5, <1>6, <1>7, <1>8, <1>9, <1>10, <1>11, <1>12, <1>13, <1>14,
     <1>15, <1>16, <1>17, <1>18
  DEF Next, StartModeStep, Console, EventLoop, FallbackStep, Aside, Callers

\* No step forgets a station that is down.
LEMMA RecoveryStep ==
  ASSUME TypeOK, PendingTells, TargetKnown, PauseOwned, OneAtATime, RadioKnown,
         ModeKnown, AddressKnown, RecoveryKnown, [Next]_vars PROVE RecoveryKnown'
<1> /\ pc \in [Callers -> Places] /\ target \in [Callers -> Modes]
    /\ "console" \in Callers /\ "fallback" \in Callers /\ "console" # "fallback"
  BY DEF TypeOK, Places, Callers
<1> /\ events \in Seq(Events) /\ link \in {"down", "trying", "up"} /\ attempts \in 0 .. Retries
    /\ mode \in Modes /\ started \in BOOLEAN /\ ip \in BOOLEAN /\ Retries \in Nat \ {0}
    /\ pause \in BOOLEAN /\ abandoned \in BOOLEAN /\ overlapped \in BOOLEAN
    /\ {"START", "DISCONNECTED", "GOT_IP"} \subseteq Events
    /\ Modes = {"STOPPED", "AP", "STA"}
  BY BoundsAssumption DEF TypeOK, Events, Modes
<1>0. ASSUME mode = "STA", started, ~overlapped, ~Stopping PROVE ~pause
  BY <1>0 DEF PauseOwned, Pausing, Stopping, ModeKnown
<1> USE DEF RecoveryKnown
<1>1. ASSUME NEW c \in Callers, Enter(c) PROVE RecoveryKnown'
  <2>1. CASE MayStart(c)
    BY <1>1, <2>1 DEF Enter, Stopping, Goto
  <2>2. CASE ~MayStart(c) /\ c = "fallback"
    BY <1>1, <2>2 DEF Enter
  <2>3. CASE ~MayStart(c) /\ c = "console"
    BY <1>1, <2>3, CalmSteps, CalmForConsole DEF Enter, Goto, Return
  <2>4. QED BY <2>1, <2>2, <2>3 DEF Callers
<1>2. ASSUME NEW c \in Callers, HttpStop(c) PROVE RecoveryKnown'
  BY <1>2 DEF HttpStop, Stopping, Goto
<1>3. ASSUME NEW c \in Callers, WifiStop(c) PROVE RecoveryKnown'
  BY <1>3 DEF WifiStop
<1>4. ASSUME NEW c \in Callers, NEW ok \in BOOLEAN, SetMode(c, ok) PROVE RecoveryKnown'
  BY <1>4 DEF SetMode, ModeKnown
<1>5. ASSUME NEW c \in Callers, NEW ok \in BOOLEAN, WifiStart(c, ok) PROVE RecoveryKnown'
  <2>1. CASE events' = Append(events, "START") BY <2>1, AppendEffect
  <2>2. CASE mode' # "STA" \/ overlapped' BY <2>2
  <2>3. QED BY <1>5, <2>1, <2>2 DEF WifiStart, ModeKnown, RadioKnown
<1>6. ASSUME NEW c \in Callers, NEW served \in BOOLEAN, NEW announced \in BOOLEAN,
             HttpStart(c, served, announced)
      PROVE  RecoveryKnown'
  <2>1. CASE c = "console"
    <3>1. /\ UNCHANGED <<mode, started, ip, attempts, link, events, overlapped, abandoned>>
          /\ pc'["fallback"] = pc["fallback"]
          /\ Stopping => Stopping'
      BY <1>6, <2>1 DEF HttpStart, Stopping, modeVars, driverVars, Goto, Return
    <3>2. QED BY <3>1 DEF Waits
  <2>2. CASE c = "fallback"
    BY <1>6, <2>2 DEF HttpStart, ModeKnown, TargetKnown, modeVars
  <2>3. QED BY <2>1, <2>2 DEF Callers
<1>7. ASSUME NEW m \in {"STA", "AP"}, StartCommand(m) PROVE RecoveryKnown'
  BY <1>7, CalmSteps, CalmForConsole DEF StartCommand, Goto
<1>8. CASE StopCommand
  BY <1>8 DEF StopCommand
<1>9. CASE ForgetCommand
  BY <1>9, CalmSteps, CalmForConsole DEF ForgetCommand, callerVars, Goto
<1>10. ASSUME NEW ok \in BOOLEAN, Started(ok) PROVE RecoveryKnown'
  <2> SUFFICES ASSUME mode = "STA", started, ~overlapped, ~Stopping
               PROVE  link' # "down" \/ abandoned'
    BY <1>10 DEF Started, Stopping, callerVars
  <2>1. QED BY <1>10, <1>0 DEF Started, StationEvent, Connected, LeftDown, RadioKnown
<1>11. ASSUME NEW ok \in BOOLEAN, Disconnected(ok) PROVE RecoveryKnown'
  <2> SUFFICES ASSUME mode = "STA", started, ~overlapped, ~Stopping', ~abandoned',
                      link' = "down"
               PROVE  \/ pc'["fallback"] \in {"begin", "delay", "enter", "refused"}
                      \/ Waits("START")' \/ Waits("GOT_IP")'
    BY <1>11 DEF Disconnected
  <2>1. ~Stopping
    BY <1>11 DEF Disconnected, ScheduleFallback, Stopping, PendingTells
  <2>2. attempts >= Retries /\ ScheduleFallback(ok) /\ link = "down"
    <3>1. StationEvent /\ radio BY <1>0, <2>1 DEF StationEvent, RadioKnown
    <3>2. CASE attempts < Retries
      <4>1. link' = Connected(ok) /\ abandoned' = (abandoned \/ LeftDown(ok))
        BY <1>11, <3>1, <3>2 DEF Disconnected
      <4>2. QED BY <3>1, <4>1 DEF Connected, LeftDown
    <3>3. CASE ~(attempts < Retries)
      BY <1>11, <3>1, <3>3 DEF Disconnected
    <3>4. QED BY <3>2, <3>3
  <2>3. CASE ~fallbackPending
    BY <2>2, <2>3 DEF ScheduleFallback
  <2>4. CASE fallbackPending
    <3>1. UNCHANGED <<pc, abandoned>> BY <2>2, <2>4 DEF ScheduleFallback
    <3>2. ~ip BY <2>1, <2>2 DEF AddressKnown
    <3>3. \/ pc["fallback"] \in {"begin", "delay", "enter", "refused"}
          \/ Waits("START") \/ Waits("GOT_IP")
      BY <2>1, <2>2, <2>4, <3>1, <3>2 DEF RecoveryKnown, PendingTells
    <3>4. /\ Waits("START") => Waits("START")'
          /\ Waits("GOT_IP") => Waits("GOT_IP")'
      BY <1>11, TakeEffect DEF Disconnected
    <3>5. QED BY <3>1, <3>3, <3>4
  <2>5. QED BY <2>3, <2>4
<1>12. ASSUME NEW ok \in BOOLEAN, GotIp(ok) PROVE RecoveryKnown'
  BY <1>12 DEF GotIp
<1>13. CASE FallbackBegin
  <2> SUFFICES ASSUME mode = "STA", started, ~overlapped, ~Stopping'
               PROVE  pc'["fallback"] \in {"begin", "delay", "enter"}
    BY <1>13 DEF FallbackBegin, modeVars
  <2>1. ~Stopping BY <1>13 DEF FallbackBegin, Stopping, Goto
  <2>2. QED BY <1>13, <1>0, <2>1 DEF FallbackBegin, Goto
<1>14. ASSUME NEW ok \in BOOLEAN, FallbackRetry(ok) PROVE RecoveryKnown'
  <2> SUFFICES ASSUME mode = "STA", started, ~ip, ~abandoned', link' = "down"
               PROVE  pc'["fallback"] = "refused"
    BY <1>14 DEF FallbackRetry, modeVars
  <2>1. QED BY <1>14 DEF FallbackRetry, Connected, LeftDown, RadioKnown, Goto
<1>15. ASSUME NEW ok \in BOOLEAN, FallbackFinish(ok) PROVE RecoveryKnown'
  <2>1. /\ UNCHANGED <<mode, started, ip, attempts, link, events, overlapped>>
        /\ abandoned => abandoned'
        /\ pc["fallback"] \in {"refused", "finish"} /\ pc'["fallback"] \in {"begin", "none"}
        /\ Stopping => Stopping'
    BY <1>15 DEF FallbackFinish, Stopping, modeVars, driverVars, Goto
  <2>2. pc["fallback"] = "refused" => abandoned' \/ pc'["fallback"] = "begin"
    BY <1>15 DEF FallbackFinish, PendingTells, Goto
  <2>3. ASSUME NEW a, Waits(a) PROVE events # <<>>
    BY <2>3 DEF Waits
  <2>4. QED BY <2>1, <2>2, <2>3 DEF Waits
<1>16. ASSUME NEW up \in BOOLEAN, AttemptEnds(up) PROVE RecoveryKnown'
  <2>1. /\ UNCHANGED <<mode, started, ip, overlapped, pc>> /\ pc["fallback"] # "finish"
        /\ events' = Append(events, IF up THEN "GOT_IP" ELSE "DISCONNECTED")
    BY <1>16 DEF AttemptEnds, modeVars, callerVars
  <2>2. events' # <<>> BY <2>1, AppendEffect
  <2>3. ASSUME mode = "STA", started, ~overlapped, ~Stopping
        PROVE  pc["fallback"] \in {"none", "begin", "delay", "enter", "refused"}
    BY <2>1, <2>3 DEF ModeKnown, TargetKnown, Stopping, Places, StartMode
  <2>4. QED BY <2>1, <2>2, <2>3 DEF Stopping
<1>17. CASE LinkLost
  <2>1. /\ UNCHANGED <<mode, ip, overlapped, pc>>
        /\ link = "up" /\ events' = Append(events, "DISCONNECTED")
    BY <1>17 DEF LinkLost, modeVars, callerVars
  <2>2. Waits("GOT_IP") => Waits("GOT_IP")' BY <2>1, AppendEffect
  <2>3. QED BY <2>1, <2>2 DEF Stopping, AddressKnown
<1>18. CASE Aside
  <2>1. UNCHANGED <<mode, started, ip, attempts, link, events, abandoned, overlapped, pc>>
    BY <1>18, AsideFrame DEF AsideKept, callerVars, driverVars
  <2>2. QED BY <2>1 DEF Waits, Stopping
<1> QED
  BY <1>1, <1>2, <1>3, <1>4, <1>5, <1>6, <1>7, <1>8, <1>9, <1>10, <1>11, <1>12, <1>13, <1>14,
     <1>15, <1>16, <1>17, <1>18
  DEF Next, StartModeStep, Console, EventLoop, FallbackStep, Aside, Callers

\* No step forgets a server that is to come.
LEMMA ServerStep ==
  ASSUME TypeOK, PendingTells, TargetKnown, PauseOwned, OneAtATime, RadioKnown,
         ModeKnown, AddressKnown, ServerKnown, [Next]_vars PROVE ServerKnown'
<1> /\ pc \in [Callers -> Places] /\ target \in [Callers -> Modes]
    /\ "console" \in Callers /\ "fallback" \in Callers /\ "console" # "fallback"
  BY DEF TypeOK, Places, Callers
<1> /\ events \in Seq(Events) /\ link \in {"down", "trying", "up"}
    /\ restarter \in {"none", "stop", "start", "clear"}
    /\ job \in {"none", "ready", "starting", "running", "ending"}
    /\ mode \in Modes /\ started \in BOOLEAN /\ ip \in BOOLEAN /\ silent \in BOOLEAN
    /\ pause \in BOOLEAN /\ overlapped \in BOOLEAN /\ http \in BOOLEAN /\ mdns \in BOOLEAN
    /\ {"START", "DISCONNECTED", "GOT_IP"} \subseteq Events
    /\ Modes = {"STOPPED", "AP", "STA"}
  BY DEF TypeOK, Events, Modes
<1> USE DEF ServerKnown
<1>1. ASSUME NEW c \in Callers, Enter(c) PROVE ServerKnown'
  <2>1. CASE MayStart(c)
    BY <1>1, <2>1 DEF Enter, Stopping, Goto
  <2>2. CASE ~MayStart(c) BY <1>1, <2>2, CalmSteps, CalmKeeps
  <2>3. QED BY <2>1, <2>2
<1>2. ASSUME NEW c \in Callers, HttpStop(c) PROVE ServerKnown'
  BY <1>2 DEF HttpStop, Stopping, Goto
<1>3. ASSUME NEW c \in Callers, WifiStop(c) PROVE ServerKnown'
  BY <1>3 DEF WifiStop
<1>4. ASSUME NEW c \in Callers, NEW ok \in BOOLEAN, SetMode(c, ok) PROVE ServerKnown'
  BY <1>4 DEF SetMode, ModeKnown
<1>5. ASSUME NEW c \in Callers, NEW ok \in BOOLEAN, WifiStart(c, ok) PROVE ServerKnown'
  <2> SUFFICES ASSUME ok, ~overlapped, ~Stopping', ip'
               PROVE  \/ pc'[c] = "httpStart" /\ target'[c] = "AP"
                      \/ mode' = "STA" /\ Waits("DISCONNECTED")'
    BY <1>5 DEF WifiStart, ModeKnown
  <2>1. /\ mode' = mode /\ mode = target[c] /\ target' = target
        /\ pc' = [pc EXCEPT ![c] = "httpStart"]
        /\ link # "up" /\ ip' = (ip \/ target[c] = "AP")
        /\ events' = events \/ events' = Append(events, "START")
    BY <1>5 DEF WifiStart, ModeKnown, RadioKnown, Goto
  <2>2. ~Stopping BY <1>5, <2>1 DEF WifiStart, Stopping
  <2>3. Waits("DISCONNECTED") => Waits("DISCONNECTED")' BY <2>1, AppendEffect DEF Waits
  <2>4. CASE target[c] = "AP" BY <2>1, <2>4
  <2>5. CASE target[c] = "STA" BY <2>1, <2>2, <2>3, <2>5 DEF AddressKnown
  <2>6. target[c] # "STOPPED" BY <1>5 DEF WifiStart, TargetKnown
  <2>7. QED BY <2>4, <2>5, <2>6
<1>6. ASSUME NEW c \in Callers, NEW served \in BOOLEAN, NEW announced \in BOOLEAN,
             HttpStart(c, served, announced)
      PROVE  ServerKnown'
  <2> SUFFICES ASSUME started', ip', ~silent', ~overlapped', ~Stopping'
               PROVE  \/ Served' \/ restarter' \in {"stop", "start"}
                      \/ mode' = "STA" /\ Waits("DISCONNECTED")'
    OBVIOUS
  <2>1. CASE target[c] = "AP"
    BY <1>6, <2>1 DEF HttpStart, StartServer, Served
  <2>2. CASE target[c] # "AP"
    <3>1. /\ UNCHANGED <<mode, started, ip, job, restarter, events, overlapped>>
          /\ http => http'
          /\ mdns => mdns'
          /\ ~silent /\ ~Stopping
      BY <1>6, <2>2 DEF HttpStart, StartServer, Stopping, modeVars, driverVars, restartVars,
         jobVars, Goto, Return
    <3>2. ~ \E d \in Callers : pc[d] = "httpStart" /\ target[d] = "AP"
      BY <1>6, <2>2, <3>1 DEF HttpStart, OneAtATime, Changing, StartMode
    <3>3. Served => Served' BY <3>1 DEF Served, Executing
    <3>4. QED BY <3>1, <3>2, <3>3 DEF Waits
  <2>3. QED BY <2>1, <2>2
<1>7. ASSUME NEW m \in {"STA", "AP"}, StartCommand(m) PROVE ServerKnown'
  BY <1>7, CalmSteps, CalmKeeps
<1>8. CASE StopCommand
  BY <1>8 DEF StopCommand, Stopping, Goto
<1>9. CASE ForgetCommand
  BY <1>9, CalmSteps, CalmKeeps
<1>10. ASSUME NEW ok \in BOOLEAN, Started(ok) PROVE ServerKnown'
  <2>1. UNCHANGED <<mode, started, ip, http, mdns, job, restarter, silent,
                    overlapped, pc, target>>
    BY <1>10 DEF Started, serverVars, jobVars, restartVars, callerVars
  <2>2. Waits("DISCONNECTED") => Waits("DISCONNECTED")' BY <1>10, TakeEffect DEF Started
  <2>3. QED BY <2>1, <2>2 DEF Served, Executing, Stopping
<1>11. ASSUME NEW ok \in BOOLEAN, Disconnected(ok) PROVE ServerKnown'
  <2> SUFFICES ASSUME started, ip', ~silent, ~overlapped, ~Stopping'
               PROVE  \/ Served \/ restarter \in {"stop", "start"}
                      \/ \E c \in Callers : pc'[c] = "httpStart" /\ target[c] = "AP"
    BY <1>11 DEF Disconnected, serverVars, restartVars, jobVars, Served, Executing
  <2>1. /\ ~Stopping
        /\ \A c \in Callers : pc[c] = "httpStart" => pc'[c] = "httpStart"
    BY <1>11 DEF Disconnected, ScheduleFallback, Stopping, PendingTells
  <2>2. ip /\ (mode = "STA" => pause)
    BY <1>11 DEF Disconnected, StationEvent
  <2>3. mode # "STA"
    BY <2>1, <2>2 DEF PauseOwned, Pausing, Stopping, ModeKnown
  <2>4. QED BY <2>1, <2>2, <2>3
<1>12. ASSUME NEW ok \in BOOLEAN, GotIp(ok) PROVE ServerKnown'
  <2>1. UNCHANGED <<mode, started, http, mdns, job, overlapped, pc, target>>
    BY <1>12 DEF GotIp, serverVars, jobVars, callerVars
  <2>2. CASE mode = "STA"
    <3>1. CASE ~restartPending BY <1>12, <2>2, <3>1 DEF GotIp
    <3>2. CASE restartPending /\ restarter = "clear"
      BY <1>12, <2>1, <2>2, <3>2 DEF GotIp, Served
    <3>3. CASE restartPending /\ restarter # "clear"
      BY <1>12, <2>2, <3>3 DEF GotIp, PendingTells, restartVars
    <3>4. QED BY <3>1, <3>2, <3>3
  <2>3. CASE mode # "STA"
    <3>1. UNCHANGED <<ip, restarter, silent>> BY <1>12, <2>3 DEF GotIp, restartVars
    <3>2. QED BY <2>1, <2>3, <3>1 DEF Served, Executing, Stopping
  <2>4. QED BY <2>2, <2>3
<1>13. CASE FallbackBegin
  BY <1>13, CalmSteps, CalmKeeps
<1>14. ASSUME NEW ok \in BOOLEAN, FallbackRetry(ok) PROVE ServerKnown'
  <2>1. /\ UNCHANGED <<mode, started, ip, http, mdns, job, restarter, silent, events,
                     overlapped, target>>
        /\ \A c \in Callers : pc[c] = "httpStart" => pc'[c] = "httpStart"
        /\ Stopping => Stopping'
    BY <1>14 DEF FallbackRetry, Stopping, StartMode, modeVars, driverVars, serverVars,
       restartVars, jobVars, callerVars, Goto, Return
  <2>2. Served' <=> Served BY <2>1 DEF Served, Executing
  <2>3. QED BY <2>1, <2>2 DEF Waits
<1>15. ASSUME NEW ok \in BOOLEAN, FallbackFinish(ok) PROVE ServerKnown'
  BY <1>15, CalmSteps, CalmKeeps
<1>16. ASSUME NEW up \in BOOLEAN, AttemptEnds(up) PROVE ServerKnown'
  <2>1. UNCHANGED <<mode, started, ip, http, mdns, job, restarter, silent,
                    overlapped, pc, target>>
    BY <1>16 DEF AttemptEnds, modeVars, serverVars, jobVars, restartVars, callerVars
  <2>2. Waits("DISCONNECTED") => Waits("DISCONNECTED")' BY <1>16, AppendEffect DEF AttemptEnds
  <2>3. QED BY <2>1, <2>2 DEF Served, Executing, Stopping
<1>17. CASE LinkLost
  <2>1. UNCHANGED <<mode, started, ip, http, mdns, job, restarter, silent,
                    overlapped, pc, target>>
    BY <1>17 DEF LinkLost, modeVars, serverVars, jobVars, restartVars, callerVars
  <2>2. Waits("DISCONNECTED") => Waits("DISCONNECTED")' BY <1>17, AppendEffect DEF LinkLost
  <2>3. QED BY <2>1, <2>2 DEF Served, Executing, Stopping
<1>18. CASE Aside
  <2>1. /\ UNCHANGED <<mode, started, ip, events, overlapped, pc, target>>
        /\ Stopping' <=> Stopping
        /\ Waits("DISCONNECTED")' <=> Waits("DISCONNECTED")
    BY <1>18, AsideFrame DEF AsideKept, callerVars, driverVars, Waits, Stopping
  <2>2. CASE RestartStop BY <2>2 DEF RestartStop
  <2>3. ASSUME NEW served \in BOOLEAN, NEW announced \in BOOLEAN,
               RestartStart(served, announced)
        PROVE  ServerKnown'
    <3>1. CASE mode = "STA" /\ started /\ ip
      BY <2>3, <3>1 DEF RestartStart, StartServer, Served
    <3>2. CASE started /\ ip /\ mode = "AP"
      BY <2>3, <3>2 DEF RestartStart
    <3>3. CASE started /\ ip /\ mode = "STOPPED"
      BY <2>1, <3>3 DEF ModeKnown
    <3>4. QED BY <2>1, <3>1, <3>2, <3>3
  <2>4. CASE RestartClear
    <3>1. /\ UNCHANGED <<http, mdns, job, silent>> /\ restarter = "clear"
      BY <2>4 DEF RestartClear, serverVars, jobVars
    <3>2. QED BY <2>1, <3>1 DEF Served, Executing
  <2>5. CASE JobChanges
    <3>1. UNCHANGED <<http, mdns, restarter, silent>>
      BY <2>5 DEF JobChanges, serverVars, restartVars
    <3>2. Served => Served' BY <2>5, <3>1 DEF JobChanges, Served, Executing
    <3>3. QED BY <2>1, <3>1, <3>2
  <2>6. CASE Suspend
    <3>1. UNCHANGED <<http, restarter, silent>> BY <2>6 DEF Suspend, restartVars
    <3>2. Served => Served' BY <2>6, <3>1 DEF Suspend, Served, Executing
    <3>3. QED BY <2>1, <3>1, <3>2
  <2>7. CASE RunEnds
    <3>1. UNCHANGED <<http, mdns, restarter, silent>>
      BY <2>7 DEF RunEnds, serverVars, restartVars
    <3>2. Served => Served' BY <2>7, <3>1 DEF RunEnds, Served, Executing
    <3>3. QED BY <2>1, <3>1, <3>2
  <2>8. ASSUME NEW announced \in BOOLEAN, Resume(announced) PROVE ServerKnown'
    <3>1. UNCHANGED <<http, restarter>> BY <2>8 DEF Resume, restartVars
    <3>2. CASE ~mdns /\ ShouldAnnounce(http)
      <4>1. http' /\ mdns' = announced /\ silent' = ~announced
        BY <2>8, <3>1, <3>2 DEF Resume, ShouldAnnounce
      <4>2. QED BY <4>1 DEF Served
    <3>3. CASE ~(~mdns /\ ShouldAnnounce(http))
      <4>1. UNCHANGED <<mdns, silent>> BY <2>8, <3>3 DEF Resume
      <4>2. started /\ ip => (Served => Served')
        BY <3>1, <3>3, <4>1 DEF ShouldAnnounce, Served
      <4>3. QED BY <2>1, <3>1, <4>1, <4>2
    <3>4. QED BY <3>2, <3>3
  <2>9. CASE ConfigureCommand
    BY <2>1, <2>9 DEF ConfigureCommand, Served, Executing, serverVars, restartVars, jobVars
  <2>10. CASE UNCHANGED vars
    BY <2>1, <2>10 DEF vars, Served, Executing, serverVars, restartVars, jobVars
  <2>11. QED
    BY <1>18, <2>2, <2>3, <2>4, <2>5, <2>6, <2>7, <2>8, <2>9, <2>10
    DEF Aside, RestarterStep, ExecutionStep
<1> QED
  BY <1>1, <1>2, <1>3, <1>4, <1>5, <1>6, <1>7, <1>8, <1>9, <1>10, <1>11, <1>12, <1>13, <1>14,
     <1>15, <1>16, <1>17, <1>18
  DEF Next, StartModeStep, Console, EventLoop, FallbackStep, Aside, Callers

-----------------------------------------------------------------------------
(* The theorems *)

\* The invariant holds in every state, whatever the bounds.
THEOREM InvariantHolds == Spec => []IInv
<1>1. Init => IInv
  <2> SUFFICES ASSUME Init PROVE IInv
    OBVIOUS
  <2> USE DEF Init
  <2>1. TypeOK
    <3>1. FlagsTyped BY DEF FlagsTyped
    <3>2. PlacesTyped BY DEF PlacesTyped, Places, StartMode, Modes
    <3>3. CountersTyped BY BoundsAssumption DEF CountersTyped, Modes, Events
    <3>4. QED BY <3>1, <3>2, <3>3, Typed
  <2>2. PendingTells /\ TargetKnown BY DEF PendingTells, TargetKnown, Callers
  <2>3. PauseOwned /\ OneAtATime /\ JobQuiet
    BY DEF PauseOwned, OneAtATime, JobQuiet, Changing, Callers, Executing
  <2>4. RadioKnown /\ ModeKnown BY DEF RadioKnown, ModeKnown, Callers
  <2>5. QueueKnown BY DEF QueueKnown, Followed
  <2>6. AddressKnown /\ RecoveryKnown /\ ServerKnown
    BY DEF AddressKnown, RecoveryKnown, ServerKnown
  <2>7. QED BY <2>1, <2>2, <2>3, <2>4, <2>5, <2>6 DEF IInv
<1>2. IInv /\ [Next]_vars => IInv'
  <2> SUFFICES ASSUME IInv, [Next]_vars PROVE IInv'
    OBVIOUS
  <2> USE DEF IInv
  <2>1. TypeOK'
    <3>1. FlagsTyped' /\ PlacesTyped' /\ CountersTyped'
      BY Typed, FlagTypes, PlaceTypes, CounterTypes
    <3>2. QED
      BY <3>1 DEF TypeOK, FlagsTyped, PlacesTyped, CountersTyped, Places, Events
  <2>2. PendingTells' /\ TargetKnown' /\ PauseOwned' /\ OneAtATime'
    BY PendingStep, TargetStep, PauseStep, OneStep
  <2>3. RadioKnown' /\ ModeKnown' /\ JobQuiet'
    BY RadioStep, ModeStep, QuietStep
  <2>4. QueueKnown' /\ AddressKnown' BY QueueStep, AddressStep
  <2>5. RecoveryKnown' BY RecoveryStep
  <2>6. ServerKnown' BY ServerStep
  <2>7. QED BY <2>1, <2>2, <2>3, <2>4, <2>5, <2>6
<1>3. QED BY <1>1, <1>2, PTL DEF Spec

\* The variables keep their types: the attempts never pass STA_CONNECT_RETRIES, and a
\* caller is only where start_mode and its task have a place.
THEOREM TypeCorrect == Spec => []TypeOK
BY InvariantHolds, PTL DEF IInv

\* A station that has lost its address is never forgotten: whatever the order of events,
\* tasks, jobs and commands, something is under way that acts on it.
THEOREM RecoveryUnderWayHolds == Spec => []RecoveryUnderWay
<1>1. IInv => RecoveryUnderWay
  <2> SUFFICES ASSUME IInv, mode = "STA", started, ~ip, ~abandoned, ~overlapped,
                      link = "down", events = <<>>, ~fallbackPending
               PROVE  pc["console"] \in StartMode
    BY DEF RecoveryUnderWay
  <2>1. pc["fallback"] = "none" BY DEF IInv, PendingTells
  <2>2. ASSUME NEW a PROVE ~Waits(a) BY DEF Waits
  <2>3. Stopping BY <2>1, <2>2 DEF IInv, RecoveryKnown
  <2>4. QED BY <2>1, <2>3 DEF Stopping, Callers, StartMode
<1>2. QED BY <1>1, InvariantHolds, PTL

\* A board with an address has its server and its announcement, or the step that brings
\* them is still to come.
THEOREM OnlineServesHolds == Spec => []OnlineServes
<1>1. IInv => OnlineServes
  <2> SUFFICES ASSUME IInv, started, ip, ~silent, ~overlapped,
                      events = <<>>, ~restartPending,
                      \A c \in Callers : pc[c] \notin StartMode
               PROVE  http /\ (mdns \/ Executing \/ job = "ending")
    BY DEF OnlineServes
  <2>1. restarter = "none" BY DEF IInv, PendingTells
  <2>2. ~Waits("DISCONNECTED") BY DEF Waits
  <2>3. ~Stopping BY DEF Stopping, StartMode
  <2>4. Served BY <2>1, <2>2, <2>3 DEF IInv, ServerKnown, StartMode
  <2>5. QED BY <2>4 DEF Served
<1>2. QED BY <1>1, InvariantHolds, PTL

\* No step changes the mode under a job that no mode change had overtaken.
THEOREM JobKeepsModeHolds == Spec => JobKeepsMode
<1>1. IInv /\ [Next]_vars => (Executing /\ ~lateJob => mode' = mode)
  BY ModeKept DEF IInv
<1>2. IInv /\ [Next]_vars => [Executing /\ ~lateJob => mode' = mode]_vars
  BY <1>1
<1>3. QED BY <1>2, InvariantHolds, PTL DEF Spec, JobKeepsMode

==============================================================================
