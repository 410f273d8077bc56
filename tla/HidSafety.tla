------------------------------ MODULE HidSafety ------------------------------
(***************************************************************************)
(* The reconnect safety release of the BLE HID target (typx_ble_hid.c).      *)
(*                                                                           *)
(* Four kinds of thread share the record s_execution_safety and the word     *)
(* s_safety_task_generation under s_safety_lock:                             *)
(*   - the Bluetooth task, which sees the link rise and fall and runs        *)
(*     gap_callback when pairing or encryption completes ("gap");            *)
(*   - the HID event loop, which runs hid_callback for the CONNECT and        *)
(*     DISCONNECT events the Bluetooth task posted, later and in order;      *)
(*   - the HTTP server task, in the retry endpoint ("http");                 *)
(*   - the release tasks, one created for each scheduled release.            *)
(* Each critical section and each report is one step.                        *)
(***************************************************************************)
EXTENDS ExecutionSafety

CONSTANTS
  Tasks,            \* identities of release tasks that can exist at once
  MaxLinks,         \* bound: links the host establishes in a behaviour
  MaxAuths,         \* bound: authentication results on one link
  AllocationFails,  \* TRUE: xTaskCreate may return an error
  EventLoopLags,    \* TRUE: authentication may complete before hid_callback
                    \*       has handled the CONNECT event of the link
  Retries           \* TRUE: the operator uses the retry endpoint

ASSUME LinksAssumption == MaxLinks \in Nat /\ 2 * MaxLinks < GenLimit
ASSUME AuthsAssumption == MaxAuths \in Nat
ASSUME SwitchAssumption ==
  /\ AllocationFails \in BOOLEAN
  /\ EventLoopLags \in BOOLEAN
  /\ Retries \in BOOLEAN

VARIABLES
  safety,            \* s_execution_safety
  taskGeneration,    \* s_safety_task_generation
  runtimeConnected,  \* s_runtime.connected
  hidPc,             \* where hid_callback stands
  caller,            \* gap_callback and the retry endpoint
  task,              \* the release tasks
  ups, downs,        \* links established and lost, as the Bluetooth task sees
  connects,          \* CONNECT events hid_callback has entered into the record
  disconnects,       \* DISCONNECT events likewise
  advertising,       \* the board accepts a new link
  auths,             \* authentication results on the current link
  zeroed             \* history: zero reports the current link has accepted
                     \* since its latest authentication result

linkVars == <<ups, downs, advertising, auths>>
eventVars == <<connects, disconnects, hidPc, runtimeConnected>>
vars == <<safety, taskGeneration, caller, task, zeroed, linkVars, eventVars>>

Callers == {"gap", "http"}

TypeOK ==
  /\ safety \in Safety
  /\ taskGeneration \in Generation
  /\ runtimeConnected \in BOOLEAN
  /\ hidPc \in {"idle", "connectSafety", "disconnectRuntime"}
  /\ caller \in [Callers -> [pc : {"idle", "schedule", "create"},
                             generation : Generation]]
  /\ task \in [Tasks -> [pc : {"none", "delay", "sendKeyboard",
                               "sendConsumer", "complete", "exit"},
                         generation : Generation,
                         keyboard : BOOLEAN, consumer : BOOLEAN]]
  /\ ups \in Nat /\ downs \in Nat
  /\ connects \in Nat /\ disconnects \in Nat
  /\ advertising \in BOOLEAN
  /\ auths \in 0 .. MaxAuths
  /\ zeroed \in SUBSET {"keyboard", "consumer"}

LinkUp == ups = downs + 1
NoTask == [pc |-> "none", generation |-> 0, keyboard |-> FALSE, consumer |-> FALSE]

Init ==
  /\ safety = InitSafety
  /\ taskGeneration = 0
  /\ runtimeConnected = FALSE
  /\ hidPc = "idle"
  /\ caller = [c \in Callers |-> [pc |-> "idle", generation |-> 0]]
  /\ task = [t \in Tasks |-> NoTask]
  /\ ups = 0 /\ downs = 0 /\ connects = 0 /\ disconnects = 0
  /\ advertising = TRUE
  /\ auths = 0
  /\ zeroed = {}

-----------------------------------------------------------------------------
(* The Bluetooth task.  Its callbacks run one at a time. *)

Establish ==
  /\ advertising
  /\ ups = downs
  /\ ups < MaxLinks
  /\ caller["gap"].pc = "idle"
  /\ ups' = ups + 1
  /\ advertising' = FALSE
  /\ auths' = 0
  /\ zeroed' = {}
  /\ UNCHANGED <<safety, taskGeneration, caller, task, downs, eventVars>>

Lose ==
  /\ LinkUp
  /\ caller["gap"].pc = "idle"
  /\ downs' = downs + 1
  /\ UNCHANGED <<safety, taskGeneration, caller, task, zeroed, ups,
                 advertising, auths, eventVars>>

\* ESP_GAP_BLE_AUTH_CMPL_EVT: the critical section, then schedule on success.
AuthComplete(success) ==
  /\ LinkUp
  /\ EventLoopLags \/ connects = ups
  /\ auths < MaxAuths
  /\ caller["gap"].pc = "idle"
  /\ auths' = auths + 1
  /\ safety' = Authenticated(safety, success)
  /\ zeroed' = {}
  /\ caller' = IF success
               THEN [caller EXCEPT !["gap"] =
                       [pc |-> "schedule", generation |-> safety.generation]]
               ELSE caller
  /\ UNCHANGED <<taskGeneration, task, ups, downs, advertising, eventVars>>

-----------------------------------------------------------------------------
(* hid_callback, in the HID event loop. *)

ConnectRuntime ==
  /\ hidPc = "idle"
  /\ connects = disconnects
  /\ connects < ups
  /\ runtimeConnected' = TRUE
  /\ hidPc' = "connectSafety"
  /\ UNCHANGED <<safety, taskGeneration, caller, task, zeroed, linkVars,
                 connects, disconnects>>

ConnectSafety ==
  /\ hidPc = "connectSafety"
  /\ safety' = Connected(safety)
  /\ connects' = connects + 1
  /\ hidPc' = "idle"
  /\ UNCHANGED <<taskGeneration, caller, task, zeroed, linkVars,
                 disconnects, runtimeConnected>>

DisconnectSafety ==
  /\ hidPc = "idle"
  /\ connects = disconnects + 1
  /\ disconnects < downs
  /\ safety' = Disconnected(safety)
  /\ disconnects' = disconnects + 1
  /\ hidPc' = "disconnectRuntime"
  /\ UNCHANGED <<taskGeneration, caller, task, zeroed, linkVars,
                 connects, runtimeConnected>>

\* The board can be found again only if the stack accepts start_advertising.
DisconnectRuntime ==
  /\ hidPc = "disconnectRuntime"
  /\ runtimeConnected' = FALSE
  /\ advertising' \in BOOLEAN
  /\ hidPc' = "idle"
  /\ UNCHANGED <<safety, taskGeneration, caller, task, zeroed, ups, downs,
                 auths, connects, disconnects>>

-----------------------------------------------------------------------------
(* The retry endpoint and schedule_safety_release. *)

Retry ==
  /\ Retries
  /\ caller["http"].pc = "idle"
  /\ MayRetry(safety)
  /\ safety' = RequestRetry(safety)
  /\ caller' = IF Ready(safety') THEN caller
               ELSE [caller EXCEPT !["http"] =
                       [pc |-> "schedule", generation |-> safety.generation]]
  /\ UNCHANGED <<taskGeneration, task, zeroed, linkVars, eventVars>>

\* Mutant: a task of an older connection keeps the new one from having its own.
ScheduleNeededWhenIdle(g) ==
  /\ g # 0
  /\ taskGeneration = 0
  /\ safety.generation = g
  /\ safety.connected /\ safety.authenticated

\* Mutant: a second task for the same connection.
ScheduleNeededAgain(g) ==
  /\ g # 0
  /\ safety.generation = g
  /\ safety.connected /\ safety.authenticated

\* A release of this generation is needed and nobody has scheduled one.
ScheduleNeeded(g) ==
  /\ g # 0
  /\ taskGeneration # g
  /\ safety.generation = g
  /\ safety.connected
  /\ safety.authenticated

Schedule(c) ==
  LET g == caller[c].generation IN
  /\ caller[c].pc = "schedule"
  /\ IF ScheduleNeeded(g)
     THEN /\ taskGeneration' = g
          /\ caller' = [caller EXCEPT ![c].pc = "create"]
     ELSE /\ caller' = [caller EXCEPT ![c].pc = "idle"]
          /\ UNCHANGED taskGeneration
  /\ UNCHANGED <<safety, task, zeroed, linkVars, eventVars>>

Create(c) ==
  /\ caller[c].pc = "create"
  /\ \E t \in Tasks :
       /\ task[t].pc = "none"
       /\ task' = [task EXCEPT ![t] = [NoTask EXCEPT
                     !.pc = "delay", !.generation = caller[c].generation]]
  /\ caller' = [caller EXCEPT ![c].pc = "idle"]
  /\ UNCHANGED <<safety, taskGeneration, zeroed, linkVars, eventVars>>

ClearedBy(g) == IF taskGeneration = g THEN 0 ELSE taskGeneration

CreateFails(c) ==
  /\ AllocationFails
  /\ caller[c].pc = "create"
  /\ taskGeneration' = ClearedBy(caller[c].generation)
  /\ caller' = [caller EXCEPT ![c].pc = "idle"]
  /\ UNCHANGED <<safety, task, zeroed, linkVars, eventVars>>

-----------------------------------------------------------------------------
(* safety_release_task.  "delay" covers both vTaskDelay calls. *)

Begin(t) ==
  LET may == MayBeginRelease(safety, task[t].generation) IN
  /\ task[t].pc = "delay"
  /\ safety' = IF may THEN BeginRelease(safety) ELSE safety
  /\ task' = [task EXCEPT ![t].pc = IF may THEN "sendKeyboard" ELSE "exit"]
  /\ UNCHANGED <<taskGeneration, caller, zeroed, linkVars, eventVars>>

\* A report can be accepted only over a link; it may always be refused.
MaySend(sent) == sent => runtimeConnected /\ LinkUp

SendKeyboard(t, sent) ==
  /\ task[t].pc = "sendKeyboard"
  /\ MaySend(sent)
  /\ zeroed' = IF sent THEN zeroed \union {"keyboard"} ELSE zeroed
  /\ task' = [task EXCEPT ![t].pc = "sendConsumer", ![t].keyboard = sent]
  /\ UNCHANGED <<safety, taskGeneration, caller, linkVars, eventVars>>

SendConsumer(t, sent) ==
  /\ task[t].pc = "sendConsumer"
  /\ MaySend(sent)
  /\ zeroed' = IF sent THEN zeroed \union {"consumer"} ELSE zeroed
  /\ task' = [task EXCEPT ![t].pc = "complete", ![t].consumer = sent]
  /\ UNCHANGED <<safety, taskGeneration, caller, linkVars, eventVars>>

\* Mutant: one failed pair of reports is enough.
GivesUpAtOnce(s, g) ==
  Ready(s) \/ s.generation # g \/ ~s.connected \/ s.state = "FAILED_RETRYABLE"

\* What the task reads from the snapshot: stop trying, or delay and try again.
GivesUp(s, g) ==
  \/ Ready(s)
  \/ s.generation # g
  \/ ~s.connected
  \/ s.attempts >= MaxAttempts

Complete(t) ==
  LET g == task[t].generation IN
  /\ task[t].pc = "complete"
  /\ safety' = CompleteRelease(safety, g, task[t].keyboard, task[t].consumer)
  /\ task' = [task EXCEPT ![t].pc =
                IF GivesUp(safety', g) THEN "exit" ELSE "delay"]
  /\ UNCHANGED <<taskGeneration, caller, zeroed, linkVars, eventVars>>

Exit(t) ==
  /\ task[t].pc = "exit"
  /\ taskGeneration' = ClearedBy(task[t].generation)
  /\ task' = [task EXCEPT ![t] = NoTask]
  /\ UNCHANGED <<safety, caller, zeroed, linkVars, eventVars>>

-----------------------------------------------------------------------------
HidEvent == ConnectRuntime \/ ConnectSafety \/ DisconnectSafety \/ DisconnectRuntime

ReleaseStep(t) ==
  \/ Begin(t)
  \/ \E sent \in BOOLEAN : SendKeyboard(t, sent) \/ SendConsumer(t, sent)
  \/ Complete(t)
  \/ Exit(t)

CallerStep(c) == Schedule(c) \/ Create(c) \/ CreateFails(c)

Next ==
  \/ Establish
  \/ Lose
  \/ \E success \in BOOLEAN : AuthComplete(success)
  \/ HidEvent
  \/ Retry
  \/ \E c \in Callers : CallerStep(c)
  \/ \E t \in Tasks : ReleaseStep(t)

Spec == Init /\ [][Next]_vars

\* Every thread that can take a step takes one: the tasks, the HID event loop
\* and both callers of schedule_safety_release are scheduled by FreeRTOS.
\* Nothing is asked of the host, the link or the operator.
ThreadFairness ==
  /\ WF_vars(HidEvent)
  /\ \A c \in Callers : WF_vars(CallerStep(c))
  /\ \A t \in Tasks : WF_vars(ReleaseStep(t))

LiveSpec == Spec /\ ThreadFairness

-----------------------------------------------------------------------------
(* Properties *)

\* START is accepted when the record is ready.  Whatever the threads do, ready
\* means that both zero reports went out over the present link after its latest
\* authentication: results of an older connection are never credited to it.
ReadyMeansReleased ==
  Ready(safety) => zeroed = {"keyboard", "consumer"}

Live(t) == task[t].pc # "none"

\* s_safety_task_generation keeps two tasks from working for one connection,
\* although it is overwritten by later connections and cleared by old tasks.
OneTaskPerGeneration ==
  \A t, u \in Tasks :
    Live(t) /\ Live(u) /\ task[t].generation = task[u].generation => t = u

\* A retry is refused while the state is RELEASING, so a RELEASING state that
\* no task is going to complete could never be left on this connection.
ReleasingHasOwner ==
  safety.state = "RELEASING" =>
    \E t \in Tasks :
      /\ task[t].generation = safety.generation
      /\ task[t].pc \in {"sendKeyboard", "sendConsumer", "complete"}

\* Only a connection event or an authentication result takes readiness away:
\* no retry, no late task and no failed allocation does.
ReadyRevokedOnlyByHost ==
  [][Ready(safety) /\ ~Ready(safety)'
       => disconnects' # disconnects \/ auths' # auths]_vars

\* The threads together offer START the simple readiness of HidReadiness: a
\* failed release, for one, never becomes ready behind the operator's back.
Abstraction == INSTANCE HidReadiness WITH readiness <- Readiness(safety)

ImplementsReadiness == Abstraction!Spec

\* The board has an authenticated host and owes it an outcome.
Unsettled ==
  /\ safety.connected
  /\ safety.authenticated
  /\ safety.state \in {"WAITING_FOR_REPORT_PATH", "RELEASING"}

\* What WIFI_UPLOAD.md says of the retry endpoint, and the firmware does not keep: a
\* pending release comes to an outcome (confirmed or failed) or the host goes.
EveryReleaseSettles == Unsettled ~> ~Unsettled

\* A retry or a second authentication has made the release of connection g pending
\* again, and was content to find its task, which had given up and was on its way out.
Overlooked(g) ==
  /\ Unsettled /\ safety.generation = g /\ taskGeneration = g
  /\ \E t \in Tasks : task[t].generation = g /\ task[t].pc = "exit"
  /\ \A c \in Callers : caller[c].pc = "idle" \/ caller[c].generation # g

\* Whatever the host, the operator and earlier connections do, a release that becomes
\* pending comes to an outcome, or the host goes; but for a task overlooked on its way
\* out, after which the connection waits for another retry.
UnsettledEnds ==
  \A g \in Generation \ {0} :
    \/ Unsettled /\ safety.generation = g ~> ~(Unsettled /\ safety.generation = g)
    \/ <>Overlooked(g)

\* The host of connection g is there and authenticated.
Present(g) == safety.generation = g /\ safety.connected /\ safety.authenticated

\* A task does not give up after a failed attempt: on every connection it goes on until
\* it has confirmed the release or used all attempts, also when a retry or a second
\* authentication gives them all back on the way.  Excepted are the task overlooked, and
\* an operator who retries for ever.
AttemptsAreUsed ==
  \A g \in Generation \ {0} :
    \/ Present(g) ~> \/ ~Present(g)
                     \/ Ready(safety)
                     \/ safety.state = "FAILED_RETRYABLE" /\ safety.attempts = MaxAttempts
    \/ <>Overlooked(g)
    \/ []<><<Retry>>_vars
-----------------------------------------------------------------------------
(* The inductive invariant behind the safety properties. *)

\* The generation counts the events handled; the event loop is never more than
\* one link behind, because only a handled DISCONNECT lets the board advertise.
Counting ==
  /\ downs <= ups /\ ups <= downs + 1 /\ ups <= MaxLinks
  /\ disconnects <= connects /\ connects <= disconnects + 1
  /\ connects <= ups /\ ups <= connects + 1 /\ disconnects <= downs
  /\ safety.generation = connects + disconnects
  /\ safety.connected <=> connects = disconnects + 1
  /\ safety.connected => ups = connects
  /\ advertising \/ hidPc = "disconnectRuntime" =>
       ups = downs /\ connects = ups /\ disconnects = ups
  /\ advertising => hidPc # "disconnectRuntime"
  /\ hidPc = "connectSafety" => connects = disconnects /\ connects < ups

\* A release is pending, under way or confirmed only for an authenticated host.
StateConsistent ==
  safety.state \in {"WAITING_FOR_REPORT_PATH", "RELEASING", "CONFIRMED"}
    => safety.connected /\ safety.authenticated

Creating(c) == caller[c].pc = "create"

\* A live task, or a caller about to create one, holds its generation alone, and
\* while that generation is the present one s_safety_task_generation names it.
HoldersExclusive ==
  /\ \A t \in Tasks : Live(t) =>
       /\ task[t].generation \in 1 .. safety.generation
       /\ task[t].generation = safety.generation
            => taskGeneration = safety.generation
  /\ \A c \in Callers : caller[c].generation <= safety.generation
  /\ \A c \in Callers : Creating(c) =>
       /\ caller[c].generation # 0
       /\ caller[c].generation = safety.generation
            => taskGeneration = safety.generation
       /\ \A t \in Tasks : Live(t) => task[t].generation # caller[c].generation
       /\ \A d \in Callers :
            Creating(d) /\ caller[d].generation = caller[c].generation => d = c
  /\ OneTaskPerGeneration

\* What the owner of a release remembers as sent has been sent on this link.
EvidenceIsFresh ==
  \A t \in Tasks :
    safety.state = "RELEASING" /\ task[t].generation = safety.generation =>
      /\ task[t].pc \in {"sendConsumer", "complete"} /\ task[t].keyboard
           => "keyboard" \in zeroed
      /\ task[t].pc = "complete" /\ task[t].consumer => "consumer" \in zeroed

IInv ==
  /\ TypeOK
  /\ Counting
  /\ StateConsistent
  /\ HoldersExclusive
  /\ ReleasingHasOwner
  /\ EvidenceIsFresh
  /\ ReadyMeansReleased
=============================================================================
