--------------------------- MODULE ExecutionSafety ---------------------------
(***************************************************************************)
(* The record typx_execution_safety_t and the functions that change it      *)
(* (components/typx_execution_safety).  Every function is an operator from   *)
(* the old record to the new one; the callers hold s_safety_lock around each *)
(* call, so a module that uses these operators applies one in one step.      *)
(* The NVS marker of the same component is modelled in DedicatedRun.         *)
(***************************************************************************)
EXTENDS Naturals

CONSTANTS
  MaxAttempts,  \* TYPX_EXECUTION_RELEASE_MAX_ATTEMPTS, 6 in the firmware
  GenLimit      \* connection_generation is a uint32_t: 2^32 in the firmware

ASSUME AttemptsAssumption == MaxAttempts \in Nat \ {0}
ASSUME GenLimitAssumption == GenLimit \in Nat /\ GenLimit > 2

SafetyState == {"DISCONNECTED", "WAITING_FOR_AUTH", "WAITING_FOR_REPORT_PATH",
                "RELEASING", "CONFIRMED", "FAILED_RETRYABLE"}

SafetyError == {"NONE", "HID_NOT_CONNECTED", "AUTH_PENDING", "AUTH_FAILED",
                "REPORT_PATH_PENDING", "KEYBOARD_REPORT_FAILED",
                "CONSUMER_REPORT_FAILED", "REPORTS_FAILED"}

Generation == 0 .. (GenLimit - 1)

Safety == [connected : BOOLEAN, authenticated : BOOLEAN, state : SafetyState,
           error : SafetyError, attempts : 0 .. MaxAttempts,
           generation : Generation]

InitSafety ==
  [connected |-> FALSE, authenticated |-> FALSE, state |-> "DISCONNECTED",
   error |-> "HID_NOT_CONNECTED", attempts |-> 0, generation |-> 0]

\* Increment with wraparound; 0 stands for "no task" and is skipped.
NextGeneration(g) == IF g + 1 = GenLimit THEN 1 ELSE g + 1

Connected(s) ==
  [connected |-> TRUE, authenticated |-> FALSE, state |-> "WAITING_FOR_AUTH",
   error |-> "AUTH_PENDING", attempts |-> 0,
   generation |-> NextGeneration(s.generation)]

Disconnected(s) ==
  [InitSafety EXCEPT !.generation = NextGeneration(s.generation)]

\* The state from which a release task may begin, with all attempts ahead.
AwaitingRelease(s) ==
  [connected |-> TRUE, authenticated |-> TRUE,
   state |-> "WAITING_FOR_REPORT_PATH", error |-> "REPORT_PATH_PENDING",
   attempts |-> 0, generation |-> s.generation]

AuthenticationFailed(s) ==
  [connected |-> TRUE, authenticated |-> FALSE, state |-> "FAILED_RETRYABLE",
   error |-> "AUTH_FAILED", attempts |-> 0, generation |-> s.generation]

\* An authentication result that arrives while no host is connected is dropped.
Authenticated(s, success) ==
  IF ~s.connected THEN s
  ELSE IF success THEN AwaitingRelease(s) ELSE AuthenticationFailed(s)

\* Mutant: the bound on attempts is forgotten.
MayBeginReleaseUnbounded(s, g) ==
  /\ s.connected /\ s.authenticated
  /\ g # 0 /\ g = s.generation
  /\ s.state \in {"WAITING_FOR_REPORT_PATH", "FAILED_RETRYABLE"}

MayBeginRelease(s, g) ==
  /\ s.connected
  /\ s.authenticated
  /\ g # 0
  /\ g = s.generation
  /\ s.attempts < MaxAttempts
  /\ s.state \in {"WAITING_FOR_REPORT_PATH", "FAILED_RETRYABLE"}

BeginRelease(s) ==
  [s EXCEPT !.attempts = @ + 1, !.state = "RELEASING"]

\* Mutant: any task may complete whatever release is under way.
MayCompleteReleaseAnyGeneration(s, g) ==
  s.connected /\ s.authenticated /\ s.state = "RELEASING"

MayCompleteRelease(s, g) ==
  /\ g # 0
  /\ g = s.generation
  /\ s.connected
  /\ s.authenticated
  /\ s.state = "RELEASING"

ReleaseError(keyboard, consumer) ==
  IF keyboard /\ consumer THEN "NONE"
  ELSE IF keyboard THEN "CONSUMER_REPORT_FAILED"
  ELSE IF consumer THEN "KEYBOARD_REPORT_FAILED"
  ELSE "REPORTS_FAILED"

\* Mutant: a failed pair records the error and forgets the state.
CompleteReleaseKeepsState(s, g, keyboard, consumer) ==
  IF ~MayCompleteRelease(s, g) THEN s
  ELSE [s EXCEPT !.state = IF keyboard /\ consumer THEN "CONFIRMED" ELSE @,
                 !.error = ReleaseError(keyboard, consumer)]

\* The outcome of one pair of zero reports; refused calls leave the record.
CompleteRelease(s, g, keyboard, consumer) ==
  IF ~MayCompleteRelease(s, g) THEN s
  ELSE [s EXCEPT !.state = IF keyboard /\ consumer THEN "CONFIRMED"
                                                   ELSE "FAILED_RETRYABLE",
                 !.error = ReleaseError(keyboard, consumer)]

MayRetry(s) == s.connected /\ s.authenticated /\ s.state # "RELEASING"

\* Retrying a confirmed release is accepted and changes nothing.
RequestRetry(s) ==
  IF MayRetry(s) /\ s.state # "CONFIRMED" THEN AwaitingRelease(s) ELSE s

\* snapshot->ready, the condition START asks for.
Ready(s) == s.connected /\ s.authenticated /\ s.state = "CONFIRMED"

\* Mutant: a last attempt that is under way counts as a failed one.
ReadinessAttemptsOnly(s) ==
  IF ~s.connected THEN "DISCONNECTED"
  ELSE IF Ready(s) THEN "READY"
  ELSE IF s.error = "AUTH_FAILED" \/ s.attempts >= MaxAttempts THEN "FAILED"
  ELSE "PENDING"

\* How start_handler classifies a snapshot: FAILED is what only a retry or a new
\* authentication can leave.
Readiness(s) ==
  IF ~s.connected THEN "DISCONNECTED"
  ELSE IF Ready(s) THEN "READY"
  ELSE IF /\ s.state = "FAILED_RETRYABLE"
          /\ s.error = "AUTH_FAILED" \/ s.attempts >= MaxAttempts
       THEN "FAILED"
  ELSE "PENDING"
=============================================================================
