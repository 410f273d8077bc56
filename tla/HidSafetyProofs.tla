--------------------------- MODULE HidSafetyProofs ---------------------------
(***************************************************************************)
(* Proofs about HidSafety, for every number of links, attempts and tasks:    *)
(* the invariant IInv is inductive, hence START's readiness condition means  *)
(* what the documentation says it means.                                     *)
(***************************************************************************)
EXTENDS HidSafety, TLAPS

-----------------------------------------------------------------------------
(* What the operators of ExecutionSafety return. *)

\* typx_execution_safety_t keeps its type under every function.
LEMMA InitType == InitSafety \in Safety
BY AttemptsAssumption, GenLimitAssumption
DEF InitSafety, Safety, SafetyState, SafetyError, Generation

LEMMA OperatorTypes ==
  ASSUME NEW s \in Safety, NEW g \in Generation,
         NEW k \in BOOLEAN, NEW c \in BOOLEAN
  PROVE  /\ Connected(s) \in Safety
         /\ Disconnected(s) \in Safety
         /\ Authenticated(s, k) \in Safety
         /\ MayBeginRelease(s, g) => BeginRelease(s) \in Safety
         /\ CompleteRelease(s, g, k, c) \in Safety
         /\ RequestRetry(s) \in Safety
<1>2. NextGeneration(s.generation) \in Generation
  BY GenLimitAssumption DEF NextGeneration, Safety, Generation
<1>3. Connected(s) \in Safety
  BY <1>2, AttemptsAssumption DEF Connected, Safety, SafetyState, SafetyError
<1>4. Disconnected(s) \in Safety
  BY InitType, <1>2 DEF Disconnected, Safety
<1>a. AwaitingRelease(s) \in Safety /\ AuthenticationFailed(s) \in Safety
  BY AttemptsAssumption DEF AwaitingRelease, AuthenticationFailed, Safety, SafetyState, SafetyError
<1>5. Authenticated(s, k) \in Safety
  BY <1>a DEF Authenticated
<1>6. MayBeginRelease(s, g) => BeginRelease(s) \in Safety
  <2>1. MayBeginRelease(s, g) => s.attempts + 1 \in 0 .. MaxAttempts
    BY AttemptsAssumption DEF MayBeginRelease, Safety
  <2>2. QED BY <2>1 DEF BeginRelease, Safety, SafetyState
<1>7. CompleteRelease(s, g, k, c) \in Safety
  <2>1. ReleaseError(k, c) \in SafetyError
    BY DEF ReleaseError, SafetyError
  <2>2. QED BY <2>1 DEF CompleteRelease, Safety, SafetyState
<1>8. RequestRetry(s) \in Safety
  BY <1>a DEF RequestRetry
<1>9. QED BY <1>3, <1>4, <1>5, <1>6, <1>7, <1>8

-----------------------------------------------------------------------------
(* Type correctness *)

\* Every variable keeps its type: attempts never exceed the maximum and the
\* generation stays a 32-bit number.
THEOREM TypeCorrect == Spec => []TypeOK
<1>1. Init => TypeOK
  <2> SUFFICES ASSUME Init PROVE TypeOK
    OBVIOUS
  <2> USE DEF Init
  <2>1. safety \in Safety /\ taskGeneration \in Generation
    BY GenLimitAssumption, InitType DEF Generation
  <2>2. caller \in [Callers -> [pc : {"idle", "schedule", "create"},
                               generation : Generation]]
    BY GenLimitAssumption DEF Generation
  <2>3. task \in [Tasks -> [pc : {"none", "delay", "sendKeyboard",
                                 "sendConsumer", "complete", "exit"},
                           generation : Generation,
                           keyboard : BOOLEAN, consumer : BOOLEAN]]
    BY GenLimitAssumption DEF NoTask, Generation
  <2>4. auths \in 0 .. MaxAuths /\ zeroed \in SUBSET {"keyboard", "consumer"}
    BY AuthsAssumption
  <2>5. QED BY <2>1, <2>2, <2>3, <2>4 DEF TypeOK
<1>2. TypeOK /\ [Next]_vars => TypeOK'
  <2> SUFFICES ASSUME TypeOK, [Next]_vars PROVE TypeOK'
    OBVIOUS
  <2> USE DEF TypeOK, linkVars, eventVars
  <2>1. CASE Establish
    <3>1. auths' \in 0 .. MaxAuths /\ zeroed' \in SUBSET {"keyboard", "consumer"}
      BY <2>1, AuthsAssumption DEF Establish
    <3>2. ups' \in Nat
      BY <2>1 DEF Establish
    <3>5. advertising' \in BOOLEAN
      BY <2>1 DEF Establish
    <3>3. UNCHANGED <<safety, taskGeneration, caller, task, downs, connects,
                      disconnects, hidPc, runtimeConnected>>
      BY <2>1 DEF Establish
    <3>4. QED BY <3>1, <3>2, <3>3, <3>5
  <2>2. CASE Lose BY <2>2 DEF Lose
  <2>3. ASSUME NEW ok \in BOOLEAN, AuthComplete(ok) PROVE TypeOK'
    <3>1. safety' \in Safety
      BY <2>3, OperatorTypes DEF AuthComplete, Callers, Safety
    <3>2. caller' \in [Callers -> [pc : {"idle", "schedule", "create"},
                                   generation : Generation]]
      BY <2>3 DEF AuthComplete, Safety
    <3>3. auths' \in 0 .. MaxAuths
      BY <2>3, AuthsAssumption DEF AuthComplete
    <3>4. zeroed' \in SUBSET {"keyboard", "consumer"}
      BY <2>3 DEF AuthComplete
    <3>5. UNCHANGED <<taskGeneration, task, ups, downs, advertising, connects,
                      disconnects, hidPc, runtimeConnected>>
      BY <2>3 DEF AuthComplete
    <3>6. QED BY <3>1, <3>2, <3>3, <3>4, <3>5
  <2>4. CASE ConnectRuntime BY <2>4 DEF ConnectRuntime
  <2>5. CASE ConnectSafety
    <3>1. safety' \in Safety
      BY <2>5, OperatorTypes DEF ConnectSafety, Safety
    <3>2. QED BY <2>5, <3>1 DEF ConnectSafety
  <2>6. CASE DisconnectSafety
    <3>1. safety' \in Safety
      BY <2>6, OperatorTypes DEF DisconnectSafety, Safety
    <3>2. QED BY <2>6, <3>1 DEF DisconnectSafety
  <2>7. CASE DisconnectRuntime BY <2>7 DEF DisconnectRuntime
  <2>8. CASE Retry
    <3>1. safety' \in Safety
      BY <2>8, OperatorTypes DEF Retry, Safety
    <3>2. caller' \in [Callers -> [pc : {"idle", "schedule", "create"},
                                   generation : Generation]]
      BY <2>8 DEF Retry, Safety
    <3>3. QED BY <2>8, <3>1, <3>2 DEF Retry
  <2>9. ASSUME NEW c \in Callers, CallerStep(c) PROVE TypeOK'
    <3>1. CASE Schedule(c) BY <3>1 DEF Schedule
    <3>2. CASE Create(c)
      <4>1. PICK t \in Tasks :
              task' = [task EXCEPT ![t] = [NoTask EXCEPT
                         !.pc = "delay", !.generation = caller[c].generation]]
        BY <3>2 DEF Create
      <4>2. task' \in [Tasks -> [pc : {"none", "delay", "sendKeyboard",
                                      "sendConsumer", "complete", "exit"},
                                generation : Generation,
                                keyboard : BOOLEAN, consumer : BOOLEAN]]
        BY <4>1 DEF NoTask
      <4>3. caller' \in [Callers -> [pc : {"idle", "schedule", "create"},
                                    generation : Generation]]
        BY <3>2 DEF Create
      <4>4. QED BY <3>2, <4>2, <4>3 DEF Create
    <3>3. CASE CreateFails(c)
      BY <3>3, GenLimitAssumption DEF CreateFails, ClearedBy, Generation
    <3>4. QED BY <2>9, <3>1, <3>2, <3>3 DEF CallerStep
  <2>10. ASSUME NEW t \in Tasks, ReleaseStep(t) PROVE TypeOK'
    <3>1. CASE Begin(t)
      <4>1. safety' \in Safety
        BY <3>1, OperatorTypes DEF Begin
      <4>2. QED BY <3>1, <4>1 DEF Begin
    <3>2. ASSUME NEW sent \in BOOLEAN, SendKeyboard(t, sent) PROVE TypeOK'
      <4>1. zeroed' \in SUBSET {"keyboard", "consumer"}
        BY <3>2 DEF SendKeyboard
      <4>2. task' \in [Tasks -> [pc : {"none", "delay", "sendKeyboard",
                                      "sendConsumer", "complete", "exit"},
                                generation : Generation,
                                keyboard : BOOLEAN, consumer : BOOLEAN]]
        <5>1. [task[t] EXCEPT !.pc = "sendConsumer", !.keyboard = sent]
                \in [pc : {"none", "delay", "sendKeyboard", "sendConsumer", "complete",
                          "exit"},
                    generation : Generation, keyboard : BOOLEAN, consumer : BOOLEAN]
          OBVIOUS
        <5>2. task' = [task EXCEPT ![t] = [task[t] EXCEPT !.pc = "sendConsumer", !.keyboard = sent]]
          BY <3>2 DEF SendKeyboard
        <5>3. QED BY <5>1, <5>2
      <4>3. QED BY <3>2, <4>1, <4>2 DEF SendKeyboard
    <3>3. ASSUME NEW sent \in BOOLEAN, SendConsumer(t, sent) PROVE TypeOK'
      <4>1. zeroed' \in SUBSET {"keyboard", "consumer"}
        BY <3>3 DEF SendConsumer
      <4>2. task' \in [Tasks -> [pc : {"none", "delay", "sendKeyboard",
                                      "sendConsumer", "complete", "exit"},
                                generation : Generation,
                                keyboard : BOOLEAN, consumer : BOOLEAN]]
        <5>1. [task[t] EXCEPT !.pc = "complete", !.consumer = sent]
                \in [pc : {"none", "delay", "sendKeyboard", "sendConsumer", "complete",
                          "exit"},
                    generation : Generation, keyboard : BOOLEAN, consumer : BOOLEAN]
          OBVIOUS
        <5>2. task' = [task EXCEPT ![t] = [task[t] EXCEPT !.pc = "complete", !.consumer = sent]]
          BY <3>3 DEF SendConsumer
        <5>3. QED BY <5>1, <5>2
      <4>3. QED BY <3>3, <4>1, <4>2 DEF SendConsumer
    <3>4. CASE Complete(t)
      <4>1. safety' \in Safety
        BY <3>4, OperatorTypes DEF Complete
      <4>2. QED BY <3>4, <4>1 DEF Complete
    <3>5. CASE Exit(t)
      BY <3>5, GenLimitAssumption DEF Exit, ClearedBy, NoTask, Generation
    <3>6. QED BY <2>10, <3>1, <3>2, <3>3, <3>4, <3>5 DEF ReleaseStep
  <2>11. CASE UNCHANGED vars BY <2>11 DEF vars
  <2>12. QED
    BY <2>1, <2>2, <2>3, <2>4, <2>5, <2>6, <2>7, <2>8, <2>9, <2>10, <2>11
    DEF Next, HidEvent
<1>3. QED BY <1>1, <1>2, PTL DEF Spec
-----------------------------------------------------------------------------
(* Events and generations *)

\* Only Connected and Disconnected touch the connection and its generation.
LEMMA OperatorsKeepLink ==
  ASSUME NEW s \in Safety, NEW g, NEW k \in BOOLEAN, NEW c \in BOOLEAN
  PROVE  /\ Authenticated(s, k).connected = s.connected
         /\ Authenticated(s, k).generation = s.generation
         /\ BeginRelease(s).connected = s.connected
         /\ BeginRelease(s).generation = s.generation
         /\ CompleteRelease(s, g, k, c).connected = s.connected
         /\ CompleteRelease(s, g, k, c).generation = s.generation
         /\ RequestRetry(s).connected = s.connected
         /\ RequestRetry(s).generation = s.generation
<1>1. Authenticated(s, k).connected = s.connected
      /\ Authenticated(s, k).generation = s.generation
  BY DEF Authenticated, AwaitingRelease, AuthenticationFailed, Safety
<1>2. BeginRelease(s).connected = s.connected
      /\ BeginRelease(s).generation = s.generation
  BY DEF BeginRelease, Safety
<1>3. CompleteRelease(s, g, k, c).connected = s.connected
      /\ CompleteRelease(s, g, k, c).generation = s.generation
  BY DEF CompleteRelease, Safety
<1>4. RequestRetry(s).connected = s.connected
      /\ RequestRetry(s).generation = s.generation
  BY DEF RequestRetry, MayRetry, AwaitingRelease, Safety
<1>5. QED BY <1>1, <1>2, <1>3, <1>4

\* Hence every step other than a link event keeps them in the state.
LEMMA LinkKept ==
  ASSUME TypeOK, [Next]_vars, ~ConnectSafety, ~DisconnectSafety
  PROVE  safety'.connected = safety.connected
         /\ safety'.generation = safety.generation
<1> USE DEF TypeOK
<1>1. CASE Establish BY <1>1 DEF Establish
<1>2. CASE Lose BY <1>2 DEF Lose
<1>3. ASSUME NEW ok \in BOOLEAN, AuthComplete(ok)
      PROVE safety'.connected = safety.connected
            /\ safety'.generation = safety.generation
  BY <1>3, OperatorsKeepLink DEF AuthComplete
<1>4. CASE ConnectRuntime BY <1>4 DEF ConnectRuntime
<1>5. CASE DisconnectRuntime BY <1>5 DEF DisconnectRuntime
<1>6. CASE Retry BY <1>6, OperatorsKeepLink DEF Retry
<1>7. ASSUME NEW c \in Callers, CallerStep(c) PROVE safety' = safety
  BY <1>7 DEF CallerStep, Schedule, Create, CreateFails
<1>8. ASSUME NEW t \in Tasks, ReleaseStep(t)
      PROVE safety'.connected = safety.connected
            /\ safety'.generation = safety.generation
  <2>1. CASE Begin(t) BY <2>1, OperatorsKeepLink DEF Begin
  <2>2. CASE \E sent \in BOOLEAN : SendKeyboard(t, sent) \/ SendConsumer(t, sent)
    BY <2>2 DEF SendKeyboard, SendConsumer
  <2>3. CASE Complete(t)
    BY <2>3, OperatorsKeepLink DEF Complete
  <2>4. CASE Exit(t) BY <2>4 DEF Exit
  <2>5. QED BY <1>8, <2>1, <2>2, <2>3, <2>4 DEF ReleaseStep
<1>9. CASE UNCHANGED vars BY <1>9 DEF vars
<1>10. QED
  BY <1>1, <1>2, <1>3, <1>4, <1>5, <1>6, <1>7, <1>8, <1>9 DEF Next, HidEvent

\* Below the limit the generation simply counts.
LEMMA NextGenerationCounts ==
  ASSUME NEW g \in Nat, g + 1 < GenLimit
  PROVE  NextGeneration(g) = g + 1
BY GenLimitAssumption DEF NextGeneration

\* The event loop is never more than one link behind the Bluetooth task.
LEMMA CountingInvariant == Spec => []Counting
<1>1. Init => Counting
  BY LinksAssumption DEF Init, Counting, InitSafety
<1>2. TypeOK /\ Counting /\ [Next]_vars => Counting'
  <2> SUFFICES ASSUME TypeOK, Counting, [Next]_vars PROVE Counting'
    OBVIOUS
  <2> USE LinksAssumption DEF TypeOK, Counting, linkVars, eventVars, LinkUp
  <2>1. CASE Establish
    <3>1. ups = downs /\ connects = ups /\ disconnects = ups /\ ups' = ups + 1
          /\ ups' <= MaxLinks
      BY <2>1 DEF Establish
    <3>2. ~advertising'
      BY <2>1 DEF Establish
    <3>3. UNCHANGED <<safety, downs, connects, disconnects, hidPc>>
      BY <2>1 DEF Establish
    <3>4. ~safety.connected
      BY <3>1
    <3>5. /\ downs' <= ups' /\ ups' <= downs' + 1 /\ ups' <= MaxLinks
          /\ disconnects' <= connects' /\ connects' <= disconnects' + 1
          /\ connects' <= ups' /\ ups' <= connects' + 1 /\ disconnects' <= downs'
          /\ safety'.generation = connects' + disconnects'
          /\ ~(connects' = disconnects' + 1)
          /\ connects' < ups' /\ connects' = disconnects'
      BY <3>1, <3>3
    <3>6. hidPc' # "disconnectRuntime"
      BY <2>1, <3>3 DEF Establish
    <3>7. QED BY <3>2, <3>3, <3>4, <3>5, <3>6, Zenon
  <2>2. CASE Lose BY <2>2 DEF Lose
  <2>3. CASE ConnectRuntime BY <2>3 DEF ConnectRuntime
  <2>4. CASE ConnectSafety
    <3>1. safety'.connected = TRUE
          /\ safety'.generation = NextGeneration(safety.generation)
      BY <2>4 DEF ConnectSafety, Connected
    <3>2. NextGeneration(safety.generation) = connects + disconnects + 1
      BY <2>4, NextGenerationCounts, GenLimitAssumption DEF ConnectSafety
    <3>3. QED BY <2>4, <3>1, <3>2 DEF ConnectSafety
  <2>5. CASE DisconnectSafety
    <3>1. safety'.connected = FALSE
          /\ safety'.generation = NextGeneration(safety.generation)
      BY <2>5 DEF DisconnectSafety, Disconnected, InitSafety
    <3>2. NextGeneration(safety.generation) = connects + disconnects + 1
      BY <2>5, NextGenerationCounts, GenLimitAssumption DEF DisconnectSafety
    <3>3. QED BY <2>5, <3>1, <3>2 DEF DisconnectSafety
  <2>6. CASE DisconnectRuntime BY <2>6 DEF DisconnectRuntime
  <2>7. CASE UNCHANGED <<safety.connected, safety.generation, ups, downs,
                         connects, disconnects, hidPc, advertising>>
    <3>1. advertising' = advertising /\ hidPc' = hidPc
      BY <2>7
    <3>2. advertising' => hidPc' # "disconnectRuntime"
      BY <3>1
    <3>3. advertising' \/ hidPc' = "disconnectRuntime" =>
            ups' = downs' /\ connects' = ups' /\ disconnects' = ups'
      BY <2>7
    <3>4. safety'.connected <=> connects' = disconnects' + 1
      BY <2>7
    <3>5. /\ downs' <= ups' /\ ups' <= downs' + 1 /\ ups' <= MaxLinks
          /\ disconnects' <= connects' /\ connects' <= disconnects' + 1
          /\ connects' <= ups' /\ ups' <= connects' + 1 /\ disconnects' <= downs'
          /\ safety'.generation = connects' + disconnects'
          /\ safety'.connected => ups' = connects'
          /\ hidPc' = "connectSafety" => connects' = disconnects' /\ connects' < ups'
      BY <2>7
    <3>6. QED BY <3>2, <3>3, <3>4, <3>5
  <2> HIDE DEF Counting
  <2> DEFINE Kept == UNCHANGED <<safety.connected, safety.generation, ups, downs,
                                 connects, disconnects, hidPc, advertising>>
  <2>8. ASSUME NEW ok \in BOOLEAN, AuthComplete(ok) PROVE Counting'
    <3>1. Kept
      BY <2>8, OperatorsKeepLink DEF AuthComplete
    <3>2. QED BY <2>7, <3>1
  <2>9. CASE Retry
    <3>1. Kept
      BY <2>9, OperatorsKeepLink DEF Retry
    <3>2. QED BY <2>7, <3>1
  <2>10. ASSUME NEW c \in Callers, CallerStep(c) PROVE Counting'
    <3>1. Kept
      BY <2>10 DEF CallerStep, Schedule, Create, CreateFails
    <3>2. QED BY <2>7, <3>1
  <2>11. ASSUME NEW t \in Tasks, ReleaseStep(t) PROVE Counting'
    <3>1. CASE Begin(t)
      <4>1. Kept BY <3>1, OperatorsKeepLink DEF Begin
      <4>2. QED BY <2>7, <4>1
    <3>2. CASE \E sent \in BOOLEAN : SendKeyboard(t, sent) \/ SendConsumer(t, sent)
      <4>1. Kept BY <3>2 DEF SendKeyboard, SendConsumer
      <4>2. QED BY <2>7, <4>1
    <3>3. CASE Complete(t)
      <4>1. Kept BY <3>3, OperatorsKeepLink DEF Complete
      <4>2. QED BY <2>7, <4>1
    <3>4. CASE Exit(t)
      <4>1. Kept BY <3>4 DEF Exit
      <4>2. QED BY <2>7, <4>1
    <3>5. QED BY <2>11, <3>1, <3>2, <3>3, <3>4 DEF ReleaseStep
  <2>12. CASE UNCHANGED vars
    <3>1. Kept BY <2>12 DEF vars
    <3>2. QED BY <2>7, <3>1
  <2>13. QED
    BY <2>1, <2>2, <2>3, <2>4, <2>5, <2>6, <2>8, <2>9, <2>10, <2>11, <2>12
    DEF Next, HidEvent
<1>3. QED BY <1>1, <1>2, TypeCorrect, PTL DEF Spec
-----------------------------------------------------------------------------
(* States of the record *)

\* Releases are pending, running or confirmed only for an authenticated host.
LEMMA StateInvariant == Spec => []StateConsistent
<1>1. Init => StateConsistent
  BY DEF Init, StateConsistent, InitSafety
<1>2. TypeOK /\ StateConsistent /\ [Next]_vars => StateConsistent'
  <2> SUFFICES ASSUME TypeOK, StateConsistent, [Next]_vars PROVE StateConsistent'
    OBVIOUS
  <2> USE DEF TypeOK, StateConsistent, Safety
  <2>1. CASE safety' = safety BY <2>1
  <2>2. ASSUME NEW ok \in BOOLEAN, AuthComplete(ok) PROVE StateConsistent'
    BY <2>2 DEF AuthComplete, Authenticated, AwaitingRelease, AuthenticationFailed
  <2>3. CASE ConnectSafety BY <2>3 DEF ConnectSafety, Connected
  <2>4. CASE DisconnectSafety
    BY <2>4 DEF DisconnectSafety, Disconnected, InitSafety
  <2>5. CASE Retry
    BY <2>5 DEF Retry, RequestRetry, MayRetry, AwaitingRelease
  <2>6. ASSUME NEW t \in Tasks, Begin(t) PROVE StateConsistent'
    BY <2>6 DEF Begin, MayBeginRelease, BeginRelease
  <2>7. ASSUME NEW t \in Tasks, Complete(t) PROVE StateConsistent'
    BY <2>7 DEF Complete, CompleteRelease, MayCompleteRelease
  <2>8. CASE Establish \/ Lose \/ ConnectRuntime \/ DisconnectRuntime
    BY <2>1, <2>8 DEF Establish, Lose, ConnectRuntime, DisconnectRuntime
  <2>9. ASSUME NEW c \in Callers, CallerStep(c) PROVE StateConsistent'
    BY <2>1, <2>9 DEF CallerStep, Schedule, Create, CreateFails
  <2>10. ASSUME NEW t \in Tasks, ReleaseStep(t) PROVE StateConsistent'
    BY <2>1, <2>6, <2>7, <2>10 DEF ReleaseStep, SendKeyboard, SendConsumer, Exit
  <2>11. CASE UNCHANGED vars BY <2>1, <2>11 DEF vars
  <2>12. QED
    BY <2>2, <2>3, <2>4, <2>5, <2>8, <2>9, <2>10, <2>11 DEF Next, HidEvent
<1>3. QED BY <1>1, <1>2, TypeCorrect, PTL DEF Spec
-----------------------------------------------------------------------------
(* Who works for a generation *)

\* A link event moves the generation on by one; nothing else moves it.
LEMMA GenerationGrows ==
  ASSUME TypeOK, Counting, [Next]_vars
  PROVE  \/ safety'.generation = safety.generation
         \/ /\ safety'.generation = safety.generation + 1
            /\ UNCHANGED <<caller, task, taskGeneration>>
<1> USE LinksAssumption, GenLimitAssumption DEF TypeOK, Counting
<1>1. CASE ConnectSafety
  <2>1. safety'.generation = NextGeneration(safety.generation)
    BY <1>1 DEF ConnectSafety, Connected
  <2>2. NextGeneration(safety.generation) = safety.generation + 1
    BY <1>1, NextGenerationCounts DEF ConnectSafety
  <2>3. QED BY <1>1, <2>1, <2>2 DEF ConnectSafety
<1>2. CASE DisconnectSafety
  <2>1. safety'.generation = NextGeneration(safety.generation)
    BY <1>2 DEF DisconnectSafety, Disconnected, InitSafety
  <2>2. NextGeneration(safety.generation) = safety.generation + 1
    BY <1>2, NextGenerationCounts DEF DisconnectSafety
  <2>3. QED BY <1>2, <2>1, <2>2 DEF DisconnectSafety
<1>3. QED BY <1>1, <1>2, LinkKept

\* A generation has one holder, and the present one's is on record.
LEMMA HoldersInvariant == Spec => []HoldersExclusive
<1>1. Init => HoldersExclusive
  BY DEF Init, HoldersExclusive, OneTaskPerGeneration, Live, Creating, NoTask,
     InitSafety
<1>2. TypeOK /\ Counting /\ HoldersExclusive /\ [Next]_vars => HoldersExclusive'
  <2> SUFFICES ASSUME TypeOK, Counting, HoldersExclusive, [Next]_vars
               PROVE  HoldersExclusive'
    OBVIOUS
  <2> DEFINE G == safety.generation
  <2>g. G \in Nat /\ \A t \in Tasks : task[t].generation \in Nat
    BY GenLimitAssumption DEF TypeOK, Safety, Generation
  <2>c. \A c \in Callers : caller[c].generation \in Nat
    BY GenLimitAssumption DEF TypeOK, Generation
  <2> USE DEF HoldersExclusive, OneTaskPerGeneration, Live, Creating
  <2>1. CASE safety'.generation # G
    <3>1. safety'.generation = G + 1 /\ UNCHANGED <<caller, task, taskGeneration>>
      BY <2>1, GenerationGrows
    <3>2. QED BY <3>1, <2>g, <2>c
  <2>2. CASE safety'.generation = G /\ UNCHANGED <<caller, task, taskGeneration>>
    BY <2>2
  <2>3. ASSUME NEW ok \in BOOLEAN, AuthComplete(ok), safety'.generation = G
        PROVE  HoldersExclusive'
    <3>1. UNCHANGED <<task, taskGeneration>>
      BY <2>3 DEF AuthComplete
    <3>2. \A c \in Callers : \/ caller'[c] = caller[c]
                             \/ caller'[c] = [pc |-> "schedule", generation |-> G]
      BY <2>3 DEF AuthComplete, TypeOK
    <3>3. QED BY <2>3, <3>1, <3>2, <2>g, <2>c
  <2>4. CASE Retry /\ safety'.generation = G
    <3>1. UNCHANGED <<task, taskGeneration>>
      BY <2>4 DEF Retry
    <3>2. \A c \in Callers : \/ caller'[c] = caller[c]
                             \/ caller'[c] = [pc |-> "schedule", generation |-> G]
      BY <2>4 DEF Retry, TypeOK
    <3>3. QED BY <2>4, <3>1, <3>2, <2>g, <2>c
  <2>5. ASSUME NEW c \in Callers, Schedule(c) PROVE HoldersExclusive'
    <3>1. UNCHANGED <<task, safety>> BY <2>5 DEF Schedule
    <3>2. \A d \in Callers : caller'[d].generation = caller[d].generation
                             /\ (d # c => caller'[d] = caller[d])
      BY <2>5 DEF Schedule, TypeOK
    <3>3. CASE ScheduleNeeded(caller[c].generation)
      <4>1. taskGeneration' = G /\ caller[c].generation = G /\ G # 0
            /\ taskGeneration # G
        BY <2>5, <3>3 DEF Schedule, ScheduleNeeded
      <4>2. /\ \A t \in Tasks : Live(t) => task[t].generation # G
            /\ \A d \in Callers : Creating(d) => caller[d].generation # G
        BY <4>1
      <4>3. QED BY <3>1, <3>2, <4>1, <4>2, <2>g, <2>c
    <3>4. CASE ~ScheduleNeeded(caller[c].generation)
      <4>1. taskGeneration' = taskGeneration /\ caller'[c].pc = "idle"
        BY <2>5, <3>4 DEF Schedule, TypeOK
      <4>2. QED BY <3>1, <3>2, <4>1, <2>g, <2>c
    <3>5. QED BY <3>3, <3>4
  <2>6. ASSUME NEW c \in Callers, Create(c) PROVE HoldersExclusive'
    <3>1. UNCHANGED <<safety, taskGeneration>> BY <2>6 DEF Create
    <3>2. /\ \A d \in Callers : d # c => caller'[d] = caller[d]
          /\ caller'[c].pc = "idle" /\ caller'[c].generation = caller[c].generation
          /\ Creating(c)
      BY <2>6 DEF Create, TypeOK
    <3>3. PICK u \in Tasks :
            /\ \A t \in Tasks : t # u => task'[t] = task[t]
            /\ task'[u].pc = "delay"
            /\ task'[u].generation = caller[c].generation
      BY <2>6 DEF Create, TypeOK, NoTask
    <3>4. caller[c].generation \in 1 .. G
      BY <3>2, <2>g, <2>c
    <3>5. QED BY <3>1, <3>2, <3>3, <3>4, <2>g, <2>c
  <2>7. ASSUME NEW c \in Callers, CreateFails(c) PROVE HoldersExclusive'
    <3>1. UNCHANGED <<safety, task>> BY <2>7 DEF CreateFails
    <3>2. /\ \A d \in Callers : d # c => caller'[d] = caller[d]
          /\ caller'[c].pc = "idle" /\ caller'[c].generation = caller[c].generation
          /\ Creating(c)
      BY <2>7 DEF CreateFails, TypeOK
    <3>3. \/ taskGeneration' = taskGeneration
          \/ taskGeneration = caller[c].generation
      BY <2>7 DEF CreateFails, ClearedBy
    <3>4. QED BY <3>1, <3>2, <3>3, <2>g, <2>c
  <2>8. ASSUME NEW t \in Tasks, Exit(t) PROVE HoldersExclusive'
    <3>1. UNCHANGED <<safety, caller>> /\ Live(t) BY <2>8 DEF Exit
    <3>2. /\ \A u \in Tasks : u # t => task'[u] = task[u]
          /\ task'[t].pc = "none"
      BY <2>8 DEF Exit, TypeOK, NoTask
    <3>3. \/ taskGeneration' = taskGeneration
          \/ taskGeneration = task[t].generation
      BY <2>8 DEF Exit, ClearedBy
    <3>4. QED BY <3>1, <3>2, <3>3, <2>g, <2>c
  <2>9. ASSUME NEW t \in Tasks, ReleaseStep(t), ~Exit(t), safety'.generation = G
        PROVE  HoldersExclusive'
    <3>1. UNCHANGED <<caller, taskGeneration>>
      BY <2>9 DEF ReleaseStep, Begin, SendKeyboard, SendConsumer, Complete
    <3> DEFINE SameHolders ==
                 \A u \in Tasks : /\ task'[u].generation = task[u].generation
                                  /\ task'[u].pc = "none" <=> task[u].pc = "none"
    <3>2. SameHolders
      <4>1. CASE Begin(t) BY <4>1 DEF Begin, TypeOK
      <4>2. ASSUME NEW sent \in BOOLEAN, SendKeyboard(t, sent) PROVE SameHolders
        BY <4>2 DEF SendKeyboard, TypeOK
      <4>3. ASSUME NEW sent \in BOOLEAN, SendConsumer(t, sent) PROVE SameHolders
        BY <4>3 DEF SendConsumer, TypeOK
      <4>4. CASE Complete(t) BY <4>4 DEF Complete, TypeOK
      <4>5. QED BY <2>9, <4>1, <4>2, <4>3, <4>4 DEF ReleaseStep
    <3>3. QED BY <2>9, <3>1, <3>2
  <2>10. CASE \/ Establish \/ Lose \/ ConnectRuntime \/ DisconnectRuntime
              \/ UNCHANGED vars
    BY <2>10, <2>2
    DEF Establish, Lose, ConnectRuntime, DisconnectRuntime, vars
  <2>11. CASE ConnectSafety \/ DisconnectSafety
    BY <2>1, <2>2, <2>11 DEF ConnectSafety, DisconnectSafety
  <2>12. QED
    BY <2>1, <2>3, <2>4, <2>5, <2>6, <2>7, <2>8, <2>9, <2>10, <2>11
    DEF Next, HidEvent, CallerStep
<1>3. QED BY <1>1, <1>2, TypeCorrect, CountingInvariant, PTL DEF Spec

\* s_safety_task_generation never lets two release tasks serve one connection.
THEOREM OneTaskPerGenerationHolds == Spec => []OneTaskPerGeneration
<1>1. HoldersExclusive => OneTaskPerGeneration BY DEF HoldersExclusive
<1>2. QED BY <1>1, HoldersInvariant, PTL
-----------------------------------------------------------------------------
(* Who completes a release *)

\* The steps that leave the record alone.
LEMMA SafetyKept ==
  ASSUME Establish \/ Lose \/ ConnectRuntime \/ DisconnectRuntime
         \/ (\E c \in Callers : CallerStep(c))
         \/ (\E t \in Tasks : \/ \E sent \in BOOLEAN :
                                   SendKeyboard(t, sent) \/ SendConsumer(t, sent)
                              \/ Exit(t))
         \/ UNCHANGED vars
  PROVE  safety' = safety
BY DEF Establish, Lose, ConnectRuntime, DisconnectRuntime, CallerStep, Schedule,
       Create, CreateFails, SendKeyboard, SendConsumer, Exit, vars

\* A step that ends in RELEASING is a Begin or leaves the record unchanged.
LEMMA ReleasingFromBegin ==
  ASSUME TypeOK, StateConsistent, [Next]_vars, safety'.state = "RELEASING"
  PROVE  \/ safety' = safety /\ ~(\E ok \in BOOLEAN : AuthComplete(ok))
         \/ \E t \in Tasks : Begin(t) /\ MayBeginRelease(safety, task[t].generation)
<1> USE DEF TypeOK, StateConsistent
<1>1. ASSUME NEW ok \in BOOLEAN, AuthComplete(ok) PROVE FALSE
  BY <1>1 DEF AuthComplete, Authenticated, AwaitingRelease, AuthenticationFailed
<1>2. CASE ConnectSafety BY <1>2 DEF ConnectSafety, Connected
<1>3. CASE DisconnectSafety BY <1>3 DEF DisconnectSafety, Disconnected, InitSafety
<1>4. CASE Retry BY <1>4, <1>1 DEF Retry, RequestRetry, AwaitingRelease
<1>5. ASSUME NEW t \in Tasks, Begin(t)
      PROVE safety' = safety \/ MayBeginRelease(safety, task[t].generation)
  BY <1>5 DEF Begin
<1>6. ASSUME NEW t \in Tasks, Complete(t) PROVE safety' = safety
  BY <1>6 DEF Complete, CompleteRelease, Safety
<1>7. QED
  BY <1>1, <1>2, <1>3, <1>4, <1>5, <1>6, SafetyKept
  DEF Next, HidEvent, ReleaseStep

\* The tasks a step can touch: one that was not sending, or one that sends on.
LEMMA OwnerKept ==
  ASSUME TypeOK, [Next]_vars, NEW u \in Tasks,
         task[u].pc \in {"sendKeyboard", "sendConsumer", "complete"}
  PROVE  \/ Complete(u)
         \/ /\ task'[u].generation = task[u].generation
            /\ task'[u].pc \in {"sendKeyboard", "sendConsumer", "complete"}
<1> USE DEF TypeOK
<1>1. CASE UNCHANGED task BY <1>1
<1>2. ASSUME NEW c \in Callers, Create(c)
      PROVE  task'[u] = task[u]
  BY <1>2 DEF Create
<1>3. ASSUME NEW t \in Tasks, Begin(t) PROVE task'[u] = task[u]
  BY <1>3 DEF Begin
<1>4. ASSUME NEW t \in Tasks, NEW sent \in BOOLEAN, SendKeyboard(t, sent)
      PROVE  /\ task'[u].generation = task[u].generation
             /\ task'[u].pc \in {"sendKeyboard", "sendConsumer", "complete"}
  BY <1>4 DEF SendKeyboard
<1>5. ASSUME NEW t \in Tasks, NEW sent \in BOOLEAN, SendConsumer(t, sent)
      PROVE  /\ task'[u].generation = task[u].generation
             /\ task'[u].pc \in {"sendKeyboard", "sendConsumer", "complete"}
  BY <1>5 DEF SendConsumer
<1>6. ASSUME NEW t \in Tasks, Complete(t), t # u PROVE task'[u] = task[u]
  BY <1>6 DEF Complete
<1>7. ASSUME NEW t \in Tasks, Exit(t) PROVE task'[u] = task[u]
  BY <1>7 DEF Exit
<1>8. ASSUME NEW c \in Callers, CallerStep(c), ~Create(c) PROVE UNCHANGED task
  BY <1>8 DEF CallerStep, Schedule, CreateFails
<1>9. CASE \/ Establish \/ Lose \/ HidEvent \/ Retry \/ UNCHANGED vars
           \/ \E ok \in BOOLEAN : AuthComplete(ok)
  BY <1>1, <1>9 DEF Establish, Lose, HidEvent, ConnectRuntime, ConnectSafety,
     DisconnectSafety, DisconnectRuntime, Retry, AuthComplete, vars
<1>10. ASSUME NEW t \in Tasks, ReleaseStep(t)
       PROVE  \/ Complete(u)
              \/ /\ task'[u].generation = task[u].generation
                 /\ task'[u].pc \in {"sendKeyboard", "sendConsumer", "complete"}
  BY <1>3, <1>4, <1>5, <1>6, <1>7, <1>10 DEF ReleaseStep
<1>11. QED BY <1>1, <1>2, <1>8, <1>9, <1>10 DEF Next

\* An owner that completes takes the record out of RELEASING.
LEMMA OwnerSettles ==
  ASSUME TypeOK, StateConsistent, HoldersExclusive, NEW u \in Tasks, Complete(u),
         safety.state = "RELEASING", task[u].generation = safety.generation
  PROVE  safety'.state # "RELEASING"
<1>1. task[u].generation # 0
  BY GenLimitAssumption
  DEF HoldersExclusive, Live, Complete, TypeOK, Safety, Generation
<1>2. MayCompleteRelease(safety, task[u].generation)
  BY <1>1 DEF MayCompleteRelease, StateConsistent
<1>3. QED BY <1>2 DEF Complete, CompleteRelease, TypeOK, Safety

\* RELEASING always has a task that will complete it, so retry is not refused
\* for ever.
THEOREM ReleasingHasOwnerHolds == Spec => []ReleasingHasOwner
<1>1. Init => ReleasingHasOwner
  BY DEF Init, ReleasingHasOwner, InitSafety
<1>2. /\ TypeOK /\ StateConsistent /\ HoldersExclusive /\ ReleasingHasOwner
      /\ [Next]_vars
      => ReleasingHasOwner'
  <2> SUFFICES ASSUME TypeOK, StateConsistent, HoldersExclusive,
                      ReleasingHasOwner, [Next]_vars, safety'.state = "RELEASING"
               PROVE  \E t \in Tasks :
                        /\ task'[t].generation = safety'.generation
                        /\ task'[t].pc \in {"sendKeyboard", "sendConsumer", "complete"}
    BY DEF ReleasingHasOwner
  <2>1. CASE safety' = safety
    <3>1. PICK u \in Tasks :
            /\ task[u].generation = safety.generation
            /\ task[u].pc \in {"sendKeyboard", "sendConsumer", "complete"}
      BY <2>1 DEF ReleasingHasOwner
    <3>2. ~Complete(u) BY <2>1, <3>1, OwnerSettles
    <3>3. QED BY <2>1, <3>1, <3>2, OwnerKept
  <2>2. ASSUME NEW t \in Tasks, Begin(t), MayBeginRelease(safety, task[t].generation)
        PROVE  /\ task'[t].generation = safety'.generation
               /\ task'[t].pc = "sendKeyboard"
    <3>1. safety' = BeginRelease(safety) /\ task'[t].pc = "sendKeyboard"
          /\ task'[t].generation = task[t].generation
      BY <2>2 DEF Begin, TypeOK
    <3>2. BeginRelease(safety).generation = safety.generation
      BY OperatorsKeepLink DEF TypeOK
    <3>3. task[t].generation = safety.generation
      BY <2>2 DEF MayBeginRelease
    <3>4. QED BY <3>1, <3>2, <3>3
  <2>3. CASE \E t \in Tasks : Begin(t) /\ MayBeginRelease(safety, task[t].generation)
    <3>1. PICK t \in Tasks : Begin(t) /\ MayBeginRelease(safety, task[t].generation)
      BY <2>3
    <3>2. QED BY <2>2, <3>1
  <2>4. \/ safety' = safety
        \/ \E t \in Tasks : Begin(t) /\ MayBeginRelease(safety, task[t].generation)
    BY ReleasingFromBegin
  <2>5. QED BY <2>1, <2>3, <2>4
<1>3. QED
  BY <1>1, <1>2, TypeCorrect, StateInvariant, HoldersInvariant, PTL DEF Spec
-----------------------------------------------------------------------------
(* What a ready record vouches for *)

\* zeroed loses reports only at a new link or a new authentication result.
LEMMA ZeroedGrows ==
  ASSUME TypeOK, [Next]_vars, ~Establish, ~(\E ok \in BOOLEAN : AuthComplete(ok))
  PROVE  zeroed \subseteq zeroed'
<1>1. CASE UNCHANGED zeroed BY <1>1
<1>2. ASSUME NEW t \in Tasks, NEW sent \in BOOLEAN,
             SendKeyboard(t, sent) \/ SendConsumer(t, sent)
      PROVE  zeroed \subseteq zeroed'
  BY <1>2 DEF SendKeyboard, SendConsumer
<1>3. ASSUME NEW t \in Tasks, ReleaseStep(t) PROVE zeroed \subseteq zeroed'
  BY <1>1, <1>2, <1>3 DEF ReleaseStep, Begin, Complete, Exit
<1>4. ASSUME NEW c \in Callers, CallerStep(c) PROVE UNCHANGED zeroed
  BY <1>4 DEF CallerStep, Schedule, Create, CreateFails
<1>5. CASE Lose \/ HidEvent \/ Retry \/ UNCHANGED vars
  BY <1>5 DEF Lose, HidEvent, ConnectRuntime, ConnectSafety, DisconnectSafety,
     DisconnectRuntime, Retry, vars
<1>6. QED BY <1>1, <1>3, <1>4, <1>5 DEF Next

\* While the record says connected no new link can come up.
LEMMA NoLinkWhileConnected ==
  ASSUME TypeOK, Counting, safety.connected PROVE ~Establish
BY DEF TypeOK, Counting, Establish

\* A task reaches the later half of a release only by sending a report.
LEMMA TaskSteps ==
  ASSUME TypeOK, [Next]_vars, NEW u \in Tasks
  PROVE  \/ task'[u] = task[u]
         \/ task'[u].pc \notin {"sendConsumer", "complete"}
         \/ \E sent \in BOOLEAN : SendKeyboard(u, sent) \/ SendConsumer(u, sent)
<1> USE DEF TypeOK
<1>1. ASSUME NEW c \in Callers, CallerStep(c)
      PROVE  task'[u] = task[u] \/ task'[u].pc \notin {"sendConsumer", "complete"}
  <2>1. CASE Create(c) BY <2>1 DEF Create, NoTask
  <2>2. CASE ~Create(c) BY <1>1, <2>2 DEF CallerStep, Schedule, CreateFails
  <2>3. QED BY <2>1, <2>2
<1>2. ASSUME NEW t \in Tasks, Begin(t) \/ Complete(t) \/ Exit(t)
      PROVE  task'[u] = task[u] \/ task'[u].pc \notin {"sendConsumer", "complete"}
  <2>1. CASE t # u BY <1>2, <2>1 DEF Begin, Complete, Exit
  <2>2. CASE Begin(u) BY <2>2 DEF Begin
  <2>3. CASE Complete(u) BY <2>3 DEF Complete
  <2>4. CASE Exit(u) BY <2>4 DEF Exit, NoTask
  <2>5. QED BY <1>2, <2>1, <2>2, <2>3, <2>4
<1>3. ASSUME NEW t \in Tasks, NEW sent \in BOOLEAN,
             SendKeyboard(t, sent) \/ SendConsumer(t, sent), t # u
      PROVE  task'[u] = task[u]
  BY <1>3 DEF SendKeyboard, SendConsumer
<1>4. CASE \/ Establish \/ Lose \/ HidEvent \/ Retry \/ UNCHANGED vars
           \/ \E ok \in BOOLEAN : AuthComplete(ok)
  BY <1>4 DEF Establish, Lose, HidEvent, ConnectRuntime, ConnectSafety,
     DisconnectSafety, DisconnectRuntime, Retry, AuthComplete, vars
<1>5. QED BY <1>1, <1>2, <1>3, <1>4 DEF Next, ReleaseStep

\* The owner of a release remembers as sent only what went out on this link.
LEMMA EvidenceInvariant == Spec => []EvidenceIsFresh
<1>1. Init => EvidenceIsFresh
  BY DEF Init, EvidenceIsFresh, InitSafety
<1>2. /\ TypeOK /\ Counting /\ StateConsistent /\ HoldersExclusive
      /\ EvidenceIsFresh /\ [Next]_vars
      => EvidenceIsFresh'
  <2> SUFFICES ASSUME TypeOK, Counting, StateConsistent, HoldersExclusive,
                      EvidenceIsFresh, [Next]_vars, NEW u \in Tasks,
                      safety'.state = "RELEASING",
                      task'[u].generation = safety'.generation
               PROVE  /\ task'[u].pc \in {"sendConsumer", "complete"}
                         /\ task'[u].keyboard => "keyboard" \in zeroed'
                      /\ task'[u].pc = "complete" /\ task'[u].consumer
                           => "consumer" \in zeroed'
    BY DEF EvidenceIsFresh
  <2>1. ASSUME NEW t \in Tasks, Begin(t), MayBeginRelease(safety, task[t].generation)
        PROVE  task'[u].pc \notin {"sendConsumer", "complete"}
    <3>1. CASE u = t BY <2>1, <3>1 DEF Begin, TypeOK
    <3>2. CASE u # t
      <4>1. task'[u] = task[u] /\ safety'.generation = safety.generation
        BY <2>1, <3>2, OperatorsKeepLink DEF Begin, TypeOK
      <4>2. task[t].generation = safety.generation /\ Live(t)
        BY <2>1 DEF Begin, MayBeginRelease, Live
      <4>3. ~Live(u)
        BY <3>2, <4>1, <4>2 DEF HoldersExclusive, OneTaskPerGeneration
      <4>4. QED BY <4>1, <4>3 DEF Live
    <3>3. QED BY <3>1, <3>2
  <2>2. CASE safety' = safety /\ ~(\E ok \in BOOLEAN : AuthComplete(ok))
    <3>1. ~Establish
      BY <2>2, NoLinkWhileConnected DEF StateConsistent
    <3>2. zeroed \subseteq zeroed'
      BY <2>2, <3>1, ZeroedGrows
    <3>3. CASE task'[u] = task[u]
      BY <2>2, <3>2, <3>3 DEF EvidenceIsFresh
    <3>4. ASSUME NEW sent \in BOOLEAN, SendKeyboard(u, sent)
          PROVE  /\ task'[u].keyboard => "keyboard" \in zeroed'
                 /\ task'[u].pc = "sendConsumer"
      BY <3>4 DEF SendKeyboard, TypeOK
    <3>5. ASSUME NEW sent \in BOOLEAN, SendConsumer(u, sent)
          PROVE  /\ task'[u].keyboard => "keyboard" \in zeroed'
                 /\ task'[u].consumer => "consumer" \in zeroed'
      <4>1. task[u].pc = "sendConsumer" /\ task'[u].keyboard = task[u].keyboard
            /\ task'[u].consumer = sent /\ task'[u].generation = task[u].generation
        BY <3>5 DEF SendConsumer, TypeOK
      <4>2. task'[u].keyboard => "keyboard" \in zeroed'
        BY <2>2, <3>2, <4>1 DEF EvidenceIsFresh
      <4>3. task'[u].consumer => "consumer" \in zeroed'
        BY <3>5, <4>1 DEF SendConsumer
      <4>4. QED BY <4>2, <4>3
    <3>6. CASE \/ task'[u].pc \notin {"sendConsumer", "complete"}
      BY <3>6
    <3>7. \/ task'[u] = task[u]
          \/ task'[u].pc \notin {"sendConsumer", "complete"}
          \/ \E sent \in BOOLEAN : SendKeyboard(u, sent) \/ SendConsumer(u, sent)
      BY TaskSteps
    <3>8. QED BY <3>3, <3>4, <3>5, <3>6, <3>7
  <2>3. CASE \E t \in Tasks : Begin(t) /\ MayBeginRelease(safety, task[t].generation)
    <3>1. PICK t \in Tasks : Begin(t) /\ MayBeginRelease(safety, task[t].generation)
      BY <2>3
    <3>2. QED BY <2>1, <3>1
  <2>4. \/ safety' = safety /\ ~(\E ok \in BOOLEAN : AuthComplete(ok))
        \/ \E t \in Tasks : Begin(t) /\ MayBeginRelease(safety, task[t].generation)
    BY ReleasingFromBegin
  <2>5. QED BY <2>2, <2>3, <2>4
<1>3. QED
  BY <1>1, <1>2, TypeCorrect, CountingInvariant, StateInvariant,
     HoldersInvariant, PTL DEF Spec
\* Only a completed release that both reports survived makes a record ready.
LEMMA BecomesReady ==
  ASSUME TypeOK, StateConsistent, [Next]_vars, ~Ready(safety), Ready(safety)'
  PROVE  \E t \in Tasks :
           /\ Complete(t)
           /\ MayCompleteRelease(safety, task[t].generation)
           /\ task[t].keyboard /\ task[t].consumer
<1> USE DEF TypeOK, Ready
<1>0. safety' # safety OBVIOUS
<1>1. ASSUME NEW ok \in BOOLEAN, AuthComplete(ok) PROVE FALSE
  BY <1>1 DEF AuthComplete, Authenticated, AwaitingRelease, AuthenticationFailed
<1>2. ~ConnectSafety BY DEF ConnectSafety, Connected
<1>3. ~DisconnectSafety BY DEF DisconnectSafety, Disconnected, InitSafety
<1>4. ~Retry BY <1>0 DEF Retry, RequestRetry, AwaitingRelease
<1>5. ASSUME NEW t \in Tasks, Begin(t) PROVE FALSE
  BY <1>0, <1>5 DEF Begin, BeginRelease, Safety
<1>6. ASSUME NEW t \in Tasks, Complete(t)
      PROVE  /\ MayCompleteRelease(safety, task[t].generation)
             /\ task[t].keyboard /\ task[t].consumer
  <2>1. MayCompleteRelease(safety, task[t].generation)
    BY <1>0, <1>6 DEF Complete, CompleteRelease
  <2>2. safety'.state = IF task[t].keyboard /\ task[t].consumer
                        THEN "CONFIRMED" ELSE "FAILED_RETRYABLE"
    BY <1>6, <2>1 DEF Complete, CompleteRelease, Safety
  <2>3. QED BY <2>1, <2>2
<1>7. \E t \in Tasks : Complete(t)
  BY <1>0, <1>1, <1>2, <1>3, <1>4, <1>5, SafetyKept
  DEF Next, HidEvent, ReleaseStep
<1>8. QED BY <1>6, <1>7

\* Whatever the threads do, a ready record vouches for both zero reports, sent
\* over the present link after its latest authentication.
THEOREM ReadyMeansReleasedHolds == Spec => []ReadyMeansReleased
<1>1. Init => ReadyMeansReleased
  BY DEF Init, ReadyMeansReleased, Ready, InitSafety
<1>2. /\ TypeOK /\ TypeOK' /\ Counting /\ StateConsistent /\ EvidenceIsFresh
      /\ ReadyMeansReleased /\ [Next]_vars
      => ReadyMeansReleased'
  <2> SUFFICES ASSUME TypeOK, TypeOK', Counting, StateConsistent, EvidenceIsFresh,
                      ReadyMeansReleased, [Next]_vars, Ready(safety)'
               PROVE  zeroed' = {"keyboard", "consumer"}
    BY DEF ReadyMeansReleased
  <2>1. zeroed' \subseteq {"keyboard", "consumer"} BY DEF TypeOK
  <2>2. CASE Ready(safety)
    <3>1. ~Establish BY <2>2, NoLinkWhileConnected DEF Ready
    <3>2. ASSUME NEW ok \in BOOLEAN, AuthComplete(ok) PROVE FALSE
      BY <2>2, <3>2
      DEF AuthComplete, Authenticated, AwaitingRelease, AuthenticationFailed, Ready
    <3>3. zeroed \subseteq zeroed' BY <3>1, <3>2, ZeroedGrows
    <3>4. QED BY <2>1, <2>2, <3>3 DEF ReadyMeansReleased
  <2>3. CASE ~Ready(safety)
    <3>1. PICK t \in Tasks :
            /\ Complete(t)
            /\ MayCompleteRelease(safety, task[t].generation)
            /\ task[t].keyboard /\ task[t].consumer
      BY <2>3, BecomesReady
    <3>2. task[t].pc = "complete" /\ zeroed' = zeroed BY <3>1 DEF Complete
    <3>3. safety.state = "RELEASING" /\ task[t].generation = safety.generation
      BY <3>1 DEF MayCompleteRelease
    <3>4. "keyboard" \in zeroed /\ "consumer" \in zeroed
      BY <3>1, <3>2, <3>3 DEF EvidenceIsFresh
    <3>5. QED BY <2>1, <3>2, <3>4
  <2>4. QED BY <2>2, <2>3
<1>3. QED
  BY <1>1, <1>2, TypeCorrect, CountingInvariant, StateInvariant,
     EvidenceInvariant, PTL DEF Spec

\* Readiness goes only with a handled disconnect or a new authentication result.
THEOREM ReadyRevokedOnlyByHostHolds == Spec => ReadyRevokedOnlyByHost
<1>1. TypeOK /\ Counting /\ [Next]_vars
      => [Ready(safety) /\ ~Ready(safety)'
            => disconnects' # disconnects \/ auths' # auths]_vars
  <2> SUFFICES ASSUME TypeOK, Counting, [Next]_vars, Ready(safety), ~Ready(safety)'
               PROVE  disconnects' # disconnects \/ auths' # auths
    OBVIOUS
  <2> USE DEF TypeOK, Ready
  <2>0. safety' # safety OBVIOUS
  <2>1. ASSUME NEW ok \in BOOLEAN, AuthComplete(ok) PROVE auths' # auths
    BY <2>1 DEF AuthComplete
  <2>2. ~ConnectSafety BY DEF ConnectSafety, Counting
  <2>3. CASE DisconnectSafety BY <2>3 DEF DisconnectSafety
  <2>4. ~Retry BY <2>0 DEF Retry, RequestRetry
  <2>5. ASSUME NEW t \in Tasks, Begin(t) PROVE FALSE
    BY <2>0, <2>5 DEF Begin, MayBeginRelease
  <2>6. ASSUME NEW t \in Tasks, Complete(t) PROVE FALSE
    BY <2>0, <2>6 DEF Complete, CompleteRelease, MayCompleteRelease
  <2>7. QED
    BY <2>0, <2>1, <2>2, <2>3, <2>4, <2>5, <2>6, SafetyKept
    DEF Next, HidEvent, ReleaseStep
<1>2. QED
  BY <1>1, TypeCorrect, CountingInvariant, PTL DEF Spec, ReadyRevokedOnlyByHost
\* The whole of the invariant TLC checks on a small instance.
THEOREM InvariantHolds == Spec => []IInv
BY TypeCorrect, CountingInvariant, StateInvariant, HoldersInvariant,
   ReleasingHasOwnerHolds, EvidenceInvariant, ReadyMeansReleasedHolds, PTL
DEF IInv
-----------------------------------------------------------------------------
(* The release as START sees it *)

\* Any two values of readiness that a handler may lead from and to.
LEMMA ReadinessSteps ==
  ASSUME TypeOK,
         \/ Readiness(safety)' = Readiness(safety)
         \/ ~safety.connected /\ Readiness(safety)' = "PENDING"
         \/ safety.connected /\ Readiness(safety)' = "DISCONNECTED"
         \/ safety.connected /\ Readiness(safety)' \in {"PENDING", "FAILED"}
         \/ Readiness(safety) = "PENDING" /\ Readiness(safety)' = "READY"
  PROVE  [Abstraction!Next]_(Readiness(safety))
BY DEF Readiness, Abstraction!Next, Abstraction!HostConnects, Abstraction!HostDisconnects,
   Abstraction!ReleaseConfirmed, Abstraction!ReleaseFailed, Abstraction!ReleaseReopened

\* An attempt under way makes readiness pending; its end decides it.
LEMMA ReleaseReadiness ==
  ASSUME NEW s \in Safety, NEW g \in Generation, NEW k \in BOOLEAN, NEW c \in BOOLEAN
  PROVE  /\ MayBeginRelease(s, g)
              => s.connected /\ Readiness(BeginRelease(s)) = "PENDING"
         /\ MayCompleteRelease(s, g)
              => /\ s.connected /\ Readiness(s) = "PENDING"
                 /\ Readiness(CompleteRelease(s, g, k, c)) \in {"PENDING", "FAILED", "READY"}
         /\ ~MayCompleteRelease(s, g) => CompleteRelease(s, g, k, c) = s
<1>1. MayBeginRelease(s, g) => Readiness(BeginRelease(s)) = "PENDING"
  <2> SUFFICES ASSUME MayBeginRelease(s, g)
               PROVE  Readiness(BeginRelease(s)) = "PENDING"
    OBVIOUS
  <2>1. BeginRelease(s).connected /\ BeginRelease(s).state = "RELEASING"
    BY DEF BeginRelease, MayBeginRelease, Safety
  <2>2. QED BY <2>1 DEF Readiness, Ready
<1>2. MayCompleteRelease(s, g) => Readiness(s) = "PENDING"
  BY DEF MayCompleteRelease, Readiness, Ready
<1>3. MayCompleteRelease(s, g) =>
        Readiness(CompleteRelease(s, g, k, c)) \in {"PENDING", "FAILED", "READY"}
  BY DEF CompleteRelease, MayCompleteRelease, Readiness, Safety
<1>4. QED
  BY <1>1, <1>2, <1>3 DEF MayBeginRelease, MayCompleteRelease, CompleteRelease

\* The threads of the release together implement HidReadiness: every step is one
\* of its steps or leaves what START would read as it was.
THEOREM ReadinessImplemented == Spec => ImplementsReadiness
<1>1. Init => Abstraction!Init
  BY DEF Init, InitSafety, Readiness, Abstraction!Init
<1>2. TypeOK /\ Counting /\ [Next]_vars => [Abstraction!Next]_(Readiness(safety))
  <2> SUFFICES ASSUME TypeOK, Counting, [Next]_vars
               PROVE  [Abstraction!Next]_(Readiness(safety))
    OBVIOUS
  <2>1. ASSUME NEW ok \in BOOLEAN, AuthComplete(ok)
        PROVE  [Abstraction!Next]_(Readiness(safety))
    <3>1. CASE ~safety.connected
      BY <2>1, <3>1, ReadinessSteps DEF AuthComplete, Authenticated
    <3>2. CASE safety.connected
      <4>1. safety' = AwaitingRelease(safety) \/ safety' = AuthenticationFailed(safety)
        BY <2>1, <3>2 DEF AuthComplete, Authenticated
      <4>2. Readiness(AwaitingRelease(safety)) = "PENDING"
        BY AttemptsAssumption DEF AwaitingRelease, Readiness, Ready
      <4>3. Readiness(AuthenticationFailed(safety)) = "FAILED"
        BY DEF AuthenticationFailed, Readiness, Ready
      <4>4. QED BY <3>2, <4>1, <4>2, <4>3, ReadinessSteps
    <3>3. QED BY <3>1, <3>2
  <2>2. CASE ConnectSafety
    <3>1. ~safety.connected
      BY <2>2 DEF ConnectSafety, Counting, TypeOK
    <3>2. Readiness(Connected(safety)) = "PENDING"
      BY DEF Connected, Readiness, Ready
    <3>3. QED BY <2>2, <3>1, <3>2, ReadinessSteps DEF ConnectSafety
  <2>3. CASE DisconnectSafety
    <3>1. safety.connected
      BY <2>3 DEF DisconnectSafety, Counting, TypeOK
    <3>2. Readiness(Disconnected(safety)) = "DISCONNECTED"
      BY DEF Disconnected, InitSafety, Readiness
    <3>3. QED BY <2>3, <3>1, <3>2, ReadinessSteps DEF DisconnectSafety
  <2>4. CASE Retry
    <3>1. safety.connected BY <2>4 DEF Retry, MayRetry
    <3>2. safety' = safety \/ safety' = AwaitingRelease(safety)
      BY <2>4 DEF Retry, RequestRetry
    <3>3. Readiness(AwaitingRelease(safety)) = "PENDING"
      BY AttemptsAssumption DEF AwaitingRelease, Readiness, Ready
    <3>4. QED BY <3>1, <3>2, <3>3, ReadinessSteps
  <2>5. ASSUME NEW t \in Tasks, Begin(t)
        PROVE  [Abstraction!Next]_(Readiness(safety))
    <3>1. safety \in Safety /\ task[t].generation \in Generation
      BY DEF TypeOK
    <3>2. CASE MayBeginRelease(safety, task[t].generation)
      BY <2>5, <3>1, <3>2, ReleaseReadiness, ReadinessSteps DEF Begin
    <3>3. CASE ~MayBeginRelease(safety, task[t].generation)
      BY <2>5, <3>3, ReadinessSteps DEF Begin
    <3>4. QED BY <3>2, <3>3
  <2>6. ASSUME NEW t \in Tasks, Complete(t)
        PROVE  [Abstraction!Next]_(Readiness(safety))
    <3>1. /\ safety \in Safety /\ task[t].generation \in Generation
          /\ task[t].keyboard \in BOOLEAN /\ task[t].consumer \in BOOLEAN
      BY DEF TypeOK
    <3>2. safety' = CompleteRelease(safety, task[t].generation,
                                    task[t].keyboard, task[t].consumer)
      BY <2>6 DEF Complete
    <3>3. CASE MayCompleteRelease(safety, task[t].generation)
      BY <3>1, <3>2, <3>3, ReleaseReadiness, ReadinessSteps
    <3>4. CASE ~MayCompleteRelease(safety, task[t].generation)
      BY <3>1, <3>2, <3>4, ReleaseReadiness, ReadinessSteps
    <3>5. QED BY <3>3, <3>4
  <2>7. CASE safety' = safety BY <2>7, ReadinessSteps
  <2>8. QED
    BY <2>1, <2>2, <2>3, <2>4, <2>5, <2>6, <2>7, SafetyKept
    DEF Next, HidEvent, ReleaseStep
<1>3. QED
  BY <1>1, <1>2, TypeCorrect, CountingInvariant, PTL
  DEF Spec, ImplementsReadiness, Abstraction!Spec
=============================================================================
