------------------------ MODULE KeyboardSharingProofs ------------------------
(***************************************************************************)
(* Proofs about KeyboardSharing, for every number of keys, runs and links:   *)
(* no run walks away from a key, the busy flag has an owner, the console's    *)
(* two runs exclude each other, and a run alone does not type on at another   *)
(* host.                                                                     *)
(***************************************************************************)
EXTENDS KeyboardSharing, FiniteSetTheorems, TLAPS

-----------------------------------------------------------------------------
(* The inductive invariant *)

Places == {"none", "check", "armRunning", "leave"} \union Armed

\* Where a run has begun on a link and may still press a key.
MayPress == {"countdown", "type", "press", "hold", "release", "next"}

\* A run that has a key to type has not typed them all.
KeysLeft ==
  \A r \in Runs : pc[r] \in MayPress \union {"firstRelease"} => index[r] < Characters

\* The flag running has an owner that will lower it itself.
FlagOwned == running => \E r \in Runs : pc[r] \in Armed \ {"disarmStop"}

\* The handle of a console task says whether it is there; the console creates one only
\* when there is none.
HandlesTell ==
  /\ \A k \in ConsoleRuns : handle[k] <=> pc[k] # "none"
  /\ console \in ConsoleRuns => \A k \in ConsoleRuns : ~handle[k]
  /\ \A k, l \in ConsoleRuns : handle[k] /\ handle[l] => k = l

\* hid_callback lowers connected between its two requests to stop.
LinkKnown ==
  /\ hid \in {"stop", "connected"} => connected
  /\ hid \in {"stopAgain", "running"} => ~connected

\* Two runs that are armed at one time are both on record.
OverlapKnown ==
  \A r, s \in Runs : r # s /\ pc[r] \in Armed /\ pc[s] \in Armed => r \in overlapped

\* Unless another run interfered, a run that may press a key is on the link it began
\* on, or the stop flag is up or about to be.
StopStands ==
  \A r \in Runs \ overlapped : pc[r] \in MayPress =>
    stopRequested \/ (begunOn[r] = links /\ (connected \/ hid = "stopAgain"))

\* The first stray key finds the stop flag up, and so is the last.
StraysKnown ==
  /\ \A r \in Runs :
       pc[r] \in {"none", "check", "armRunning", "armStop", "firstRelease", "countdown"}
         => strays[r] = 0
  /\ \A r \in Runs \ overlapped :
       /\ strays[r] <= 1
       /\ pc[r] \in {"type", "press", "release", "next"} => strays[r] = 0
       /\ pc[r] = "hold" /\ strays[r] # 0 => stopRequested

IInv ==
  /\ TypeOK
  /\ KeysLeft
  /\ FlagOwned
  /\ HandlesTell
  /\ LinkKnown
  /\ OverlapKnown
  /\ StopStands
  /\ StraysKnown
  /\ KeyAccounted

-----------------------------------------------------------------------------
(* Parts of the type invariant *)

CountersTyped ==
  /\ index \in [Runs -> 0 .. Characters]
  /\ begunOn \in [Runs -> 0 .. MaxLinks] /\ strays \in [Runs -> 0 .. 2]
  /\ links \in 0 .. MaxLinks /\ starts \in 0 .. MaxStarts

FlagsTyped ==
  /\ connected \in BOOLEAN /\ running \in BOOLEAN /\ stopRequested \in BOOLEAN
  /\ held \in BOOLEAN /\ refused \in BOOLEAN
  /\ handle \in [ConsoleRuns -> BOOLEAN]

-----------------------------------------------------------------------------
(* What the steps leave alone *)

\* Everything but the starting of runs and the runs themselves.
Outside ==
  \/ LinkUp \/ LinkDown \/ LinkDownFlags
  \/ RequestStop \/ SafetyRelease
  \/ \E stop \in BOOLEAN : ConsoleStop(stop)
  \/ \E ok \in BOOLEAN : ConsoleRelease(ok)

\* The host, hid_callback and the console's stop leave the runs where they are, and
\* only raise the stop flag.
LEMMA OutsideFrame ==
  ASSUME TypeOK, Outside
  PROVE  /\ UNCHANGED <<pc, index, handle, starts, historyVars, overlapped>>
         /\ console' = console \/ console' \in {"idle", "release"}
         /\ stopRequested => stopRequested'
         /\ running' => running
<1> running \in BOOLEAN /\ stopRequested \in BOOLEAN BY DEF TypeOK
<1> USE DEF flagVars, linkVars, consoleVars, keyVars, historyVars
<1>1. CASE LinkUp BY <1>1 DEF LinkUp
<1>2. CASE LinkDown BY <1>2 DEF LinkDown
<1>3. CASE LinkDownFlags BY <1>3 DEF LinkDownFlags
<1>4. CASE RequestStop BY <1>4 DEF RequestStop
<1>5. CASE SafetyRelease BY <1>5 DEF SafetyRelease
<1>6. CASE \E stop \in BOOLEAN : ConsoleStop(stop) BY <1>6 DEF ConsoleStop
<1>7. CASE \E ok \in BOOLEAN : ConsoleRelease(ok) BY <1>7 DEF ConsoleRelease
<1>8. QED BY <1>1, <1>2, <1>3, <1>4, <1>5, <1>6, <1>7 DEF Outside

\* A run moves itself alone; a run that is on record as overlapped stays so until it
\* leaves.
LEMMA StepOfOne ==
  ASSUME TypeOK, NEW r \in Runs, RunStep(r)
  PROVE  /\ pc' = [pc EXCEPT ![r] = pc'[r]]
         /\ UNCHANGED <<connected, console, hid, links, starts>>
         /\ \A s \in Runs \ {r} : index'[s] = index[s] /\ begunOn'[s] = begunOn[s]
                                    /\ strays'[s] = strays[s]
         /\ \A s \in Runs \ overlapped' : pc'[s] # "none" => s \notin overlapped
<1> pc \in [Runs -> Places] /\ index \in [Runs -> 0 .. Characters]
      /\ begunOn \in [Runs -> 0 .. MaxLinks] /\ strays \in [Runs -> 0 .. 2]
  BY DEF TypeOK, Places
<1> USE DEF Goto, flagVars, linkVars, consoleVars, keyVars, historyVars
<1>1. pc' = [pc EXCEPT ![r] = pc'[r]]
  BY DEF RunStep, Check, ArmRunning, ArmStop, Countdown, GiveUp, TypeKey, Hold, NextKey,
     Disarm, Leave, FirstRelease, Abort, Press, KeyUp, EndRelease
<1>2. UNCHANGED <<connected, console, hid, links, starts>>
  BY DEF RunStep, Check, ArmRunning, ArmStop, Countdown, GiveUp, TypeKey, Hold, NextKey,
     Disarm, Leave, FirstRelease, Abort, Press, KeyUp, EndRelease
<1>3. ASSUME NEW s \in Runs \ {r}
      PROVE  index'[s] = index[s] /\ begunOn'[s] = begunOn[s] /\ strays'[s] = strays[s]
  BY DEF RunStep, Check, ArmRunning, ArmStop, Countdown, GiveUp, TypeKey, Hold, NextKey,
     Disarm, Leave, FirstRelease, Abort, Press, KeyUp, EndRelease, BeginOnLink
<1>4. \A s \in Runs \ overlapped' : pc'[s] # "none" => s \notin overlapped
  BY DEF RunStep
<1>5. QED BY <1>1, <1>2, <1>3, <1>4

\* A set of two runs or more has a Cardinality above 1.
LEMMA TwoAreMany ==
  ASSUME NEW S \in SUBSET Runs, NEW r \in S, NEW s \in S, r # s
  PROVE  Cardinality(S) > 1
<1>1. IsFiniteSet(Runs)
  <2>1. Runs = {"test", "schedule", "dedicated"} BY DEF Runs, ConsoleRuns
  <2>2. IsFiniteSet({}) BY FS_EmptySet
  <2>3. IsFiniteSet({"test"}) BY <2>2, FS_Singleton
  <2>4. IsFiniteSet({"test", "schedule"}) BY <2>3, FS_AddElement
  <2>5. QED BY <2>1, <2>4, FS_AddElement
<1>2. IsFiniteSet(S) BY <1>1, FS_Subset
<1>3. Cardinality(S) \in Nat BY <1>2, FS_CardinalityType
<1>4. Cardinality({r}) = 1 /\ IsFiniteSet({r}) BY FS_Singleton
<1>5. Cardinality({r}) <= Cardinality(S) /\ Cardinality({r}) # Cardinality(S)
  BY <1>2, FS_Subset
<1>6. QED BY <1>3, <1>4, <1>5

-----------------------------------------------------------------------------
(* Each part of the invariant is kept, action by action *)

\* A key is down only until the run that pressed it has released it.
LEMMA KeyStep ==
  ASSUME TypeOK, HandlesTell, KeyAccounted, [Next]_vars
  PROVE  KeyAccounted'
<1> pc \in [Runs -> Places]
  BY DEF TypeOK, Places
<1> USE DEF KeyAccounted, Releasing, Goto, Runs, flagVars, linkVars, consoleVars,
      keyVars, historyVars
<1>1. CASE StartDedicated
  BY <1>1 DEF StartDedicated, Goto
<1>2. ASSUME NEW k \in ConsoleRuns, ConsoleStart(k) PROVE KeyAccounted'
  BY <1>2 DEF ConsoleStart
<1>3. ASSUME NEW ok \in BOOLEAN, ConsoleCreate(ok) PROVE KeyAccounted'
  <2>1. CASE ok
    <3>1. console \in Runs /\ pc[console] = "none"
      BY <1>3 DEF ConsoleCreate, HandlesTell, Runs
    <3>2. QED BY <1>3, <2>1, <3>1 DEF ConsoleCreate
  <2>2. CASE ~ok BY <1>3, <2>2 DEF ConsoleCreate
  <2>3. QED BY <2>1, <2>2
<1>4. ASSUME NEW r \in Runs, RunStep(r) PROVE KeyAccounted'
  <2>1. CASE Check(r)
    BY <2>1 DEF Check, Goto
  <2>2. CASE ArmRunning(r)
    BY <2>2 DEF ArmRunning, Goto
  <2>3. CASE ArmStop(r)
    BY <2>3 DEF ArmStop, Goto
  <2>4. CASE Countdown(r)
    BY <2>4 DEF Countdown, Goto
  <2>5. CASE GiveUp(r)
    BY <2>5 DEF GiveUp, Goto
  <2>6. CASE TypeKey(r)
    BY <2>6 DEF TypeKey, Goto, Ending
  <2>7. CASE Hold(r)
    BY <2>7 DEF Hold, Goto
  <2>8. CASE NextKey(r)
    BY <2>8 DEF NextKey, Goto, Ending
  <2>9. CASE Disarm(r)
    BY <2>9 DEF Disarm, Goto
  <2>10. CASE Leave(r)
    BY <2>10 DEF Leave, Goto
  <2>11. ASSUME NEW ok \in BOOLEAN, FirstRelease(r, ok) PROVE KeyAccounted'
    BY <2>11 DEF FirstRelease, Goto, BeginOnLink, ReleaseAll
  <2>12. ASSUME NEW ok \in BOOLEAN, Abort(r, ok) PROVE KeyAccounted'
    BY <2>12 DEF Abort, Goto, ReleaseAll
  <2>13. ASSUME NEW ok \in BOOLEAN, Press(r, ok) PROVE KeyAccounted'
    BY <2>13 DEF Press, Goto
  <2>14. ASSUME NEW ok \in BOOLEAN, KeyUp(r, ok) PROVE KeyAccounted'
    BY <2>14 DEF KeyUp, Goto, ReleaseAll
  <2>15. ASSUME NEW ok \in BOOLEAN, EndRelease(r, ok) PROVE KeyAccounted'
    BY <2>15 DEF EndRelease, Goto, ReleaseAll
  <2> QED BY <1>4, <2>1, <2>2, <2>3, <2>4, <2>5, <2>6, <2>7, <2>8, <2>9, <2>10, <2>11,
     <2>12, <2>13, <2>14, <2>15 DEF RunStep
<1>5. CASE LinkUp
  BY <1>5 DEF LinkUp
<1>6. CASE LinkDown
  BY <1>6 DEF LinkDown
<1>7. CASE LinkDownFlags
  BY <1>7 DEF LinkDownFlags
<1>8. CASE RequestStop
  BY <1>8 DEF RequestStop
<1>9. CASE SafetyRelease
  BY <1>9 DEF SafetyRelease, ReleaseAll
<1>10. ASSUME NEW stop \in BOOLEAN, ConsoleStop(stop) PROVE KeyAccounted'
  BY <1>10 DEF ConsoleStop
<1>11. ASSUME NEW ok \in BOOLEAN, ConsoleRelease(ok) PROVE KeyAccounted'
  BY <1>11 DEF ConsoleRelease, ReleaseAll
<1>12. CASE UNCHANGED vars BY <1>12 DEF vars
<1> QED BY <1>1, <1>2, <1>3, <1>4, <1>5, <1>6, <1>7, <1>8, <1>9, <1>10, <1>11, <1>12
     DEF Next

\* Who raises the flag running keeps it until it lowers it.
LEMMA FlagStep ==
  ASSUME TypeOK, HandlesTell, FlagOwned, [Next]_vars
  PROVE  FlagOwned'
<1> pc \in [Runs -> Places]
  BY DEF TypeOK, Places
<1> USE DEF FlagOwned, Armed, Releasing, Goto, flagVars, linkVars, consoleVars,
      keyVars, historyVars
<1>1. CASE StartDedicated
  BY <1>1 DEF StartDedicated, Goto
<1>2. ASSUME NEW k \in ConsoleRuns, ConsoleStart(k) PROVE FlagOwned'
  BY <1>2 DEF ConsoleStart
<1>3. ASSUME NEW ok \in BOOLEAN, ConsoleCreate(ok) PROVE FlagOwned'
  <2>1. CASE ok
    <3>1. console \in Runs /\ pc[console] = "none"
      BY <1>3 DEF ConsoleCreate, HandlesTell, Runs
    <3>2. QED BY <1>3, <2>1, <3>1 DEF ConsoleCreate
  <2>2. CASE ~ok BY <1>3, <2>2 DEF ConsoleCreate
  <2>3. QED BY <2>1, <2>2
<1>4. ASSUME NEW r \in Runs, RunStep(r) PROVE FlagOwned'
  <2>1. CASE Check(r)
    BY <2>1 DEF Check, Goto
  <2>2. CASE ArmRunning(r)
    BY <2>2 DEF ArmRunning, Goto
  <2>3. CASE ArmStop(r)
    BY <2>3 DEF ArmStop, Goto
  <2>4. CASE Countdown(r)
    BY <2>4 DEF Countdown, Goto
  <2>5. CASE GiveUp(r)
    BY <2>5 DEF GiveUp, Goto
  <2>6. CASE TypeKey(r)
    BY <2>6 DEF TypeKey, Goto, Ending
  <2>7. CASE Hold(r)
    BY <2>7 DEF Hold, Goto
  <2>8. CASE NextKey(r)
    BY <2>8 DEF NextKey, Goto, Ending
  <2>9. CASE Disarm(r)
    BY <2>9 DEF Disarm, Goto
  <2>10. CASE Leave(r)
    BY <2>10 DEF Leave, Goto
  <2>11. ASSUME NEW ok \in BOOLEAN, FirstRelease(r, ok) PROVE FlagOwned'
    BY <2>11 DEF FirstRelease, Goto, BeginOnLink
  <2>12. ASSUME NEW ok \in BOOLEAN, Abort(r, ok) PROVE FlagOwned'
    BY <2>12 DEF Abort, Goto
  <2>13. ASSUME NEW ok \in BOOLEAN, Press(r, ok) PROVE FlagOwned'
    BY <2>13 DEF Press, Goto
  <2>14. ASSUME NEW ok \in BOOLEAN, KeyUp(r, ok) PROVE FlagOwned'
    BY <2>14 DEF KeyUp, Goto
  <2>15. ASSUME NEW ok \in BOOLEAN, EndRelease(r, ok) PROVE FlagOwned'
    BY <2>15 DEF EndRelease, Goto
  <2> QED BY <1>4, <2>1, <2>2, <2>3, <2>4, <2>5, <2>6, <2>7, <2>8, <2>9, <2>10, <2>11,
     <2>12, <2>13, <2>14, <2>15 DEF RunStep
<1>5. CASE Outside
  BY <1>5, OutsideFrame
<1>6. CASE UNCHANGED vars BY <1>6 DEF vars
<1> QED BY <1>1, <1>2, <1>3, <1>4, <1>5, <1>6 DEF Next, Outside

\* The console tests both handles before it creates a task.
LEMMA HandleStep ==
  ASSUME TypeOK, HandlesTell, [Next]_vars
  PROVE  HandlesTell'
<1> pc \in [Runs -> Places]
  BY DEF TypeOK, Places
<1> USE DEF HandlesTell, ConsoleRuns, Runs, flagVars, linkVars, consoleVars, keyVars,
      historyVars
<1>1. CASE StartDedicated
  BY <1>1 DEF StartDedicated, Goto
<1>2. ASSUME NEW k \in ConsoleRuns, ConsoleStart(k) PROVE HandlesTell'
  BY <1>2 DEF ConsoleStart
<1>3. ASSUME NEW ok \in BOOLEAN, ConsoleCreate(ok) PROVE HandlesTell'
  <2>1. CASE ok
    <3>1. handle \in [ConsoleRuns -> BOOLEAN] BY DEF TypeOK
    <3>2. \A k \in ConsoleRuns : ~handle[k] BY <1>3 DEF ConsoleCreate
    <3>3. handle' = [handle EXCEPT ![console] = TRUE]
            /\ pc' = [pc EXCEPT ![console] = "check"] /\ console' = "idle"
            /\ console \in ConsoleRuns
      BY <1>3, <2>1 DEF ConsoleCreate, Goto
    <3>4. QED BY <3>1, <3>2, <3>3
  <2>2. CASE ~ok BY <1>3, <2>2 DEF ConsoleCreate
  <2>3. QED BY <2>1, <2>2
<1>4. ASSUME NEW r \in Runs, RunStep(r) PROVE HandlesTell'
  <2>1. CASE Check(r)
    BY <2>1 DEF Check, Goto
  <2>2. CASE ArmRunning(r)
    BY <2>2 DEF ArmRunning, Goto
  <2>3. CASE ArmStop(r)
    BY <2>3 DEF ArmStop, Goto
  <2>4. CASE Countdown(r)
    BY <2>4 DEF Countdown, Goto
  <2>5. CASE GiveUp(r)
    BY <2>5 DEF GiveUp, Goto
  <2>6. CASE TypeKey(r)
    BY <2>6 DEF TypeKey, Goto, Ending
  <2>7. CASE Hold(r)
    BY <2>7 DEF Hold, Goto
  <2>8. CASE NextKey(r)
    BY <2>8 DEF NextKey, Goto, Ending
  <2>9. CASE Disarm(r)
    BY <2>9 DEF Disarm, Goto
  <2>10. CASE Leave(r)
    BY <2>10 DEF Leave, Goto
  <2>11. ASSUME NEW ok \in BOOLEAN, FirstRelease(r, ok) PROVE HandlesTell'
    BY <2>11 DEF FirstRelease, Goto, BeginOnLink
  <2>12. ASSUME NEW ok \in BOOLEAN, Abort(r, ok) PROVE HandlesTell'
    BY <2>12 DEF Abort, Goto
  <2>13. ASSUME NEW ok \in BOOLEAN, Press(r, ok) PROVE HandlesTell'
    BY <2>13 DEF Press, Goto
  <2>14. ASSUME NEW ok \in BOOLEAN, KeyUp(r, ok) PROVE HandlesTell'
    BY <2>14 DEF KeyUp, Goto
  <2>15. ASSUME NEW ok \in BOOLEAN, EndRelease(r, ok) PROVE HandlesTell'
    BY <2>15 DEF EndRelease, Goto
  <2> QED BY <1>4, <2>1, <2>2, <2>3, <2>4, <2>5, <2>6, <2>7, <2>8, <2>9, <2>10, <2>11,
     <2>12, <2>13, <2>14, <2>15 DEF RunStep
<1>5. CASE Outside
  BY <1>5, OutsideFrame
<1>6. CASE UNCHANGED vars BY <1>6 DEF vars
<1> QED BY <1>1, <1>2, <1>3, <1>4, <1>5, <1>6 DEF Next, Outside

\* The run ends with its last key.
LEMMA KeysLeftStep ==
  ASSUME TypeOK, KeysLeft, [Next]_vars
  PROVE  KeysLeft'
<1> pc \in [Runs -> Places] /\ index \in [Runs -> 0 .. Characters]
  BY DEF TypeOK, Places
<1> USE CharactersAssumption
<1> USE DEF KeysLeft, MayPress, flagVars, linkVars, consoleVars, keyVars, historyVars
<1>1. CASE StartDedicated
  BY <1>1 DEF StartDedicated, Goto
<1>2. ASSUME NEW k \in ConsoleRuns, ConsoleStart(k) PROVE KeysLeft'
  BY <1>2 DEF ConsoleStart
<1>3. ASSUME NEW ok \in BOOLEAN, ConsoleCreate(ok) PROVE KeysLeft'
  BY <1>3 DEF ConsoleCreate, Goto
<1>4. ASSUME NEW r \in Runs, RunStep(r) PROVE KeysLeft'
  <2>1. CASE Check(r)
    BY <2>1 DEF Check, Goto
  <2>2. CASE ArmRunning(r)
    BY <2>2 DEF ArmRunning, Goto
  <2>3. CASE ArmStop(r)
    BY <2>3 DEF ArmStop, Goto
  <2>4. CASE Countdown(r)
    BY <2>4 DEF Countdown, Goto
  <2>5. CASE GiveUp(r)
    BY <2>5 DEF GiveUp, Goto
  <2>6. CASE TypeKey(r)
    BY <2>6 DEF TypeKey, Goto, Ending
  <2>7. CASE Hold(r)
    BY <2>7 DEF Hold, Goto
  <2>8. CASE NextKey(r)
    BY <2>8 DEF NextKey, Goto, Ending
  <2>9. CASE Disarm(r)
    BY <2>9 DEF Disarm, Goto
  <2>10. CASE Leave(r)
    BY <2>10 DEF Leave, Goto
  <2>11. ASSUME NEW ok \in BOOLEAN, FirstRelease(r, ok) PROVE KeysLeft'
    BY <2>11 DEF FirstRelease, Goto, BeginOnLink
  <2>12. ASSUME NEW ok \in BOOLEAN, Abort(r, ok) PROVE KeysLeft'
    BY <2>12 DEF Abort, Goto
  <2>13. ASSUME NEW ok \in BOOLEAN, Press(r, ok) PROVE KeysLeft'
    BY <2>13 DEF Press, Goto
  <2>14. ASSUME NEW ok \in BOOLEAN, KeyUp(r, ok) PROVE KeysLeft'
    BY <2>14 DEF KeyUp, Goto
  <2>15. ASSUME NEW ok \in BOOLEAN, EndRelease(r, ok) PROVE KeysLeft'
    BY <2>15 DEF EndRelease, Goto
  <2> QED BY <1>4, <2>1, <2>2, <2>3, <2>4, <2>5, <2>6, <2>7, <2>8, <2>9, <2>10, <2>11,
     <2>12, <2>13, <2>14, <2>15 DEF RunStep
<1>5. CASE Outside
  BY <1>5, OutsideFrame
<1>6. CASE UNCHANGED vars BY <1>6 DEF vars
<1> QED BY <1>1, <1>2, <1>3, <1>4, <1>5, <1>6 DEF Next, Outside

\* hid_callback goes through its assignments in order.
LEMMA LinkStep ==
  ASSUME TypeOK, LinkKnown, [Next]_vars
  PROVE  LinkKnown'
<1> USE DEF LinkKnown, flagVars, linkVars
<1> connected \in BOOLEAN BY DEF TypeOK
<1>1. CASE StartDedicated BY <1>1 DEF StartDedicated
<1>2. CASE \E k \in ConsoleRuns : ConsoleStart(k) BY <1>2 DEF ConsoleStart
<1>3. CASE \E ok \in BOOLEAN : ConsoleCreate(ok) BY <1>3 DEF ConsoleCreate
<1>4. ASSUME NEW r \in Runs, RunStep(r) PROVE LinkKnown' BY <1>4, StepOfOne
<1>5. CASE LinkUp BY <1>5 DEF LinkUp
<1>6. CASE LinkDown BY <1>6 DEF LinkDown
<1>7. CASE LinkDownFlags BY <1>7 DEF LinkDownFlags
<1>8. CASE RequestStop BY <1>8 DEF RequestStop
<1>12. CASE SafetyRelease BY <1>12 DEF SafetyRelease
<1>9. CASE \E stop \in BOOLEAN : ConsoleStop(stop) BY <1>9 DEF ConsoleStop
<1>10. CASE \E ok \in BOOLEAN : ConsoleRelease(ok) BY <1>10 DEF ConsoleRelease
<1>11. CASE UNCHANGED vars BY <1>11 DEF vars
<1> QED BY <1>1, <1>2, <1>3, <1>4, <1>5, <1>6, <1>7, <1>8, <1>9, <1>10, <1>11, <1>12 DEF
     Next

\* Every step of a run looks for a second armed run.
LEMMA OverlapStep ==
  ASSUME TypeOK, HandlesTell, OverlapKnown, [Next]_vars
  PROVE  OverlapKnown'
<1> pc \in [Runs -> Places]
  BY DEF TypeOK, Places
<1> USE DEF OverlapKnown
<1>1. CASE StartDedicated
  BY <1>1 DEF StartDedicated, Goto, Armed, Releasing
<1>2. CASE \E k \in ConsoleRuns : ConsoleStart(k) BY <1>2 DEF ConsoleStart
<1>3. CASE \E ok \in BOOLEAN : ConsoleCreate(ok)
  BY <1>3 DEF ConsoleCreate, Goto, Armed, Releasing
<1>4. ASSUME NEW r \in Runs, RunStep(r) PROVE OverlapKnown'
  <2> SUFFICES ASSUME NEW s \in Runs, NEW t \in Runs, s # t,
                      pc'[s] \in Armed, pc'[t] \in Armed
               PROVE  s \in overlapped'
    OBVIOUS
  <2>1. ArmedRuns' \in SUBSET Runs /\ s \in ArmedRuns' /\ t \in ArmedRuns'
    BY DEF ArmedRuns
  <2>2. Cardinality(ArmedRuns') > 1
    BY <2>1, TwoAreMany
  <2>3. QED BY <1>4, <2>1, <2>2 DEF RunStep
<1>5. CASE Outside BY <1>5, OutsideFrame
<1>6. CASE UNCHANGED vars BY <1>6 DEF vars
<1> QED BY <1>1, <1>2, <1>3, <1>4, <1>5, <1>6 DEF Next, Outside

\* A link is not replaced before the stop flag is up, and nobody but another armed run
\* takes it down.
LEMMA StopStep ==
  ASSUME TypeOK, HandlesTell, LinkKnown, OverlapKnown, StopStands, [Next]_vars
  PROVE  StopStands'
<1> /\ pc \in [Runs -> Places] /\ begunOn \in [Runs -> 0 .. MaxLinks]
    /\ strays \in [Runs -> 0 .. 2] /\ links \in 0 .. MaxLinks
    /\ stopRequested \in BOOLEAN /\ connected \in BOOLEAN
  BY DEF TypeOK, Places
<1> USE DEF StopStands, OverlapKnown, MayPress, Armed, Releasing, LinkKnown, StopSeen,
      BeginOnLink, flagVars, linkVars, consoleVars, keyVars, historyVars
<1>1. CASE StartDedicated
  BY <1>1 DEF StartDedicated, Goto
<1>2. ASSUME NEW k \in ConsoleRuns, ConsoleStart(k) PROVE StopStands'
  BY <1>2 DEF ConsoleStart
<1>3. ASSUME NEW ok \in BOOLEAN, ConsoleCreate(ok) PROVE StopStands'
  BY <1>3 DEF ConsoleCreate, Goto
<1>4. ASSUME NEW r \in Runs, RunStep(r) PROVE StopStands'
  <2> UNCHANGED <<connected, console, hid, links>>
      /\ \A s \in Runs \ overlapped' : pc'[s] # "none" => s \notin overlapped
    BY <1>4, StepOfOne
  <2>1. CASE Check(r)
    BY <2>1 DEF Check, Goto
  <2>2. CASE ArmRunning(r)
    BY <2>2 DEF ArmRunning, Goto
  <2>3. CASE ArmStop(r)
    BY <2>3 DEF ArmStop, Goto
  <2>4. CASE Countdown(r)
    BY <2>4 DEF Countdown, Goto
  <2>5. CASE GiveUp(r)
    BY <2>5 DEF GiveUp, Goto
  <2>6. CASE TypeKey(r)
    BY <2>6 DEF TypeKey, Goto, Ending
  <2>7. CASE Hold(r)
    BY <2>7 DEF Hold, Goto
  <2>8. CASE NextKey(r)
    BY <2>8 DEF NextKey, Goto, Ending
  <2>9. CASE Disarm(r)
    BY <2>9 DEF Disarm, Goto
  <2>10. CASE Leave(r)
    BY <2>10 DEF Leave, Goto
  <2>11. ASSUME NEW ok \in BOOLEAN, FirstRelease(r, ok) PROVE StopStands'
    BY <2>11 DEF FirstRelease, Goto, BeginOnLink, ReleaseAll
  <2>12. ASSUME NEW ok \in BOOLEAN, Abort(r, ok) PROVE StopStands'
    BY <2>12 DEF Abort, Goto
  <2>13. ASSUME NEW ok \in BOOLEAN, Press(r, ok) PROVE StopStands'
    BY <2>13 DEF Press, Goto
  <2>14. ASSUME NEW ok \in BOOLEAN, KeyUp(r, ok) PROVE StopStands'
    BY <2>14 DEF KeyUp, Goto
  <2>15. ASSUME NEW ok \in BOOLEAN, EndRelease(r, ok) PROVE StopStands'
    BY <2>15 DEF EndRelease, Goto
  <2> QED BY <1>4, <2>1, <2>2, <2>3, <2>4, <2>5, <2>6, <2>7, <2>8, <2>9, <2>10, <2>11,
     <2>12, <2>13, <2>14, <2>15 DEF RunStep
<1>5. CASE LinkUp
  BY <1>5 DEF LinkUp
<1>6. CASE LinkDown
  BY <1>6 DEF LinkDown
<1>7. CASE LinkDownFlags
  BY <1>7 DEF LinkDownFlags
<1>8. CASE RequestStop
  BY <1>8 DEF RequestStop
<1>9. CASE SafetyRelease
  BY <1>9 DEF SafetyRelease
<1>10. ASSUME NEW stop \in BOOLEAN, ConsoleStop(stop) PROVE StopStands'
  BY <1>10 DEF ConsoleStop
<1>11. ASSUME NEW ok \in BOOLEAN, ConsoleRelease(ok) PROVE StopStands'
  BY <1>11 DEF ConsoleRelease
<1>12. CASE UNCHANGED vars BY <1>12 DEF vars
<1> QED BY <1>1, <1>2, <1>3, <1>4, <1>5, <1>6, <1>7, <1>8, <1>9, <1>10, <1>11, <1>12
     DEF Next

\* The hold after a stray press sees the flag.
LEMMA StraysStep ==
  ASSUME TypeOK, HandlesTell, OverlapKnown, StopStands, StraysKnown, [Next]_vars
  PROVE  StraysKnown'
<1> /\ pc \in [Runs -> Places] /\ begunOn \in [Runs -> 0 .. MaxLinks]
    /\ strays \in [Runs -> 0 .. 2] /\ links \in 0 .. MaxLinks
    /\ stopRequested \in BOOLEAN /\ connected \in BOOLEAN
  BY DEF TypeOK, Places
<1> USE DEF StraysKnown, StopStands, OverlapKnown, MayPress, Armed, Releasing,
      StopSeen, flagVars, linkVars, consoleVars, keyVars, historyVars
<1>1. CASE StartDedicated
  BY <1>1 DEF StartDedicated, Goto
<1>2. ASSUME NEW k \in ConsoleRuns, ConsoleStart(k) PROVE StraysKnown'
  BY <1>2 DEF ConsoleStart
<1>3. ASSUME NEW ok \in BOOLEAN, ConsoleCreate(ok) PROVE StraysKnown'
  <2>1. CASE ok
    <3>1. console \in Runs /\ pc[console] = "none"
      BY <1>3 DEF ConsoleCreate, HandlesTell, Runs
    <3>2. QED BY <1>3, <2>1, <3>1 DEF ConsoleCreate, Goto
  <2>2. CASE ~ok BY <1>3, <2>2 DEF ConsoleCreate
  <2>3. QED BY <2>1, <2>2
<1>4. ASSUME NEW r \in Runs, RunStep(r) PROVE StraysKnown'
  <2> UNCHANGED <<connected, console, hid, links>>
      /\ \A s \in Runs \ overlapped' : pc'[s] # "none" => s \notin overlapped
    BY <1>4, StepOfOne
  <2>1. CASE Check(r)
    BY <2>1 DEF Check, Goto
  <2>2. CASE ArmRunning(r)
    BY <2>2 DEF ArmRunning, Goto
  <2>3. CASE ArmStop(r)
    BY <2>3 DEF ArmStop, Goto
  <2>4. CASE Countdown(r)
    BY <2>4 DEF Countdown, Goto
  <2>5. CASE GiveUp(r)
    BY <2>5 DEF GiveUp, Goto
  <2>6. CASE TypeKey(r)
    BY <2>6 DEF TypeKey, Goto, Ending
  <2>7. CASE Hold(r)
    BY <2>7 DEF Hold, Goto
  <2>8. CASE NextKey(r)
    BY <2>8 DEF NextKey, Goto, Ending
  <2>9. CASE Disarm(r)
    BY <2>9 DEF Disarm, Goto
  <2>10. CASE Leave(r)
    BY <2>10 DEF Leave, Goto
  <2>11. ASSUME NEW ok \in BOOLEAN, FirstRelease(r, ok) PROVE StraysKnown'
    BY <2>11 DEF FirstRelease, Goto, BeginOnLink
  <2>12. ASSUME NEW ok \in BOOLEAN, Abort(r, ok) PROVE StraysKnown'
    BY <2>12 DEF Abort, Goto
  <2>13. ASSUME NEW ok \in BOOLEAN, Press(r, ok) PROVE StraysKnown'
    BY <2>13 DEF Press, Goto, UpTo2
  <2>14. ASSUME NEW ok \in BOOLEAN, KeyUp(r, ok) PROVE StraysKnown'
    BY <2>14 DEF KeyUp, Goto
  <2>15. ASSUME NEW ok \in BOOLEAN, EndRelease(r, ok) PROVE StraysKnown'
    BY <2>15 DEF EndRelease, Goto
  <2> QED BY <1>4, <2>1, <2>2, <2>3, <2>4, <2>5, <2>6, <2>7, <2>8, <2>9, <2>10, <2>11,
     <2>12, <2>13, <2>14, <2>15 DEF RunStep
<1>5. CASE Outside
  BY <1>5, OutsideFrame
<1>6. CASE UNCHANGED vars BY <1>6 DEF vars
<1> QED BY <1>1, <1>2, <1>3, <1>4, <1>5, <1>6 DEF Next, Outside

\* Every run stays at one of its places.
LEMMA PlaceTypes ==
  ASSUME TypeOK, [Next]_vars
  PROVE  pc' \in [Runs -> Places]
<1> pc \in [Runs -> Places]
  BY DEF TypeOK, Places
<1> USE DEF Places, Armed, Releasing, Runs, flagVars, linkVars, consoleVars, keyVars,
      historyVars
<1>1. CASE StartDedicated
  BY <1>1 DEF StartDedicated, Goto
<1>2. ASSUME NEW k \in ConsoleRuns, ConsoleStart(k) PROVE pc' \in [Runs -> Places]
  BY <1>2 DEF ConsoleStart
<1>3. ASSUME NEW ok \in BOOLEAN, ConsoleCreate(ok) PROVE pc' \in [Runs -> Places]
  BY <1>3 DEF ConsoleCreate, Goto
<1>4. ASSUME NEW r \in Runs, RunStep(r) PROVE pc' \in [Runs -> Places]
  <2>1. CASE Check(r)
    BY <2>1 DEF Check, Goto
  <2>2. CASE ArmRunning(r)
    BY <2>2 DEF ArmRunning, Goto
  <2>3. CASE ArmStop(r)
    BY <2>3 DEF ArmStop, Goto
  <2>4. CASE Countdown(r)
    BY <2>4 DEF Countdown, Goto
  <2>5. CASE GiveUp(r)
    BY <2>5 DEF GiveUp, Goto
  <2>6. CASE TypeKey(r)
    BY <2>6 DEF TypeKey, Goto, Ending
  <2>7. CASE Hold(r)
    BY <2>7 DEF Hold, Goto
  <2>8. CASE NextKey(r)
    BY <2>8 DEF NextKey, Goto, Ending
  <2>9. CASE Disarm(r)
    BY <2>9 DEF Disarm, Goto
  <2>10. CASE Leave(r)
    BY <2>10 DEF Leave, Goto
  <2>11. ASSUME NEW ok \in BOOLEAN, FirstRelease(r, ok) PROVE pc' \in [Runs -> Places]
    BY <2>11 DEF FirstRelease, Goto, BeginOnLink
  <2>12. ASSUME NEW ok \in BOOLEAN, Abort(r, ok) PROVE pc' \in [Runs -> Places]
    BY <2>12 DEF Abort, Goto
  <2>13. ASSUME NEW ok \in BOOLEAN, Press(r, ok) PROVE pc' \in [Runs -> Places]
    BY <2>13 DEF Press, Goto
  <2>14. ASSUME NEW ok \in BOOLEAN, KeyUp(r, ok) PROVE pc' \in [Runs -> Places]
    BY <2>14 DEF KeyUp, Goto
  <2>15. ASSUME NEW ok \in BOOLEAN, EndRelease(r, ok) PROVE pc' \in [Runs -> Places]
    BY <2>15 DEF EndRelease, Goto
  <2> QED BY <1>4, <2>1, <2>2, <2>3, <2>4, <2>5, <2>6, <2>7, <2>8, <2>9, <2>10, <2>11,
     <2>12, <2>13, <2>14, <2>15 DEF RunStep
<1>5. CASE Outside
  BY <1>5, OutsideFrame
<1>6. CASE UNCHANGED vars BY <1>6 DEF vars
<1> QED BY <1>1, <1>2, <1>3, <1>4, <1>5, <1>6 DEF Next, Outside

\* The counters stay within their bounds.
LEMMA CounterTypes ==
  ASSUME TypeOK, KeysLeft, [Next]_vars
  PROVE  CountersTyped'
<1> /\ pc \in [Runs -> Places] /\ index \in [Runs -> 0 .. Characters]
    /\ begunOn \in [Runs -> 0 .. MaxLinks] /\ strays \in [Runs -> 0 .. 2]
    /\ links \in 0 .. MaxLinks /\ starts \in 0 .. MaxStarts
  BY DEF TypeOK, Places
<1> USE CharactersAssumption, BoundsAssumption
<1> USE DEF CountersTyped, KeysLeft, MayPress, flagVars, linkVars, consoleVars,
      keyVars, historyVars
<1>1. CASE StartDedicated
  BY <1>1 DEF StartDedicated, Goto
<1>2. ASSUME NEW k \in ConsoleRuns, ConsoleStart(k) PROVE CountersTyped'
  BY <1>2 DEF ConsoleStart
<1>3. ASSUME NEW ok \in BOOLEAN, ConsoleCreate(ok) PROVE CountersTyped'
  BY <1>3 DEF ConsoleCreate, Goto
<1>4. ASSUME NEW r \in Runs, RunStep(r) PROVE CountersTyped'
  <2> UNCHANGED <<links, starts>>
    BY <1>4, StepOfOne
  <2>1. CASE Check(r)
    BY <2>1 DEF Check, Goto
  <2>2. CASE ArmRunning(r)
    BY <2>2 DEF ArmRunning, Goto
  <2>3. CASE ArmStop(r)
    BY <2>3 DEF ArmStop, Goto
  <2>4. CASE Countdown(r)
    BY <2>4 DEF Countdown, Goto
  <2>5. CASE GiveUp(r)
    BY <2>5 DEF GiveUp, Goto
  <2>6. CASE TypeKey(r)
    BY <2>6 DEF TypeKey, Goto, Ending
  <2>7. CASE Hold(r)
    BY <2>7 DEF Hold, Goto
  <2>8. CASE NextKey(r)
    BY <2>8 DEF NextKey, Goto, Ending
  <2>9. CASE Disarm(r)
    BY <2>9 DEF Disarm, Goto
  <2>10. CASE Leave(r)
    BY <2>10 DEF Leave, Goto
  <2>11. ASSUME NEW ok \in BOOLEAN, FirstRelease(r, ok) PROVE CountersTyped'
    BY <2>11 DEF FirstRelease, Goto, BeginOnLink
  <2>12. ASSUME NEW ok \in BOOLEAN, Abort(r, ok) PROVE CountersTyped'
    BY <2>12 DEF Abort, Goto
  <2>13. ASSUME NEW ok \in BOOLEAN, Press(r, ok) PROVE CountersTyped'
    BY <2>13 DEF Press, Goto, UpTo2
  <2>14. ASSUME NEW ok \in BOOLEAN, KeyUp(r, ok) PROVE CountersTyped'
    BY <2>14 DEF KeyUp, Goto
  <2>15. ASSUME NEW ok \in BOOLEAN, EndRelease(r, ok) PROVE CountersTyped'
    BY <2>15 DEF EndRelease, Goto
  <2> QED BY <1>4, <2>1, <2>2, <2>3, <2>4, <2>5, <2>6, <2>7, <2>8, <2>9, <2>10, <2>11,
     <2>12, <2>13, <2>14, <2>15 DEF RunStep
<1>5. CASE LinkUp
  BY <1>5 DEF LinkUp
<1>6. CASE LinkDown
  BY <1>6 DEF LinkDown
<1>7. CASE LinkDownFlags
  BY <1>7 DEF LinkDownFlags
<1>8. CASE RequestStop
  BY <1>8 DEF RequestStop
<1>9. CASE SafetyRelease
  BY <1>9 DEF SafetyRelease
<1>10. ASSUME NEW stop \in BOOLEAN, ConsoleStop(stop) PROVE CountersTyped'
  BY <1>10 DEF ConsoleStop
<1>11. ASSUME NEW ok \in BOOLEAN, ConsoleRelease(ok) PROVE CountersTyped'
  BY <1>11 DEF ConsoleRelease
<1>12. CASE UNCHANGED vars BY <1>12 DEF vars
<1> QED BY <1>1, <1>2, <1>3, <1>4, <1>5, <1>6, <1>7, <1>8, <1>9, <1>10, <1>11, <1>12
     DEF Next

\* The flags stay flags.
LEMMA FlagTypes ==
  ASSUME TypeOK, [Next]_vars
  PROVE  FlagsTyped'
<1> /\ connected \in BOOLEAN /\ running \in BOOLEAN /\ stopRequested \in BOOLEAN
    /\ held \in BOOLEAN /\ refused \in BOOLEAN /\ handle \in [ConsoleRuns -> BOOLEAN]
  BY DEF TypeOK
<1> USE DEF FlagsTyped, flagVars, linkVars, consoleVars, keyVars, historyVars
<1>1. CASE StartDedicated
  BY <1>1 DEF StartDedicated, Goto
<1>2. ASSUME NEW k \in ConsoleRuns, ConsoleStart(k) PROVE FlagsTyped'
  BY <1>2 DEF ConsoleStart
<1>3. ASSUME NEW ok \in BOOLEAN, ConsoleCreate(ok) PROVE FlagsTyped'
  BY <1>3 DEF ConsoleCreate, Goto
<1>4. ASSUME NEW r \in Runs, RunStep(r) PROVE FlagsTyped'
  <2>1. CASE Check(r)
    BY <2>1 DEF Check, Goto
  <2>2. CASE ArmRunning(r)
    BY <2>2 DEF ArmRunning, Goto
  <2>3. CASE ArmStop(r)
    BY <2>3 DEF ArmStop, Goto
  <2>4. CASE Countdown(r)
    BY <2>4 DEF Countdown, Goto
  <2>5. CASE GiveUp(r)
    BY <2>5 DEF GiveUp, Goto
  <2>6. CASE TypeKey(r)
    BY <2>6 DEF TypeKey, Goto, Ending
  <2>7. CASE Hold(r)
    BY <2>7 DEF Hold, Goto
  <2>8. CASE NextKey(r)
    BY <2>8 DEF NextKey, Goto, Ending
  <2>9. CASE Disarm(r)
    BY <2>9 DEF Disarm, Goto
  <2>10. CASE Leave(r)
    BY <2>10 DEF Leave, Goto
  <2>11. ASSUME NEW ok \in BOOLEAN, FirstRelease(r, ok) PROVE FlagsTyped'
    BY <2>11 DEF FirstRelease, Goto, BeginOnLink, ReleaseAll
  <2>12. ASSUME NEW ok \in BOOLEAN, Abort(r, ok) PROVE FlagsTyped'
    BY <2>12 DEF Abort, Goto, ReleaseAll
  <2>13. ASSUME NEW ok \in BOOLEAN, Press(r, ok) PROVE FlagsTyped'
    BY <2>13 DEF Press, Goto
  <2>14. ASSUME NEW ok \in BOOLEAN, KeyUp(r, ok) PROVE FlagsTyped'
    BY <2>14 DEF KeyUp, Goto, ReleaseAll
  <2>15. ASSUME NEW ok \in BOOLEAN, EndRelease(r, ok) PROVE FlagsTyped'
    BY <2>15 DEF EndRelease, Goto, ReleaseAll
  <2> QED BY <1>4, <2>1, <2>2, <2>3, <2>4, <2>5, <2>6, <2>7, <2>8, <2>9, <2>10, <2>11,
     <2>12, <2>13, <2>14, <2>15 DEF RunStep
<1>5. CASE LinkUp
  BY <1>5 DEF LinkUp
<1>6. CASE LinkDown
  BY <1>6 DEF LinkDown
<1>7. CASE LinkDownFlags
  BY <1>7 DEF LinkDownFlags
<1>8. CASE RequestStop
  BY <1>8 DEF RequestStop
<1>9. CASE SafetyRelease
  BY <1>9 DEF SafetyRelease, ReleaseAll
<1>10. ASSUME NEW stop \in BOOLEAN, ConsoleStop(stop) PROVE FlagsTyped'
  BY <1>10 DEF ConsoleStop
<1>11. ASSUME NEW ok \in BOOLEAN, ConsoleRelease(ok) PROVE FlagsTyped'
  BY <1>11 DEF ConsoleRelease, ReleaseAll
<1>12. CASE UNCHANGED vars BY <1>12 DEF vars
<1> QED BY <1>1, <1>2, <1>3, <1>4, <1>5, <1>6, <1>7, <1>8, <1>9, <1>10, <1>11, <1>12
     DEF Next

\* The console, hid_callback and the record of overlaps keep to their values.
LEMMA WordTypes ==
  ASSUME TypeOK, [Next]_vars
  PROVE  (/\ console \in {"idle", "release"} \union ConsoleRuns
          /\ hid \in {"idle", "stop", "connected", "stopAgain", "running"}
          /\ overlapped \in SUBSET Runs)'
<1> /\ console \in {"idle", "release"} \union ConsoleRuns
    /\ hid \in {"idle", "stop", "connected", "stopAgain", "running"}
    /\ overlapped \in SUBSET Runs
  BY DEF TypeOK
<1> USE DEF consoleVars, linkVars
<1>1. CASE StartDedicated BY <1>1 DEF StartDedicated
<1>2. CASE \E k \in ConsoleRuns : ConsoleStart(k) BY <1>2 DEF ConsoleStart
<1>3. CASE \E ok \in BOOLEAN : ConsoleCreate(ok) BY <1>3 DEF ConsoleCreate
<1>4. ASSUME NEW r \in Runs, RunStep(r)
      PROVE  overlapped' \in SUBSET Runs /\ UNCHANGED <<console, hid>>
  BY <1>4, StepOfOne DEF RunStep, ArmedRuns
<1>5. CASE LinkUp \/ LinkDown \/ LinkDownFlags
  BY <1>5 DEF LinkUp, LinkDown, LinkDownFlags
<1>6. CASE RequestStop \/ SafetyRelease BY <1>6 DEF RequestStop, SafetyRelease
<1>7. CASE \E stop \in BOOLEAN : ConsoleStop(stop) BY <1>7 DEF ConsoleStop
<1>8. CASE \E ok \in BOOLEAN : ConsoleRelease(ok) BY <1>8 DEF ConsoleRelease
<1>9. CASE UNCHANGED vars BY <1>9 DEF vars
<1> QED BY <1>1, <1>2, <1>3, <1>4, <1>5, <1>6, <1>7, <1>8, <1>9 DEF Next

-----------------------------------------------------------------------------
(* The theorems *)

\* The invariant holds in every state, whatever the bounds.
THEOREM InvariantHolds == Spec => []IInv
<1>1. Init => IInv
  <2> SUFFICES ASSUME Init PROVE IInv
    OBVIOUS
  <2> USE DEF Init
  <2>1. TypeOK
    <3>1. index \in [Runs -> 0 .. Characters] /\ strays \in [Runs -> 0 .. 2]
            /\ begunOn \in [Runs -> 0 .. MaxLinks]
            /\ links \in 0 .. MaxLinks /\ starts \in 0 .. MaxStarts
      BY CharactersAssumption, BoundsAssumption
    <3>2. QED BY <3>1 DEF TypeOK
  <2>2. KeysLeft /\ FlagOwned /\ LinkKnown /\ StopStands /\ KeyAccounted
    BY DEF KeysLeft, MayPress, FlagOwned, LinkKnown, StopStands, KeyAccounted
  <2>3. HandlesTell BY DEF HandlesTell, ConsoleRuns, Runs
  <2>4. OverlapKnown /\ StraysKnown BY DEF OverlapKnown, StraysKnown, Armed, Releasing
  <2>5. QED BY <2>1, <2>2, <2>3, <2>4 DEF IInv
<1>2. IInv /\ [Next]_vars => IInv'
  <2> SUFFICES ASSUME IInv, [Next]_vars PROVE IInv'
    OBVIOUS
  <2> USE DEF IInv
  <2>1. TypeOK'
    BY PlaceTypes, CounterTypes, FlagTypes, WordTypes
    DEF TypeOK, Places, CountersTyped, FlagsTyped
  <2>2. QED
    BY <2>1, KeyStep, FlagStep, HandleStep, KeysLeftStep, LinkStep, OverlapStep, StopStep,
       StraysStep
<1>3. QED BY <1>1, <1>2, PTL DEF Spec

\* The variables keep their types: no run types past its last key.
THEOREM TypeCorrect == Spec => []TypeOK
BY InvariantHolds, PTL DEF IInv

\* No run, in whatever order runs overlap and links come and go, leaves a key down that
\* it could have released.
THEOREM KeyAccountedHolds == Spec => []KeyAccounted
BY InvariantHolds, PTL DEF IInv

\* Whenever the busy flag is up, some run is armed and has still to lower it.
THEOREM BusyHasOwnerHolds == Spec => []BusyHasOwner
<1>1. IInv => BusyHasOwner
  BY DEF IInv, FlagOwned, BusyHasOwner
<1>2. QED BY <1>1, InvariantHolds, PTL

\* start_test and start_schedule never let both console runs exist.
THEOREM ConsoleRunsExclusiveHolds == Spec => []ConsoleRunsExclusive
<1>1. IInv => ConsoleRunsExclusive
  <2> SUFFICES ASSUME IInv PROVE ConsoleRunsExclusive
    OBVIOUS
  <2> DEFINE There == {k \in ConsoleRuns : pc[k] # "none"}
  <2>1. \A k, l \in There : k = l
    BY DEF IInv, HandlesTell
  <2>2. CASE There = {}
    BY <2>2, FS_EmptySet DEF ConsoleRunsExclusive
  <2>3. ASSUME NEW k \in There PROVE ConsoleRunsExclusive
    <3>1. There = {k} BY <2>1
    <3>2. Cardinality(There) = 1 BY <3>1, FS_Singleton
    <3>3. QED BY <3>2 DEF ConsoleRunsExclusive
  <2>4. QED BY <2>2, <2>3
<1>2. QED BY <1>1, InvariantHolds, PTL

\* A run that has lost its host types at most the one key that was under way at the next,
\* unless it shared the keyboard with another.
THEOREM StrayKeysBoundedHolds == Spec => []StrayKeysBounded
<1>1. IInv => StrayKeysBounded
  BY DEF IInv, StraysKnown, StrayKeysBounded
<1>2. QED BY <1>1, InvariantHolds, PTL


==============================================================================
