--------------------------- MODULE KeyboardSharing ---------------------------
(***************************************************************************)
(* The three kinds of run that share one keyboard: the dedicated run, the     *)
(* calibration test (components/typx_hid_runtime) and the embedded schedule,   *)
(* both started at the UART console (typx_console.c).  They keep out of each   *)
(* other's way by the flag s_runtime.running alone, which is tested and set in *)
(* two steps, without a lock, on two cores, and which a disconnect clears.     *)
(*                                                                           *)
(* Each run is a task of its own; hid_callback raises and lowers the link;    *)
(* the console and the STOP endpoint raise the stop flag.  The job behind the  *)
(* dedicated run is modelled in DedicatedRun.                                *)
(***************************************************************************)
EXTENDS Naturals, FiniteSets

CONSTANTS
  Characters,  \* keys a run types
  MaxStarts,   \* bound: runs started
  MaxLinks     \* bound: CONNECT events

ASSUME CharactersAssumption == Characters \in Nat \ {0}
ASSUME BoundsAssumption == MaxStarts \in Nat /\ MaxLinks \in Nat

ConsoleRuns == {"test", "schedule"}
Runs == ConsoleRuns \union {"dedicated"}

VARIABLES
  connected, running, stopRequested,  \* s_runtime
  pc,          \* where each run stands
  index,       \* keys it has typed
  handle,      \* s_test_task and s_schedule_task are not NULL
  console,     \* the console command in progress
  hid,         \* where hid_callback stands
  held,        \* a key is down at the host
  starts, links,
  begunOn,     \* history: the link of a run's first release
  strays,      \* history: keys it pressed on a later link, up to 2
  overlapped,  \* history: the runs that have been armed at one time with another
  refused      \* history: the last release of the keyboard was refused, or the
               \* link went with a key down

flagVars == <<connected, running, stopRequested>>
linkVars == <<hid, links>>
consoleVars == <<handle, console>>
keyVars == <<held, refused>>
historyVars == <<begunOn, strays>>
vars == <<flagVars, pc, index, consoleVars, linkVars, keyVars, starts, historyVars,
          overlapped>>

\* Where a run will still release the keyboard.
Releasing == {"hold", "release", "fail", "last"}
\* Where it has set the flags and not yet given both back.
Armed == {"armStop", "firstRelease", "countdown", "abort", "giveUp", "type", "press",
          "next", "disarmRunning", "disarmStop"} \union Releasing

TypeOK ==
  /\ connected \in BOOLEAN /\ running \in BOOLEAN /\ stopRequested \in BOOLEAN
  /\ pc \in [Runs -> {"none", "check", "armRunning", "leave"} \union Armed]
  /\ index \in [Runs -> 0 .. Characters]
  /\ handle \in [ConsoleRuns -> BOOLEAN]
  /\ console \in {"idle", "release"} \union ConsoleRuns
  /\ hid \in {"idle", "stop", "connected", "stopAgain", "running"}
  /\ held \in BOOLEAN /\ refused \in BOOLEAN
  /\ starts \in 0 .. MaxStarts /\ links \in 0 .. MaxLinks
  /\ begunOn \in [Runs -> 0 .. MaxLinks]
  /\ strays \in [Runs -> 0 .. 2]
  /\ overlapped \in SUBSET Runs

Init ==
  /\ connected = FALSE /\ running = FALSE /\ stopRequested = FALSE
  /\ pc = [r \in Runs |-> "none"] /\ index = [r \in Runs |-> 0]
  /\ handle = [k \in ConsoleRuns |-> FALSE] /\ console = "idle"
  /\ hid = "idle" /\ held = FALSE /\ refused = FALSE
  /\ starts = 0 /\ links = 0
  /\ begunOn = [r \in Runs |-> 0] /\ strays = [r \in Runs |-> 0]
  /\ overlapped = {}

Goto(r, place) == pc' = [pc EXCEPT ![r] = place]

\* A release is refused without a link, and may be refused with one.
ReleaseAll(ok) ==
  /\ ok => connected
  /\ held' \in IF ok THEN {FALSE} ELSE IF connected THEN {held, FALSE} ELSE {held}
  /\ refused' = ~ok

StopSeen == stopRequested \/ ~connected

-----------------------------------------------------------------------------
(* Starting *)

\* The execution task has been notified: nothing at START looks at running.
StartDedicated ==
  /\ pc["dedicated"] = "none"
  /\ starts < MaxStarts /\ starts' = starts + 1
  /\ Goto("dedicated", "check")
  /\ UNCHANGED <<flagVars, index, consoleVars, linkVars, keyVars, historyVars,
                 overlapped>>

\* Mutant: a command looks at its own task only.
ConsoleStartOwnHandle(k) ==
  /\ console = "idle" /\ connected /\ ~handle[k] /\ ~running
  /\ starts < MaxStarts /\ starts' = starts + 1
  /\ console' = k
  /\ UNCHANGED <<flagVars, pc, index, handle, linkVars, keyVars, historyVars, overlapped>>

\* start_test and start_schedule: the tests, ...
ConsoleStart(k) ==
  /\ console = "idle"
  /\ connected
  /\ \A other \in ConsoleRuns : ~handle[other]
  /\ ~running
  /\ starts < MaxStarts /\ starts' = starts + 1
  /\ console' = k
  /\ UNCHANGED <<flagVars, pc, index, handle, linkVars, keyVars, historyVars, overlapped>>

\* ... and the task.
ConsoleCreate(ok) ==
  /\ console \in ConsoleRuns
  /\ IF ok THEN Goto(console, "check") /\ handle' = [handle EXCEPT ![console] = TRUE]
           ELSE UNCHANGED <<pc, handle>>
  /\ console' = "idle"
  /\ UNCHANGED <<flagVars, index, linkVars, keyVars, starts, historyVars, overlapped>>

-----------------------------------------------------------------------------
(* A run.  begin_test and run_schedule_countdown_observed begin alike, and a    *)
(* test and the executor type alike; they differ in how they end.               *)

Check(r) ==
  /\ pc[r] = "check"
  /\ Goto(r, IF connected /\ ~running THEN "armRunning" ELSE "leave")
  /\ UNCHANGED <<flagVars, index, consoleVars, keyVars, historyVars>>

ArmRunning(r) ==
  /\ pc[r] = "armRunning"
  /\ running' = TRUE
  /\ Goto(r, "armStop")
  /\ UNCHANGED <<connected, stopRequested, index, consoleVars, keyVars, historyVars>>

ArmStop(r) ==
  /\ pc[r] = "armStop"
  /\ stopRequested' = FALSE
  /\ index' = [index EXCEPT ![r] = 0]
  /\ Goto(r, "firstRelease")
  /\ UNCHANGED <<connected, running, consoleVars, keyVars, historyVars>>

BeginOnLink(r) == begunOn' = [begunOn EXCEPT ![r] = links] /\ UNCHANGED strays

\* Mutant: a run that cannot begin stays busy.
FirstReleaseStaysBusy(r, ok) ==
  /\ pc[r] = "firstRelease"
  /\ ReleaseAll(ok)
  /\ Goto(r, IF ok THEN "countdown" ELSE "leave")
  /\ BeginOnLink(r)
  /\ UNCHANGED <<flagVars, index, consoleVars>>

FirstRelease(r, ok) ==
  /\ pc[r] = "firstRelease"
  /\ ReleaseAll(ok)
  /\ Goto(r, IF ok THEN "countdown" ELSE "giveUp")
  /\ BeginOnLink(r)
  /\ UNCHANGED <<flagVars, index, consoleVars>>

\* Five or eight waits of a second.
Countdown(r) ==
  /\ pc[r] = "countdown"
  /\ Goto(r, IF StopSeen THEN "abort" ELSE "type")
  /\ UNCHANGED <<flagVars, index, consoleVars, keyVars, historyVars>>

\* A test that is stopped in its countdown leaves the stop flag up.
Abort(r, ok) ==
  /\ pc[r] = "abort"
  /\ ReleaseAll(ok)
  /\ Goto(r, IF r = "test" THEN "giveUp" ELSE "disarmRunning")
  /\ UNCHANGED <<flagVars, index, consoleVars, historyVars>>

GiveUp(r) ==
  /\ pc[r] = "giveUp"
  /\ running' = FALSE
  /\ Goto(r, "leave")
  /\ UNCHANGED <<connected, stopRequested, index, consoleVars, keyVars, historyVars>>

\* The executor releases in its own finish and once more after it has returned.
Ending(r) == IF r = "test" THEN "last" ELSE "fail"

TypeKey(r) ==
  /\ pc[r] = "type"
  /\ Goto(r, IF StopSeen THEN Ending(r) ELSE "press")
  /\ UNCHANGED <<flagVars, index, consoleVars, keyVars, historyVars>>

UpTo2(n) == IF n = 2 THEN 2 ELSE n + 1

Press(r, sent) ==
  /\ pc[r] = "press"
  /\ sent => connected
  /\ Goto(r, IF sent THEN "hold" ELSE "fail")
  /\ held' = (held \/ sent)
  /\ strays' = IF sent /\ links # begunOn[r] THEN [strays EXCEPT ![r] = UpTo2(@)]
                                             ELSE strays
  /\ UNCHANGED <<flagVars, index, consoleVars, refused, begunOn>>

\* Mutant: a hold that is cut short leaves its key down.
HoldLeavesKey(r) ==
  /\ pc[r] = "hold"
  /\ Goto(r, IF StopSeen THEN "disarmRunning" ELSE "release")
  /\ UNCHANGED <<flagVars, index, consoleVars, keyVars, historyVars>>

Hold(r) ==
  /\ pc[r] = "hold"
  /\ Goto(r, IF StopSeen THEN "fail" ELSE "release")
  /\ UNCHANGED <<flagVars, index, consoleVars, keyVars, historyVars>>

KeyUp(r, ok) ==
  /\ pc[r] = "release"
  /\ ReleaseAll(ok)
  /\ Goto(r, IF ok THEN "next" ELSE "fail")
  /\ UNCHANGED <<flagVars, index, consoleVars, historyVars>>

\* Mutant: one key too many.
NextPastEnd(r) ==
  /\ pc[r] = "next"
  /\ index' = [index EXCEPT ![r] = @ + 1]
  /\ Goto(r, IF StopSeen THEN "fail" ELSE IF index[r] = Characters THEN Ending(r)
             ELSE "type")
  /\ UNCHANGED <<flagVars, consoleVars, keyVars, historyVars>>

\* The wait after the release, and the next key.
NextKey(r) ==
  /\ pc[r] = "next"
  /\ index' = [index EXCEPT ![r] = @ + 1]
  /\ Goto(r, IF StopSeen THEN "fail" ELSE IF index'[r] = Characters THEN Ending(r)
             ELSE "type")
  /\ UNCHANGED <<flagVars, consoleVars, keyVars, historyVars>>

EndRelease(r, ok) ==
  /\ pc[r] \in {"fail", "last"}
  /\ ReleaseAll(ok)
  /\ Goto(r, IF pc[r] = "fail" THEN "last" ELSE "disarmRunning")
  /\ UNCHANGED <<flagVars, index, consoleVars, historyVars>>

\* Both flags are given back, whoever holds them by now.
Disarm(r) ==
  /\ \/ /\ pc[r] = "disarmRunning" /\ Goto(r, "disarmStop")
        /\ running' = FALSE /\ UNCHANGED stopRequested
     \/ /\ pc[r] = "disarmStop" /\ Goto(r, "leave")
        /\ stopRequested' = FALSE /\ UNCHANGED running
  /\ UNCHANGED <<connected, index, consoleVars, keyVars, historyVars>>

Leave(r) ==
  /\ pc[r] = "leave"
  /\ handle' = [k \in ConsoleRuns |-> handle[k] /\ k # r]
  /\ strays' = [strays EXCEPT ![r] = 0]
  /\ Goto(r, "none")
  /\ UNCHANGED <<flagVars, index, console, keyVars, begunOn>>

ArmedRuns == {r \in Runs : pc[r] \in Armed}

RunStep(r) ==
  /\ \/ Check(r) \/ ArmRunning(r) \/ ArmStop(r)
     \/ Countdown(r) \/ GiveUp(r)
     \/ TypeKey(r) \/ Hold(r) \/ NextKey(r)
     \/ Disarm(r) \/ Leave(r)
     \/ \E ok \in BOOLEAN :
          FirstRelease(r, ok) \/ Abort(r, ok) \/ Press(r, ok) \/ KeyUp(r, ok)
            \/ EndRelease(r, ok)
  /\ overlapped' = {s \in overlapped : pc'[s] # "none"}
                     \union IF Cardinality(ArmedRuns') > 1 THEN ArmedRuns' ELSE {}
  /\ UNCHANGED <<linkVars, starts>>

-----------------------------------------------------------------------------
(* The link, the stop flag and other releases *)

\* Mutant: a new link starts with clean flags.
LinkUpClearsStop ==
  /\ hid = "idle" /\ ~connected
  /\ links < MaxLinks /\ links' = links + 1
  /\ connected' = TRUE /\ stopRequested' = FALSE
  /\ UNCHANGED <<running, pc, index, consoleVars, hid, keyVars, starts,
                 historyVars, overlapped>>

LinkUp ==
  /\ hid = "idle" /\ ~connected
  /\ links < MaxLinks /\ links' = links + 1
  /\ connected' = TRUE
  /\ UNCHANGED <<running, stopRequested, pc, index, consoleVars, hid, keyVars, starts,
                 historyVars, overlapped>>

LinkDown ==
  /\ hid = "idle" /\ connected
  /\ hid' = "stop"
  /\ held' \in {held, FALSE} /\ refused' = (refused \/ held)
  /\ UNCHANGED <<flagVars, pc, index, consoleVars, links, starts, historyVars, overlapped>>

\* request_stop and set_connected(false), assignment by assignment.
LinkDownFlags ==
  /\ \/ /\ hid = "stop" /\ hid' = "connected"
        /\ stopRequested' = TRUE /\ UNCHANGED <<connected, running>>
     \/ /\ hid = "connected" /\ hid' = "stopAgain"
        /\ connected' = FALSE /\ UNCHANGED <<running, stopRequested>>
     \/ /\ hid = "stopAgain" /\ hid' = "running"
        /\ stopRequested' = TRUE /\ UNCHANGED <<connected, running>>
     \/ /\ hid = "running" /\ hid' = "idle"
        /\ running' = FALSE /\ UNCHANGED <<connected, stopRequested>>
  /\ UNCHANGED <<pc, index, consoleVars, links, keyVars, starts, historyVars, overlapped>>

\* STOP at the endpoint, or an identity restart.
RequestStop ==
  /\ ~stopRequested
  /\ stopRequested' = TRUE
  /\ UNCHANGED <<connected, running, pc, index, consoleVars, linkVars, keyVars, starts,
                 historyVars, overlapped>>

\* The console's stop raises the flag and then releases; its release only releases.
ConsoleStop(stop) ==
  /\ console = "idle" /\ console' = "release"
  /\ stopRequested' = (stopRequested \/ stop)
  /\ UNCHANGED <<connected, running, pc, index, handle, linkVars, keyVars, starts,
                 historyVars, overlapped>>

ConsoleRelease(ok) ==
  /\ console = "release" /\ console' = "idle"
  /\ ReleaseAll(ok)
  /\ UNCHANGED <<flagVars, pc, index, handle, linkVars, starts, historyVars, overlapped>>

\* The safety release of a new link; it is repeated until it succeeds.
SafetyRelease ==
  /\ connected /\ (held \/ refused)
  /\ ReleaseAll(TRUE)
  /\ UNCHANGED <<flagVars, pc, index, consoleVars, linkVars, starts, historyVars,
                 overlapped>>

-----------------------------------------------------------------------------
Next ==
  \/ StartDedicated
  \/ \E k \in ConsoleRuns : ConsoleStart(k)
  \/ \E ok \in BOOLEAN : ConsoleCreate(ok)
  \/ \E r \in Runs : RunStep(r)
  \/ LinkUp \/ LinkDown \/ LinkDownFlags
  \/ RequestStop \/ SafetyRelease
  \/ \E stop \in BOOLEAN : ConsoleStop(stop)
  \/ \E ok \in BOOLEAN : ConsoleRelease(ok)

Spec == Init /\ [][Next]_vars
-----------------------------------------------------------------------------
(* Properties *)

\* A run never walks away from a key it pressed: one that no run is about to
\* release is down because a release was refused or the link went, even when two
\* runs press and release over each other.
KeyAccounted == held => refused \/ \E r \in Runs : pc[r] \in Releasing

\* The flag running never stays up without a run that will take it down; if it
\* did, every later run would be refused until the host left.
BusyHasOwner == running => \E r \in Runs : pc[r] \in Armed

\* A test and an embedded schedule never run together: their task handles close
\* the gap between the creation of a task and its arming.
ConsoleRunsExclusive ==
  Cardinality({k \in ConsoleRuns : pc[k] # "none"}) <= 1

\* A run that loses its host after its first release does not go on typing at the
\* next one: of its keys only one that was already under way can reach a later
\* link, as long as no other run was armed at the same time and took the stop flag
\* down.
StrayKeysBounded == \A r \in Runs \ overlapped : strays[r] <= 1

-----------------------------------------------------------------------------
(* What a message says and the code does not keep. *)

\* "Schedule refused: another execution is running" (typx_console.c); a second run
\* is refused as BUSY (test_hid_runtime.c).
OneRunAtATime == Cardinality(ArmedRuns) <= 1
=============================================================================
