---------------------------- MODULE JobLifecycle ----------------------------
(***************************************************************************)
(* What the phone may rely on when it polls the job state: which states      *)
(* follow which, when a key can go down, and what a terminal state says       *)
(* about the keyboard.  DedicatedRun implements this specification.  It is    *)
(* the table of ESP32_CAM_STATE_MACHINE.md as the code has it, which is wider  *)
(* in the places README.md lists.                                            *)
(***************************************************************************)

VARIABLES
  status,  \* the job state
  held     \* a key is down at the host

Locked == {"READY", "COUNTDOWN", "EXECUTING", "STOPPING"}

Init == status = "IDLE" /\ held = FALSE

Move(from, to) == status \in from /\ status' \in to /\ UNCHANGED held

Create == Move({"IDLE", "RECEIVING", "STOPPED", "COMPLETED", "ERROR",
                "INTERRUPTED_RESET"}, {"RECEIVING", "ERROR"})
Finalize == Move({"RECEIVING"}, {"READY", "ERROR"})
Cancel == Move({"READY"}, {"IDLE"})
Start == Move({"READY"}, {"COUNTDOWN"})
StartFailed == Move({"COUNTDOWN"}, {"READY"})
Execute == Move({"COUNTDOWN"}, {"EXECUTING"})
Stop == Move({"COUNTDOWN", "EXECUTING"}, {"STOPPING"})
Fail == Move({"COUNTDOWN", "EXECUTING", "STOPPING"}, {"ERROR"})

\* A run is reported complete or stopped only with the keyboard released, and
\* complete only if it got past the countdown.
End ==
  /\ ~held
  /\ \/ Move({"EXECUTING", "STOPPING"}, {"COMPLETED"})
     \/ Move({"COUNTDOWN", "EXECUTING", "STOPPING"}, {"STOPPED"})

\* A key goes down in no other state; it can come up in any.
KeyDown == status \in {"EXECUTING", "STOPPING"} /\ held' = TRUE /\ UNCHANGED status
KeyUp == held' = FALSE /\ UNCHANGED status

\* A reset ends whatever was going on, and nothing is resumed after it.
Reset == status' = "IDLE" /\ held' \in {held, FALSE}
BootReports == Move({"IDLE"}, {"INTERRUPTED_RESET"})

Next ==
  \/ Create \/ Finalize \/ Cancel \/ Start \/ StartFailed \/ Execute \/ Stop \/ Fail
  \/ End \/ KeyDown \/ KeyUp \/ Reset \/ BootReports

Spec == Init /\ [][Next]_<<status, held>>
=============================================================================
