---------------------------- MODULE HidReadiness ----------------------------
(***************************************************************************)
(* What the reconnect safety release promises to START: one of the four      *)
(* values of typx_upload_hid_readiness_t, as start_handler computes it, and   *)
(* the ways it may change.  HidSafety implements this specification;         *)
(* DedicatedRun is built on it.                                              *)
(***************************************************************************)

VARIABLE readiness

TypeOK == readiness \in {"DISCONNECTED", "PENDING", "FAILED", "READY"}

Init == readiness = "DISCONNECTED"

HostConnects == readiness = "DISCONNECTED" /\ readiness' = "PENDING"

HostDisconnects == readiness # "DISCONNECTED" /\ readiness' = "DISCONNECTED"

\* Both zero reports of one attempt were accepted.
ReleaseConfirmed == readiness = "PENDING" /\ readiness' = "READY"

\* The last attempt failed, or the host did not authenticate.
ReleaseFailed == readiness \in {"PENDING", "READY"} /\ readiness' = "FAILED"

\* A retry, or a new authentication: the release starts over.  A failed release
\* never turns into a confirmed one without passing here.
ReleaseReopened == readiness \in {"FAILED", "READY"} /\ readiness' = "PENDING"

Next ==
  \/ HostConnects
  \/ HostDisconnects
  \/ ReleaseConfirmed
  \/ ReleaseFailed
  \/ ReleaseReopened

Spec == Init /\ [][Next]_readiness
=============================================================================
