---------------------------- MODULE StagedSchedule ----------------------------
(***************************************************************************)
(* What an upload promises to the run that follows it: a schedule appears in  *)
(* the staging area all at once, it is the one the phone announced and one    *)
(* the protocol accepts, and it stays as it is until it is withdrawn.         *)
(* UploadJob implements this specification.                                  *)
(***************************************************************************)

CONSTANTS
  Accepted,  \* the contents the protocol accepts
  Sha(_),    \* the digest of a content
  None       \* no schedule, no digest

VARIABLES
  announced,  \* the digest of the schedule the phone is uploading
  ready       \* the schedule a run may read

Init == announced = None /\ ready = None

Announce == ready = None /\ ready' = None

Promote ==
  /\ ready = None
  /\ \E content \in Accepted : Sha(content) = announced /\ ready' = content
  /\ UNCHANGED announced

Withdraw == ready # None /\ ready' = None

Next == Announce \/ Promote \/ Withdraw

Spec == Init /\ [][Next]_<<announced, ready>>
=============================================================================
