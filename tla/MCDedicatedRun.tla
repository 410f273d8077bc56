---------------------------- MODULE MCDedicatedRun ----------------------------
(* Instances of DedicatedRun for TLC. *)
EXTENDS DedicatedRun
=============================================================================
