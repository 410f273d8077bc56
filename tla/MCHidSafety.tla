----------------------------- MODULE MCHidSafety -----------------------------
(* Instances of HidSafety for TLC. *)
EXTENDS HidSafety, TLC

TaskSymmetry == Permutations(Tasks)
=============================================================================
