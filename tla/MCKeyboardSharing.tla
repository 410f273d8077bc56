-------------------------- MODULE MCKeyboardSharing --------------------------
(* Instances of KeyboardSharing for TLC. *)
EXTENDS KeyboardSharing
=============================================================================
