---------------------------- MODULE MCWifiStation ----------------------------
(* Instances of WifiStation for TLC. *)
EXTENDS WifiStation
=============================================================================
