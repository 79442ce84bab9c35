---------------------------- MODULE MCStreamBridge -----------------------------
(* StreamBridge for TLC. *)
EXTENDS StreamBridge
==============================================================================
