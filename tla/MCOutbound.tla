------------------------------- MODULE MCOutbound -------------------------------
(* Outbound for TLC. *)
EXTENDS Outbound
==============================================================================
