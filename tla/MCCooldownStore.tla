--------------------------- MODULE MCCooldownStore ---------------------------
(* Instance of CooldownStore for TLC: the configuration gives the constants. *)
EXTENDS CooldownStore, TLC
==============================================================================
