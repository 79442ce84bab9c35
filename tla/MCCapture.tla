------------------------------- MODULE MCCapture -------------------------------
(* Capture for TLC. *)
EXTENDS Capture
MCLimits == {[maxTurn |-> 3, budget |-> 4], [maxTurn |-> 3, budget |-> 2]}
MCBodies == {<<1>>, <<0, 1>>}
==============================================================================
