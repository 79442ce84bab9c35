------------------------------ MODULE MCTurnLog ------------------------------
(* A small instance of the turn log.                                        *)
EXTENDS TurnLog, TLC

CONSTANTS anna, ben

TwoSessions == {anna, ben}
Symmetry == Permutations(TwoSessions)
==============================================================================
