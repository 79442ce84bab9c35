----------------------------- MODULE MCTurnWriter -----------------------------
(* A small instance of the turn writer: one activity flushes or prunes, as   *)
(* the retention timer does, while another flushes or closes.               *)
EXTENDS TurnWriter

CONSTANTS keeper, closer

TwoCallers == {keeper, closer}
MCKindsOf == [j \in Job |-> IF j = 1 THEN {"turn"} ELSE {"turn", "prompt"}]
MCCallsOf == [c \in TwoCallers |-> IF c = keeper THEN {"flush", "prune"} ELSE {"close"}]
==============================================================================
