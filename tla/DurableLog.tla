------------------------------ MODULE DurableLog ------------------------------
(***************************************************************************)
(* What the turn writer of src/src/logging/writer.ts promises whoever hands *)
(* it jobs: an accepted job becomes durable in its own time, nothing that  *)
(* is durable is lost again, and the writer closes only when every job it  *)
(* accepted is durable, or the worker died too often to wait for that.     *)
(***************************************************************************)
CONSTANT Job

VARIABLES accepted, durable, closed, exhausted

logVars == <<accepted, durable, closed, exhausted>>

LogInit == accepted = {} /\ durable = {} /\ closed = FALSE /\ exhausted = FALSE

\* write() and writePrompt(): enqueue only.
Accept(j) ==
    /\ ~closed /\ j \notin accepted
    /\ accepted' = accepted \cup {j}
    /\ UNCHANGED <<durable, closed, exhausted>>

\* A batch reaches the index.
Save(batch) ==
    /\ batch \subseteq accepted
    /\ durable' = durable \cup batch
    /\ UNCHANGED <<accepted, closed, exhausted>>

\* close() has ended.
Close ==
    /\ ~closed /\ (accepted \subseteq durable \/ exhausted)
    /\ closed' = TRUE
    /\ UNCHANGED <<accepted, durable, exhausted>>

\* As many deaths as the passes of the loop in flush() make up for.
Exhaust == exhausted' = TRUE /\ UNCHANGED <<accepted, durable, closed>>

LogNext ==
    \/ \E j \in Job : Accept(j)
    \/ \E batch \in SUBSET accepted : Save(batch)
    \/ Close \/ Exhaust

LogSpec == LogInit /\ [][LogNext]_logVars
==============================================================================
