---------------------------- MODULE AnthropicStream ----------------------------
(***************************************************************************)
(* What a client of the Messages API may be sent, event by event: the       *)
(* grammar that the head of src/src/stream/anthropic-sse.ts lists, as a     *)
(* summary of the events so far and what each further event does to it.     *)
(***************************************************************************)
EXTENDS Naturals, FiniteSets

Kinds == <<"thinking", "text", "tool_use">>
KindRank(kind) == CHOOSE n \in DOMAIN Kinds : Kinds[n] = kind

MessageStart == [type |-> "message_start"]
BlockStart(index, kind) == [type |-> "block_start", index |-> index, kind |-> kind]
Delta(index, size) == [type |-> "delta", index |-> index, size |-> size]
BlockStop(index) == [type |-> "block_stop", index |-> index]
Usage(tokens) == [type |-> "usage", tokens |-> tokens]
MessageDelta(tokens) == [type |-> "message_delta", tokens |-> tokens]
MessageStop == [type |-> "message_stop"]
Error == [type |-> "error"]
Ping == [type |-> "ping"]

\* Nothing sent yet.
Silent == [begun |-> FALSE,   \* message_start was sent
           open |-> {},       \* blocks started and not stopped
           next |-> 0,        \* the index the next block must have
           rank |-> 0,        \* the kind of the latest block
           args |-> 0,        \* fragments of tool arguments sent
           usage |-> 0,       \* output tokens as last told to the client
           closing |-> FALSE, \* the terminal message_delta was sent
           end |-> "none",    \* "stop" or "error" once the stream has ended
           legal |-> TRUE]

\* May event e follow?  Blocks of a translated turn are ordered when ordered holds.
Legal(w, e, ordered) ==
    /\ w.legal /\ w.end = "none"
    /\ e.type = "message_start" <=> ~w.begun
    /\ w.closing => e.type = "message_stop"
    /\ e.type = "block_start" =>
          e.index = w.next /\ (ordered => w.rank <= KindRank(e.kind))
    /\ e.type \in {"delta", "block_stop"} => e.index \in w.open
    /\ e.type = "message_delta" => w.open = {}
    /\ e.type = "message_stop" => w.closing

After(w, e, ordered) ==
    LET next == [w EXCEPT !.legal = Legal(w, e, ordered)]
    IN CASE e.type = "message_start" -> [next EXCEPT !.begun = TRUE]
         [] e.type = "block_start" -> [next EXCEPT !.open = @ \cup {e.index},
                                                  !.next = @ + 1, !.rank = KindRank(e.kind)]
         [] e.type = "delta" -> [next EXCEPT !.args = @ + e.size]
         [] e.type = "block_stop" -> [next EXCEPT !.open = @ \ {e.index}]
         [] e.type = "usage" -> [next EXCEPT !.usage = e.tokens]
         [] e.type = "message_delta" -> [next EXCEPT !.usage = e.tokens, !.closing = TRUE]
         [] e.type = "message_stop" -> [next EXCEPT !.end = "stop"]
         [] e.type = "error" -> [next EXCEPT !.end = "error"]
         [] OTHER -> next
==============================================================================
