----------------------------- MODULE MCConversation -----------------------------
(***************************************************************************)
(* A conversation of a few turns whose models call two tools by ids that need  *)
(* sanitizing, and that moves between the wires.                              *)
(***************************************************************************)
EXTENDS Conversation

MCSanitized == [c \in Calls |-> IF c = "bash:0" THEN "bash_0" ELSE c]

Shape(reasoning, content, refusal, calls) ==
    [reasoning |-> reasoning, content |-> content, refusal |-> refusal, calls |-> calls]

MCPrompt == <<1>>

MCReplies == {
    Shape(TRUE, TRUE, FALSE, <<"bash:0", "read">>),
    Shape(TRUE, FALSE, TRUE, <<>>)}

MCStreams == {<<"no reasoning", "bash:0", "text", "reasoning">>}

MCNatives == {<<"redacted", "foreign">>}
================================================================================
