------------------------------ MODULE Translation ------------------------------
(***************************************************************************)
(* What the two translated wires make of a conversation: paths/normalize.ts   *)
(* cleans the client's messages once, paths/mantle.ts writes them for an      *)
(* OpenAI-compatible upstream (with z.ai's replayed reasoning), and           *)
(* paths/converse.ts for Bedrock Converse; the answers come back the same     *)
(* way.  A text is the sequence of the things it says, so that joining texts  *)
(* is \o and the empty text is <<>>.                                          *)
(***************************************************************************)
EXTENDS Integers, Lists

CONSTANTS
    Calls,        \* the ids upstreams give to tool calls
    Sanitized,    \* sanitizeToolCallId(), a function on Calls
    MaxMessages   \* limits.maxMessages

\* sanitizeToolCallId() is deterministic; that it keeps the ids of one turn apart
\* is what the upstreams' ids must allow.
ASSUME TranslationAssumption ==
    /\ DOMAIN Sanitized = Calls
    /\ \A c, d \in Calls : Sanitized[c] = Sanitized[d] => c = d
    /\ MaxMessages \in Nat

Nobody == "no call"
Ours == <<0>>      \* words of the proxy: placeholders and synthetic results

-----------------------------------------------------------------------------
(* Blocks and messages.  ref is the call of a tool block, the kind of source   *)
(* of an image; a flat message has a string for content.                       *)

Block(type, ref, says) == [type |-> type, ref |-> ref, says |-> says]
Text(says) == Block("text", Nobody, says)
Thinking(says) == Block("thinking", Nobody, says)
Use(c) == Block("tool_use", c, <<>>)
Result(c, says) == Block("tool_result", c, says)
Image(source, says) == Block("image", source, says)

Message(role, flat, content) == [role |-> role, flat |-> flat, content |-> content]

Refs(type, content) ==
    Joined([i \in DOMAIN content |->
        IF content[i].type = type THEN <<content[i].ref>> ELSE <<>>])
Says(types, content) ==
    Joined([i \in DOMAIN content |->
        IF content[i].type \in types THEN content[i].says ELSE <<>>])

\* KNOWN_ANTHROPIC_BLOCK_TYPES: any other block is refused with a 400.
Known == {"text", "thinking", "redacted_thinking", "tool_use", "tool_result", "image"}

-----------------------------------------------------------------------------
(* normalizeForIrPaths()                                                        *)

messageText(content) == Says({"text"}, content)
isEmptyTextBlock(b) == b.type = "text" /\ b.says = <<>>
stripEmptyBlocks(content) == Only(content, {b \in Range(content) : ~isEmptyTextBlock(b)})

\* Only system text before the first user turn is the operator's (SEC-5).
SeenUserTurn(turns, i) == \E j \in 1..(i - 1) : turns[j].role = "user"
\* Mutant: wherever it stands.
HoistedAnywhere(turns, i) == turns[i].role = "system"
Hoisted(turns, i) == turns[i].role = "system" /\ ~SeenUserTurn(turns, i)

SystemPrompt(prompt, turns) ==
    prompt \o Joined([i \in DOMAIN turns |->
        IF Hoisted(turns, i) THEN messageText(turns[i].content) ELSE <<>>])

Demoted(m) ==
    IF messageText(m.content) = <<>> THEN <<>>
    ELSE <<Message("user", TRUE, <<Text(messageText(m.content))>>)>>
Kept(m) ==
    LET content == stripEmptyBlocks(m.content)
    IN  IF content = <<>> THEN <<>> ELSE <<Message(m.role, m.flat, content)>>

Conversational(turns) ==
    Joined([i \in DOMAIN turns |->
        IF Hoisted(turns, i) THEN <<>>
        ELSE IF turns[i].role = "system" THEN Demoted(turns[i])
        ELSE Kept(turns[i])])

-----------------------------------------------------------------------------
(* reconcileToolBlocks(): every call is answered in the turn after it.         *)

toolUseIds(m) == IF m.flat THEN <<>> ELSE Refs("tool_use", m.content)
toolResultIds(content) == Refs("tool_result", content)
syntheticToolResults(ids) == [i \in DOMAIN ids |-> Result(ids[i], Ours)]

Pending(m) == IF m.role = "assistant" THEN toolUseIds(m) ELSE <<>>
HasPending(m) ==
    m.role = "assistant" /\ ~m.flat /\ \E k \in DOMAIN m.content : m.content[k].type = "tool_use"
\* The user turn at i is the one that may answer the assistant before it.
Answering(turns, i) ==
    /\ i \in DOMAIN turns /\ i > 1 /\ HasPending(turns[i - 1])
    /\ turns[i].role = "user" /\ ~turns[i].flat

Pruned(pending, content) ==
    Only(content, {b \in Range(content) : b.type = "tool_result" => b.ref \in Range(pending)})

\* Mutant: an interrupted call is left open.
MissingNone(pending, content) == <<>>
Missing(pending, content) ==
    Only(pending, Range(pending) \ Range(toolResultIds(content)))

Answer(pending, content) ==
    LET pruned == Pruned(pending, content)
    IN  Message("user", FALSE, syntheticToolResults(Missing(pending, pruned)) \o pruned)

reconcileToolBlocks(turns) ==
    Joined([i \in DOMAIN turns |->
        IF Answering(turns, i) THEN <<>>
        ELSE IF ~HasPending(turns[i]) THEN <<turns[i]>>
        ELSE <<turns[i],
               Answer(Pending(turns[i]),
                      IF Answering(turns, i + 1) THEN turns[i + 1].content ELSE <<>>)>>])

normalizeForIrPaths(turns) == reconcileToolBlocks(Conversational(turns))

-----------------------------------------------------------------------------
(* anthropicMessageToOpenAI().  The content of an OpenAI message is what its    *)
(* parts say, joined.                                                           *)

OpenAIMessage(role, content, reasoning, calls, for) ==
    [role |-> role, content |-> content, reasoning |-> reasoning, calls |-> calls, for |-> for]

SanitizeResult(c) == Sanitized[c]
ToolMessages(content) ==
    Joined([i \in DOMAIN content |->
        IF content[i].type = "tool_result"
        THEN <<OpenAIMessage("tool", content[i].says, <<>>, <<>>, SanitizeResult(content[i].ref))>>
        ELSE <<>>])

ToolCalls(content) ==
    LET ids == Refs("tool_use", content) IN [i \in DOMAIN ids |-> Sanitized[ids[i]]]

\* An image whose source normalizeImageSource() does not know is dropped.
Parts(content) ==
    Says({"text", "image"}, Only(content, {b \in Range(content) : b.ref # "unknown source"}))

\* What the model thought goes back to z.ai only, and only an assistant's own.
\* Mutant: a turn with tool calls loses it.
ReasoningOfPlain(wire, m) ==
    IF wire = "zai" /\ m.role = "assistant" /\ ToolCalls(m.content) = <<>>
    THEN Says({"thinking"}, m.content) ELSE <<>>
Reasoning(wire, m) ==
    IF wire = "zai" /\ m.role = "assistant" THEN Says({"thinking"}, m.content) ELSE <<>>

\* Tool results first: they follow the calls they answer (G1).  Mutant: the text first.
TextFirst(results, spoken) == spoken \o results
ResultsFirst(results, spoken) == results \o spoken

anthropicMessageToOpenAI(wire, m) ==
    LET parts == Parts(m.content)
        calls == ToolCalls(m.content)
        results == ToolMessages(m.content)
        said(of) == <<OpenAIMessage(m.role, parts, Reasoning(wire, m), of, Nobody)>>
    IN  IF m.role = "assistant" /\ calls # <<>> THEN said(calls) \o results
        ELSE IF parts # <<>> \/ results = <<>> THEN ResultsFirst(results, said(<<>>))
        ELSE results

\* messages are normalized.
anthropicToOpenAIRequest(wire, messages) ==
    Joined([i \in DOMAIN messages |-> anthropicMessageToOpenAI(wire, messages[i])])

\* openAIResponseToIr(), irToAnthropicResponse(): reasoning, then text, the
\* refusal as text, then the calls.
openAIResponseToIr(reply) ==
    LET Unless(says, block) == IF says = <<>> THEN <<>> ELSE <<block>>
    IN  Unless(reply.reasoning, Thinking(reply.reasoning))
        \o Unless(reply.content, Text(reply.content))
        \o Unless(reply.refusal, Text(reply.refusal))
        \o [i \in DOMAIN reply.calls |-> Use(reply.calls[i])]

-----------------------------------------------------------------------------
(* anthropicToConverseRequest()                                                 *)

\* anthropicBlockToIr(), irBlockToConverse(): the image sources Converse cannot
\* take are named in a text instead.
ToConverse(b) == IF b.type = "image" /\ b.ref # "bytes" THEN Text(Ours) ELSE b

anthropicMessageToIr(m) ==
    LET content == Only(m.content, {b \in Range(m.content) : b.type # "redacted_thinking"})
    IN  [role |-> m.role,
         content |-> stripEmptyBlocks([i \in DOMAIN content |-> ToConverse(content[i])])]

\* Roles must alternate on Converse (TC4): neighbours of one role become one message,
\* once those without content are gone.
With(sofar, m) ==
    LET last == sofar[Len(sofar)]
    IN  IF m.content = <<>> THEN sofar
        ELSE IF sofar # <<>> /\ last.role = m.role
             THEN [sofar EXCEPT ![Len(sofar)] =
                      [role |-> last.role, content |-> last.content \o m.content]]
        ELSE Append(sofar, m)
Merged(messages) ==
    LET F[i \in 0..Size(messages)] == IF i = 0 THEN <<>> ELSE With(F[i - 1], messages[i])
    IN  F[Size(messages)]

anthropicToConverseRequest(messages) ==
    Merged([i \in DOMAIN messages |-> anthropicMessageToIr(messages[i])])

\* converseResponseToIr(): block by block, empty reasoning skipped.
converseResponseToIr(blocks) ==
    Only(blocks, {b \in Range(blocks) : b.type = "thinking" => b.says # <<>>})

-----------------------------------------------------------------------------
\* assertInboundLimits(), then validateInboundBlock() on every block that is
\* translated: a 400 before anything is sent.
Refuses(turns, messages) ==
    \/ Len(turns) > MaxMessages
    \/ \E i \in DOMAIN messages : \E k \in DOMAIN messages[i].content :
           messages[i].content[k].type \notin Known
================================================================================
