------------------------------ MODULE Conversation ------------------------------
(***************************************************************************)
(* A client's conversation as the proxy carries it, request by request: the    *)
(* client adds turns, answers or interrupts tool calls, repeats itself, injects *)
(* system reminders and drops its oldest turns; every request holds the whole  *)
(* of it, is translated for the wire of the model it names, and the answer     *)
(* becomes the next turn.  The models asked may change from one request to the *)
(* next.                                                                       *)
(***************************************************************************)
EXTENDS Translation, SequencesExt

CONSTANTS
    Prompt,       \* what the request's system field says
    Kinds,        \* the user turns the client writes
    Places,       \* where its words are in a turn with results
    Replies,      \* what OpenAI-compatible upstreams answer
    Streams,      \* what Converse answers, block by block
    Natives,      \* what the native route answers, relayed as it is
    MaxSaid       \* bound: turns of the conversation ever said

\* What arrives is JSON: calls and blocks are arrays, and there are finitely many ids.
\* A Converse answer holds no blocks but text, reasoning and calls.
ASSUME ConversationAssumption ==
    /\ IsFiniteSet(Calls)
    /\ IsSeq(Prompt) /\ Range(Prompt) \subseteq Nat \ {0}
    /\ Kinds \subseteq {"string", "blocks", "empty"}
    /\ Places \subseteq {"before", "after", "none"}
    /\ \A shape \in Replies : IsSeq(shape.calls) /\ Range(shape.calls) \subseteq Calls
    /\ \A names \in Streams : Range(names) \cap {"redacted", "foreign"} = {}
    /\ \A names \in Streams \cup Natives :
           IsSeq(names) /\ Range(names) \subseteq Calls \cup
               {"reasoning", "no reasoning", "redacted", "text", "foreign"}

VARIABLES
    turns,     \* the messages of the client's next request
    said,      \* how many turns there ever were
    phase,     \* "idle", "asked", or "refused" with a 400
    sent,      \* the request the upstream got last, and of how many turns
    made       \* the answers, as their upstreams made them

vars == <<turns, said, phase, sent, made>>

Wires == {"openai", "zai", "converse"}
Nothing == [wire |-> "none", of |-> 0, system |-> <<>>, messages |-> <<>>]

\* What turn n says: its words, its refusal, its reasoning, the results it brings.
Words(n) == <<4 * n>>
Refusal(n) == <<4 * n + 1>>
Thoughts(n) == <<4 * n + 2>>
Findings(n) == <<4 * n + 3>>

Init == turns = <<>> /\ said = 0 /\ phase = "idle" /\ sent = Nothing /\ made = {}

Say(m) ==
    /\ said < MaxSaid
    /\ said' = said + 1 /\ turns' = Append(turns, m)

-----------------------------------------------------------------------------
(* The client                                                                   *)

\* A user turn: a string, blocks with an empty text and images, or nothing.
UserTurn(kind, n) ==
    CASE kind = "string" -> Message("user", TRUE, <<Text(Words(n))>>)
      [] kind = "blocks" -> Message("user", FALSE,
            <<Text(<<>>), Text(Words(n)), Image("url", Words(n)), Image("unknown source", Words(n))>>)
      [] kind = "empty"  -> Message("user", TRUE, <<Text(<<>>)>>)

Write(kind) ==
    /\ phase # "asked" /\ Say(UserTurn(kind, said + 1))
    /\ phase' = "idle" /\ UNCHANGED <<sent, made>>

Remind ==
    /\ phase # "asked" /\ Say(Message("system", TRUE, <<Text(Words(said + 1))>>))
    /\ phase' = "idle" /\ UNCHANGED <<sent, made>>

\* Once calls were made, results: not of all when tools were interrupted, of other
\* calls when the history was edited, and with words around them.
CallsMade == \E i \in DOMAIN turns : HasPending(turns[i])
Results(S, n) == SetToSeq({Result(c, Findings(n)) : c \in S})
Respond(S, place) ==
    /\ phase # "asked" /\ S # {} /\ CallsMade
    /\ LET n == said + 1
           content == CASE place = "before" -> <<Text(Words(n))>> \o Results(S, n)
                        [] place = "after"  -> Results(S, n) \o <<Text(Words(n))>>
                        [] place = "none"   -> Results(S, n)
       IN Say(Message("user", FALSE, content))
    /\ phase' = "idle" /\ UNCHANGED <<sent, made>>

\* The client makes room: its oldest turns are no longer sent.  A conversation
\* still begins with what somebody told the model.
Compact ==
    /\ phase # "asked" /\ turns # <<>>
    /\ \E k \in DOMAIN turns :
           /\ k < Len(turns) => turns[k + 1].role # "assistant"
           /\ turns' = SubSeq(turns, k + 1, Len(turns))
    /\ phase' = "idle" /\ sent' = Nothing /\ UNCHANGED <<said, made>>

-----------------------------------------------------------------------------
(* The proxy                                                                    *)

\* Every path normalizes the turns first.
Translated(wire, messages) ==
    IF wire = "converse" THEN anthropicToConverseRequest(messages)
    ELSE anthropicToOpenAIRequest(wire, messages)

\* A request holds at least one user turn and does not end with the model's own.
ClientAsks ==
    /\ phase # "asked" /\ turns # <<>> /\ Last(turns).role # "assistant"
    /\ \E i \in DOMAIN turns : turns[i].role = "user"

\* The request goes out on the wire of the model it names.
Ask ==
    /\ ClientAsks
    /\ LET messages == normalizeForIrPaths(turns)
           system == SystemPrompt(Prompt, turns)
       IN  /\ ~Refuses(turns, messages)
           /\ \E wire \in Wires :
                  sent' = [wire |-> wire, of |-> Len(turns), system |-> system,
                           messages |-> Translated(wire, messages)]
    /\ phase' = "asked" /\ UNCHANGED <<turns, said, made>>

Refuse ==
    /\ ClientAsks /\ phase = "idle" /\ Refuses(turns, normalizeForIrPaths(turns))
    /\ phase' = "refused" /\ UNCHANGED <<turns, said, sent, made>>

\* What an upstream that answers with a reply of this shape says in turn n.
Spoken(shape, n) ==
    [reasoning |-> IF shape.reasoning THEN Thoughts(n) ELSE <<>>,
     content |-> IF shape.content THEN Words(n) ELSE <<>>,
     refusal |-> IF shape.refusal THEN Refusal(n) ELSE <<>>,
     calls |-> shape.calls]

\* The answer becomes the assistant turn the client keeps.
Answered(content, message) ==
    /\ phase = "asked" /\ Say(Message("assistant", FALSE, content))
    /\ made' = made \cup {[turn |-> said + 1, wire |-> sent.wire, message |-> message]}
    /\ phase' = "idle" /\ UNCHANGED sent

\* shape is one of Replies.
ReplyOpenAI(shape) ==
    LET reply == Spoken(shape, said + 1)
    IN  /\ sent.wire \in {"openai", "zai"}
        /\ Answered(openAIResponseToIr(reply), reply)

\* The upstream failed, or the client did not take the answer.
Fail == phase = "asked" /\ phase' = "idle" /\ UNCHANGED <<turns, said, sent, made>>

\* A Converse answer is its blocks: thoughts, words and calls in any order.
StreamBlock(name, n) ==
    CASE name = "reasoning" -> Thinking(Thoughts(n))
      [] name = "no reasoning" -> Thinking(<<>>)
      [] name = "redacted"  -> Block("redacted_thinking", Nobody, Thoughts(n))
      [] name = "text"      -> Text(Words(n))
      [] name = "foreign"   -> Block("web_search_tool_result", Nobody, Words(n))
      [] OTHER              -> Use(name)
StreamOf(names, n) == [i \in DOMAIN names |-> StreamBlock(names[i], n)]

ReplyConverse(names) ==
    /\ sent.wire = "converse"
    /\ Answered(converseResponseToIr(StreamOf(names, said + 1)), StreamOf(names, said + 1))

\* The native route relays request and answer untouched: only the conversation grows.
AskNative(names) ==
    /\ ClientAsks /\ Len(turns) <= MaxMessages
    /\ Say(Message("assistant", FALSE, StreamOf(names, said + 1)))
    /\ UNCHANGED <<phase, sent, made>>

Next ==
    \/ \E kind \in Kinds : Write(kind)
    \/ Remind
    \/ \E S \in SUBSET Calls, place \in Places : Respond(S, place)
    \/ Compact
    \/ Ask
    \/ Refuse
    \/ \E shape \in Replies : ReplyOpenAI(shape)
    \/ \E names \in Streams : ReplyConverse(names)
    \/ Fail
    \/ \E names \in Natives : AskNative(names)

Spec == Init /\ [][Next]_vars

-----------------------------------------------------------------------------
(* What was sent, read the same way on every wire.                              *)

IsConverse == sent.wire = "converse"
CallsIn(m) == IF IsConverse THEN Refs("tool_use", m.content) ELSE m.calls
\* Where the results of the calls of message i belong, and those that are there.
After(i) ==
    LET messages == sent.messages
    IN  IF IsConverse THEN {j \in DOMAIN messages : j = i + 1}
        ELSE {j \in (i + 1)..Len(messages) : \A k \in (i + 1)..j : messages[k].role = "tool"}
Following(i) ==
    LET at(j) == sent.messages[j]
    IN  IF IsConverse
        THEN IF After(i) = {} THEN <<>> ELSE Refs("tool_result", at(i + 1).content)
        ELSE [k \in 1..Cardinality(After(i)) |-> at(i + k).for]
HasResults(m) ==
    IF IsConverse THEN Refs("tool_result", m.content) # <<>> ELSE m.role = "tool"

\* A request as one sequence; on Converse a turn may still grow by blocks.
Whole(request) ==
    LET unit(m) == IF request.wire = "converse"
                   THEN [k \in DOMAIN m.content |-> <<m.role, m.content[k]>>] ELSE <<m>>
    IN  Joined([i \in DOMAIN request.messages |-> unit(request.messages[i])])

\* Results come in the turn after calls, one for a call; some may be of other calls.
WellPlaced ==
    \A i \in DOMAIN turns :
        LET results == Refs("tool_result", turns[i].content)
        IN  /\ IsInjective(results)
            /\ results # <<>> => i > 1 /\ HasPending(turns[i - 1])

-----------------------------------------------------------------------------
(* Properties                                                                   *)

\* Whatever the client did to its conversation, interrupted tools, reminders or
\* turns in between, dropped history, no upstream is ever asked with a call left
\* open: each is answered directly after the message that makes it
\* (reconcileToolBlocks() and the order of anthropicMessageToOpenAI()).
EveryCallAnswered ==
    phase = "asked" =>
        \A i \in DOMAIN sent.messages :
            ToSet(CallsIn(sent.messages[i])) \subseteq ToSet(Following(i))

\* When the client brings results only in the turn after calls, though not for all
\* of them and perhaps for others, strict upstreams take what is sent: each call is
\* answered exactly once, no result stands anywhere else, and on Converse roles
\* alternate and no message or text is empty (reconcileToolBlocks(), Merged).
StrictlyAccepted ==
    phase = "asked" /\ WellPlaced =>
        LET messages == sent.messages
        IN  /\ \A i \in DOMAIN messages :
                   LET calls == CallsIn(messages[i])
                   IN calls # <<>> =>
                        /\ IsInjective(calls) /\ IsInjective(Following(i))
                        /\ ToSet(Following(i)) = ToSet(calls)
            /\ \A j \in DOMAIN messages : HasResults(messages[j]) =>
                   \E i \in 1..(j - 1) : CallsIn(messages[i]) # <<>> /\ j \in After(i)
            /\ IsConverse =>
                 \A i \in DOMAIN messages :
                    /\ i > 1 => messages[i].role # messages[i - 1].role
                    /\ messages[i].content # <<>>
                    /\ \A k \in DOMAIN messages[i].content : ~isEmptyTextBlock(messages[i].content[k])

\* Nothing the client or a model said is lost, repeated or put in another order on
\* its way: the words of all turns are the words of the system prompt and the
\* messages together, first those of the prompt and of the system turns that came
\* before any user turn.
WordsKept ==
    phase = "asked" =>
        LET types == {"text"} \cup IF IsConverse THEN {} ELSE {"image"}
            sourced(content) == Only(content, {b \in Range(content) : b.ref # "unknown source"})
            words(i) == IF turns[i].role = "system" THEN messageText(turns[i].content)
                        ELSE Says(types, sourced(turns[i].content))
            early(i) == turns[i].role = "system" /\ \A j \in 1..i : turns[j].role # "user"
            received(first) == Joined([i \in DOMAIN turns |->
                                   IF early(i) = first THEN words(i) ELSE <<>>])
            heard(m) == IF IsConverse THEN Says({"text"}, m.content)
                        ELSE IF m.role = "tool" THEN <<>> ELSE m.content
            passed == sent.system \o Joined([i \in DOMAIN sent.messages |-> heard(sent.messages[i])])
        IN  Only(passed, Nat \ Range(Ours)) = Prompt \o received(TRUE) \o received(FALSE)

\* A model is shown its own earlier answers as it gave them, unless they said
\* nothing: on OpenAI's wires the content and the calls of one answer in one message,
\* with z.ai's reasoning complete, unmodified and in its place; on Converse the blocks
\* in their order.
ReturnsAsMade ==
    \A reply \in made :
        LET own == reply.message
            shown == IF IsConverse
                     THEN Only(own, {b \in Range(own) : b.says # <<>> \/ b.type = "tool_use"})
                     ELSE openAIResponseToIr(own)
            again(m) ==
                IF IsConverse THEN shown \in SubSeqs(m.content)
                ELSE /\ m.content = own.content \o own.refusal
                     /\ m.calls = [i \in DOMAIN own.calls |-> Sanitized[own.calls[i]]]
                     /\ m.reasoning = IF sent.wire = "zai" THEN own.reasoning ELSE <<>>
        IN  phase = "asked" /\ reply.wire = sent.wire /\ reply.turn > said - Len(turns)
                /\ shown # <<>> =>
                \E i \in DOMAIN sent.messages :
                    sent.messages[i].role = "assistant" /\ again(sent.messages[i])

\* What was said reaches the next model as it was said, by whoever said it.
NothingLost == WordsKept /\ ReturnsAsMade

\* As long as the client only adds turns, a request repeats the one before it (if
\* that ended with a turn that said something) and goes on from there, so that the
\* upstream's prompt cache holds: what came to the system prompt stays there, and
\* what did not never gets there later (SEC-5).
PrefixKept ==
    [][phase' = "asked" /\ phase # "asked" /\ sent.wire = sent'.wire
         /\ Kept(turns[sent.of]) # <<>> =>
        sent'.system = sent.system /\ IsPrefix(Whole(sent), Whole(sent'))]_vars
================================================================================
