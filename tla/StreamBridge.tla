----------------------------- MODULE StreamBridge ------------------------------
(***************************************************************************)
(* One streamed answer on its way to the client.  On the paths "converse"  *)
(* and "openai" a bridge (stream/converse-events.ts, stream/openai-sse.ts) *)
(* reads the upstream and drives the emitter of stream/anthropic-sse.ts; on *)
(* the path "native" the tee of stream/keepalive-tee.ts relays the bytes.   *)
(*                                                                         *)
(* The pump awaits one read at a time, bounded by readWithIdleTimeout() of  *)
(* http/upstream.ts; timers and the client's cancel() come in between.      *)
(* A read brings one frame; text is counted in fragments.                   *)
(***************************************************************************)
EXTENDS AnthropicStream, Integers, Sequences

CONSTANTS
    Paths,      \* the paths to check
    Tool,       \* tool-call indices of the OpenAI wire
    MaxFrames,  \* bound of the model: frames of an upstream
    MaxTicks    \* bound of the model: timer events of the emitter

ASSUME StreamAssumption ==
    /\ Paths \subseteq {"converse", "openai", "native"}
    /\ Tool \subseteq Nat /\ MaxFrames \in Nat /\ MaxTicks \in Nat

VARIABLES
    path,
    pc,        \* the pump: "reading", "cancelling", "over"
    read,      \* the read it awaits: "pending", or what settled it
    upstream,  \* the body: "flowing", "ended", "failed", "cancelled"
    source,    \* what a ConverseStream may send next
    client,    \* "here" or "gone"
    s,         \* the fields of the emitter and the locals of the bridge
    frames, ticks \* bounds

streamVars == <<path, pc, read, upstream, source, client, s, frames, ticks>>

None == -1

\* A bridge that has done nothing.
Fresh == [
    \* AnthropicSseEmitter
    sent |-> Silent, started |-> FALSE, closed |-> FALSE, nextIndex |-> 0,
    openBlock |-> None, pingTimer |-> FALSE, usageTimer |-> FALSE,
    running |-> 0, reported |-> FALSE, emitted |-> None,
    \* both bridges: what the upstream reported, what was seen of it
    tokens |-> 0, chars |-> 0, args |-> 0,
    \* the Converse bridge: the blocks of blockIndexMap
    blockIndex |-> [n \in 0..MaxFrames |-> None],
    \* the OpenAI bridge
    thinking |-> None, text |-> None, tools |-> <<>>, finished |-> FALSE]

------------------------------------------------------------------------------
(* AnthropicSseEmitter.                                                    *)

\* write(), safeEnqueue(): nothing is sent once the stream is closed.
Write(b, e) ==
    IF b.closed THEN b
    ELSE [b EXCEPT !.sent = After(@, e, path = "openai")]

\* cleanup()
Cleanup(b) == [b EXCEPT !.closed = TRUE, !.pingTimer = FALSE, !.usageTimer = FALSE]

\* startUsageTimer(), startPingTimer()
StartTimers(b) == IF b.closed THEN b ELSE [b EXCEPT !.pingTimer = TRUE, !.usageTimer = TRUE]

\* start(), behind ensureStarted().
Start(b) ==
    IF b.started THEN b
    ELSE Write(StartTimers(Write([b EXCEPT !.started = TRUE], MessageStart)), Ping)

\* startTextBlock(), startThinkingBlock(), startToolUseBlock(): the block opened
\* has the index b.nextIndex.
OpenBlock(b, kind) ==
    Write([b EXCEPT !.nextIndex = @ + 1, !.openBlock = b.nextIndex],
          BlockStart(b.nextIndex, kind))

\* appendText() and its like.
AppendText(b, index) == [Write(b, Delta(index, 0)) EXCEPT !.chars = @ + 1]
AppendArgs(b, index, size) == Write(b, Delta(index, size))

StopBlock(b, index) ==
    [Write(b, BlockStop(index)) EXCEPT !.openBlock = IF @ = index THEN None ELSE @]

\* updateUsage() with the best count so far: the upstream's own, or an estimate.
OutputTokens(b) == IF b.tokens > 0 THEN b.tokens ELSE b.chars
UpdateUsage(b) ==
    [b EXCEPT !.reported = TRUE,
              !.running = IF OutputTokens(b) > @ THEN OutputTokens(b) ELSE @]

\* emitUsageDelta()
EmitUsage(b) ==
    IF b.closed \/ ~b.started \/ ~b.reported \/ b.running = b.emitted THEN b
    ELSE [Write(b, Usage(b.running)) EXCEPT !.emitted = b.running]

\* finish()
Finish(b) ==
    IF b.closed THEN b
    ELSE LET stopped == IF b.openBlock # None THEN StopBlock(b, b.openBlock) ELSE b
         IN Cleanup(Write(Write(stopped, MessageDelta(OutputTokens(b))), MessageStop))

\* fail(): the accrued usage, then the error.  Mutant: the error alone.
FailSilently(b) == IF b.closed THEN b ELSE Cleanup(Write(b, Error))
Fail(b) == IF b.closed THEN b ELSE Cleanup(Write(EmitUsage(b), Error))

------------------------------------------------------------------------------
(* The Converse bridge.                                                    *)

\* The frames of a ConverseStream from where it stands: a tool block is opened
\* by a frame of its own, a text or a reasoning block by its first delta.
ConverseFrames ==
    CASE source.at = "start" -> {[type |-> "messageStart"]}
      [] source.at = "between" ->
            {[type |-> "contentBlockStart", block |-> source.block],
             [type |-> "messageStop"]}
            \cup [type : {"contentBlockDelta"}, block : {source.block},
                  kind : {"thinking", "text"}]
      [] source.at = "block" ->
            {[type |-> "contentBlockDelta", block |-> source.block, kind |-> source.kind],
             [type |-> "contentBlockStop", block |-> source.block]}
      [] source.at = "stopped" -> {[type |-> "metadata"]}
      [] OTHER -> {}

SourceAfter(frame) ==
    CASE frame.type = "messageStart" -> [source EXCEPT !.at = "between"]
      [] frame.type = "contentBlockStart" -> [source EXCEPT !.at = "block", !.kind = "tool_use"]
      [] frame.type = "contentBlockDelta" -> [source EXCEPT !.at = "block", !.kind = frame.kind]
      [] frame.type = "contentBlockStop" -> [source EXCEPT !.at = "between", !.block = @ + 1]
      [] frame.type = "messageStop" -> [source EXCEPT !.at = "stopped"]
      [] OTHER -> [source EXCEPT !.at = "done"]

\* A delta of text or reasoning opens its block when there is none.
ConverseDelta(b, block, kind) ==
    LET opened == IF b.blockIndex[block] # None THEN b
                  ELSE [OpenBlock(b, kind) EXCEPT !.blockIndex[block] = b.nextIndex]
    IN AppendText(opened, opened.blockIndex[block])

\* A fragment of arguments goes to its block, if that was opened.
ConverseArgs(b, block) ==
    LET sent == IF b.blockIndex[block] = None THEN b
                ELSE AppendArgs(b, b.blockIndex[block], 1)
    IN [sent EXCEPT !.args = @ + 1, !.chars = @ + 1]

\* contentBlockStop.  Mutant: the entry is dropped and the block left open.
ConverseForgets(b, block) == [b EXCEPT !.blockIndex[block] = None]
ConverseStops(b, block) ==
    IF b.blockIndex[block] = None THEN b
    ELSE [StopBlock(b, b.blockIndex[block]) EXCEPT !.blockIndex[block] = None]

\* handleFrame()
HandleFrame(b, frame) ==
    CASE frame.type = "messageStart" -> Start(b)
      [] frame.type = "contentBlockStart" ->
            LET begun == Start(b)
            IN [OpenBlock(begun, "tool_use")
                   EXCEPT !.blockIndex[frame.block] = begun.nextIndex]
      [] frame.type = "contentBlockDelta" ->
            IF frame.kind = "tool_use" THEN ConverseArgs(Start(b), frame.block)
            ELSE ConverseDelta(Start(b), frame.block, frame.kind)
      [] frame.type = "contentBlockStop" -> ConverseStops(b, frame.block)
      [] frame.type = "metadata" -> [b EXCEPT !.tokens = 1]
      [] OTHER -> b

------------------------------------------------------------------------------
(* The OpenAI bridge.                                                      *)

\* The chunks: one that combines several fields is handled as one per field would
\* be.  A provider may name a tool call late or never, and go on after a finish.
OpenAiChunks ==
    [type : {"usage", "reasoning", "content", "finish", "zai_error"}]
    \cup [type : {"call"}, tool : Tool, id : BOOLEAN, args : 0..1]

CloseThinking(b) ==
    IF b.thinking = None THEN b ELSE [StopBlock(b, b.thinking) EXCEPT !.thinking = None]
CloseText(b) ==
    IF b.text = None THEN b ELSE [StopBlock(b, b.text) EXCEPT !.text = None]

\* Reasoning becomes a thinking block while nothing else has begun.
Reasoning(b) ==
    IF b.text # None \/ b.tools # <<>> THEN b
    ELSE LET opened == IF b.thinking # None THEN b
                       ELSE [OpenBlock(b, "thinking") EXCEPT !.thinking = b.nextIndex]
         IN AppendText(opened, opened.thinking)

\* Content or a refusal: text opens before any tool call only.  Mutant: whenever.
ContentWhenever(b) ==
    LET closed == CloseThinking(b)
        opened == IF b.text # None THEN b
                  ELSE [OpenBlock(closed, "text") EXCEPT !.text = closed.nextIndex]
    IN AppendText(opened, opened.text)
Content(b) == IF b.text = None /\ b.tools # <<>> THEN b ELSE ContentWhenever(b)

\* The block of the tool call at position n, with the arguments that came before it.
OpenToolBlock(b, n) ==
    LET opened == [OpenBlock(b, "tool_use") EXCEPT !.tools[n].block = b.nextIndex]
        pending == b.tools[n].pending
    IN IF pending = 0 THEN opened
       ELSE [AppendArgs(opened, b.nextIndex, pending) EXCEPT !.tools[n].pending = 0]

\* One entry of tool_calls.
ToolCall(b, call) ==
    LET closed == CloseText(CloseThinking(b))
        known == \E n \in DOMAIN closed.tools : closed.tools[n].tool = call.tool
        with == IF known THEN closed
                ELSE [closed EXCEPT !.tools = Append(@, [tool |-> call.tool, block |-> None,
                                                        pending |-> 0])]
        n == CHOOSE k \in DOMAIN with.tools : with.tools[k].tool = call.tool
        named == IF with.tools[n].block = None /\ call.id THEN OpenToolBlock(with, n) ELSE with
        counted == [named EXCEPT !.chars = @ + call.args, !.args = @ + call.args]
    IN IF call.args = 0 THEN counted
       ELSE IF counted.tools[n].block = None
            THEN [counted EXCEPT !.tools[n].pending = @ + call.args]
            ELSE AppendArgs(counted, counted.tools[n].block, call.args)

\* closeAllBlocks(): a call that was never named gets its block now.  Mutant: it
\* is left out.
CloseToolOnly(b, n) ==
    IF b.tools[n].block = None THEN b ELSE StopBlock(b, b.tools[n].block)
CloseTool(b, n) ==
    LET opened == IF b.tools[n].block = None THEN OpenToolBlock(b, n) ELSE b
    IN StopBlock(opened, opened.tools[n].block)
CloseAllBlocks(b) ==
    LET before == CloseText(CloseThinking(b))
        closed[n \in 0..Len(b.tools)] == IF n = 0 THEN before ELSE CloseTool(closed[n - 1], n)
    IN [closed[Len(b.tools)] EXCEPT !.tools = <<>>]

\* handleChunk(): what follows the finish is ignored but for the usage.  A finish
\* that is an error of z.ai ends the stream as one.
HandleChunk(b, chunk) ==
    LET begun == Start(b)
    IN IF chunk.type = "usage" THEN [begun EXCEPT !.tokens = 1]
       ELSE IF b.finished THEN begun
       ELSE CASE chunk.type = "reasoning" -> UpdateUsage(Reasoning(begun))
              [] chunk.type = "content" -> UpdateUsage(Content(begun))
              [] chunk.type = "call" -> UpdateUsage(ToolCall(begun, chunk))
              [] chunk.type = "finish" -> UpdateUsage([begun EXCEPT !.finished = TRUE])
              [] chunk.type = "zai_error" -> Fail(begun)

------------------------------------------------------------------------------
(* The pump and its read.                                                  *)

\* The read settles with what the body does next.
Arrive ==
    /\ pc = "reading" /\ read = "pending" /\ upstream = "flowing"
    /\ \/ frames < MaxFrames /\ read' = "value" /\ frames' = frames + 1 /\ UNCHANGED upstream
       \/ read' = "done" /\ upstream' = "ended" /\ UNCHANGED frames
       \/ read' = "error" /\ upstream' = "failed" /\ UNCHANGED frames
    /\ UNCHANGED <<path, pc, source, client, s, ticks>>

\* The race of a read takes what settles it first: the idle timer's reject(), or the
\* cancel() of the reader, which ends a pending read as the end of the body does.
Settle(r, how) == IF r = "pending" THEN how ELSE r
RejectIdle(r) == Settle(r, "error")
CancelReader(r) == Settle(r, "done")

\* The idle timer rejects, then cancels.  Mutant: the other way round.
CancelFirst(r) == RejectIdle(CancelReader(r))
RejectFirst(r) == CancelReader(RejectIdle(r))

\* Mutant: only the first read has a timer.
IdleFirstOnly ==
    /\ pc = "reading" /\ read = "pending" /\ frames = 0
    /\ read' = RejectFirst(read)
    /\ upstream' = IF upstream = "flowing" THEN "cancelled" ELSE upstream
    /\ UNCHANGED <<path, pc, source, client, s, frames, ticks>>
IdleFires ==
    /\ pc = "reading" /\ read = "pending"
    /\ read' = RejectFirst(read)
    /\ upstream' = IF upstream = "flowing" THEN "cancelled" ELSE upstream
    /\ UNCHANGED <<path, pc, source, client, s, frames, ticks>>

\* The read brought a frame: the handler runs, then updateUsage().
OnValue ==
    /\ pc = "reading" /\ read = "value"
    /\ \/ /\ path = "converse"
          /\ \E frame \in ConverseFrames :
                /\ s' = UpdateUsage(HandleFrame(s, frame))
                /\ source' = SourceAfter(frame)
       \/ /\ path = "openai"
          /\ \E chunk \in OpenAiChunks : s' = HandleChunk(s, chunk)
          /\ UNCHANGED source
       \/ /\ path = "native"
          /\ UNCHANGED <<s, source>>  \* the bytes go through unchanged
    /\ read' = "pending"
    /\ UNCHANGED <<path, pc, upstream, client, frames, ticks>>

\* The parser refuses a line that outgrows its buffer: the pump cancels its reader.
OnOverflow ==
    /\ path = "openai" /\ pc = "reading" /\ read = "value"
    /\ s' = Start(s) /\ pc' = "cancelling"
    /\ read' = "error"
    /\ upstream' = IF upstream = "flowing" THEN "cancelled" ELSE upstream
    /\ UNCHANGED <<path, source, client, frames, ticks>>

\* The body is over: the rest is closed and the message finished.
OnDone ==
    /\ pc = "reading" /\ read = "done"
    /\ s' = CASE path = "converse" -> Finish(Start(s))
              [] path = "openai" -> Finish(CloseAllBlocks(Start(s)))
              [] path = "native" -> Cleanup([s EXCEPT !.sent.end = "stop"])
    /\ pc' = "over"
    /\ UNCHANGED <<path, read, upstream, source, client, frames, ticks>>

\* The read failed: the pump cancels its reader and waits for that.  The tee
\* passes the error on at once.
OnError ==
    /\ pc = "reading" /\ read = "error"
    /\ IF path = "native"
       THEN s' = Cleanup([s EXCEPT !.sent.end = "error"]) /\ pc' = "over"
       ELSE s' = Start(s) /\ pc' = "cancelling"
    /\ UNCHANGED <<path, read, upstream, source, client, frames, ticks>>

FailStream ==
    /\ pc = "cancelling"
    /\ s' = Fail(s) /\ pc' = "over"
    /\ UNCHANGED <<path, read, upstream, source, client, frames, ticks>>

------------------------------------------------------------------------------
(* Timers and the client.                                                  *)

\* The ping interval, after a silence.
PingTick ==
    /\ s.pingTimer /\ ~s.closed /\ ticks < MaxTicks
    /\ s' = IF path = "native" THEN s ELSE Write(s, Ping)
    /\ ticks' = ticks + 1
    /\ UNCHANGED <<path, pc, read, upstream, source, client, frames>>

\* The usage interval.
UsageTick ==
    /\ s.usageTimer /\ EmitUsage(s) # s /\ ticks < MaxTicks
    /\ s' = EmitUsage(s)
    /\ ticks' = ticks + 1
    /\ UNCHANGED <<path, pc, read, upstream, source, client, frames>>

\* The client cancels the stream: cleanup(), and onCancel cancels the reader,
\* whose pending read is then done.
ReaderCancelled ==
    /\ upstream' = IF upstream = "flowing" THEN "cancelled" ELSE upstream
    /\ read' = IF pc = "reading" /\ read = "pending" THEN "done" ELSE read
ClientCancels ==
    /\ client = "here" /\ ~s.closed
    /\ client' = "gone" /\ s' = Cleanup(s)
    /\ ReaderCancelled
    /\ UNCHANGED <<path, pc, source, frames, ticks>>

------------------------------------------------------------------------------
StreamInit ==
    /\ path \in Paths
    /\ pc = "reading" /\ read = "pending" /\ upstream = "flowing" /\ client = "here"
    /\ source = [at |-> "start", block |-> 0, kind |-> "text"]
    /\ s = [Fresh EXCEPT !.pingTimer = path = "native"]
    /\ frames = 0 /\ ticks = 0

PumpStep == OnValue \/ OnOverflow \/ OnDone \/ OnError \/ FailStream
StreamNext == Arrive \/ IdleFires \/ PumpStep \/ PingTick \/ UsageTick \/ ClientCancels

StreamSpec == StreamInit /\ [][StreamNext]_streamVars

\* A step of the pump as pc and read show it: no other action moves them so.
PumpMoves ==
    \/ pc = "reading" /\ read = "value" /\ read' = "pending" /\ pc' = pc
    \/ pc = "reading" /\ read = "value" /\ read' = "error" /\ pc' = "cancelling"
    \/ pc = "reading" /\ read \in {"done", "error"} /\ read' = read /\ pc' \in {"cancelling", "over"}
    \/ pc = "cancelling" /\ read' = read /\ pc' = "over"

\* The main thread goes on and its timers fire; nothing is asked of the upstream
\* or of the client.
FairStreamSpec == StreamSpec /\ WF_streamVars(IdleFires) /\ WF_<<pc, read>>(PumpMoves)

------------------------------------------------------------------------------
(* Properties.                                                             *)

\* What the client is sent is a Messages stream: message_start first, indices in
\* order, deltas and stops of open blocks only, thinking before text before tools
\* on the OpenAI path, every block stopped before message_delta, one terminal
\* event and nothing after it, whatever order the upstream, the timers, the idle
\* bound and the client act in.
WellFormed == s.sent.legal

\* A message is finished only when the upstream came to its own end: a stall, a
\* failure or a cancelled read is never passed off as a complete answer.
FinishedOnlyAtEnd == s.sent.end = "stop" /\ client = "here" => upstream = "ended"

\* A finished message holds every fragment of tool arguments that was received,
\* those of a call that was named late or never included.
ArgumentsDelivered == s.sent.end = "stop" /\ path # "native" => s.sent.args = s.args

\* What a client is told is finished is the whole answer.
FinishedWhole == FinishedOnlyAtEnd /\ ArgumentsDelivered

\* A stream that fails tells the client the output used until then before it tells
\* the error.
UsageTold ==
    [][s'.sent.end # s.sent.end /\ s'.sent.end = "error" /\ path # "native"
          => s'.sent.usage = s'.running]_streamVars

\* Every stream comes to an end, a stalled one included.
StreamEnds == <>(pc = "over" /\ s.closed)
==============================================================================
