-------------------------------- MODULE Capture --------------------------------
(***************************************************************************)
(* Response capture (logging/capture.ts): each turn's answer goes to its    *)
(* client unchanged while a detached task accumulates a copy of it and       *)
(* records the turn.  All captures draw on one budget of bytes.  A streamed  *)
(* answer is tee'd: the client's branch and the log's branch are read at     *)
(* their own pace, and the log's branch follows the client's.                *)
(***************************************************************************)
EXTENDS Integers, Sequences, FiniteSetsExt, Functions

CONSTANTS
    Streamed,  \* the turns that are answered by a stream
    Json,      \* the turns that are answered by a JSON body
    Limits,    \* the logging limits a store may carry: [maxTurn, budget]
    Bodies,    \* the content of JSON answers: sequences of block sizes
    Sizes,     \* sizes of a piece of text
    MaxChunks  \* bound of the model: chunks of a streamed answer

ASSUME CaptureAssumption ==
    /\ IsFiniteSet(Streamed) /\ IsFiniteSet(Json)
    /\ Limits \subseteq [maxTurn : Nat \ {0}, budget : Nat \ {0}]
    /\ Bodies \subseteq Seq(Nat) /\ Sizes \subseteq Nat /\ MaxChunks \in Nat

Turn == Streamed \cup Json

VARIABLES
    limits,    \* the limits in force
    bytes,     \* CaptureBudget.bytes
    meter,     \* BodyCapture of each turn: [state, reserved]
    task,      \* the detached task: "none", "hashing", "reading", "recording", "over"
    log,       \* the log's branch: [queue, cancelled, dropped]; dropped is a history
    acc,       \* the accumulator: [kept, usage, overflowed]
    upstream,  \* "flowing", "ended", "failed", "cancelled"
    client,    \* the client's branch: "reading", "ended" or "gone"
    early,     \* earlyTerminated
    sent,      \* what the upstream has sent: [chunks, text, usage, endless]
    record     \* the turn as recorded, or NoRecord

captureVars == <<limits, bytes, meter, task, log, acc, upstream, client, early, sent, record>>

\* A chunk is one event: text of a size, the closing usage, or a line that never ends.
Text == [type : {"text"}, size : Sizes]
UsageEvent == [type |-> "usage"]
Endless == [type |-> "endless"]

NoRecord == [state |-> "none"]

------------------------------------------------------------------------------
(* CaptureBudget and BodyCapture.  A meter is seen with the shared bytes:    *)
(* [bytes, state, reserved].                                                *)

\* configure(), called by budgetFor() at the start of every capture.
Configure(l) == limits' = l

\* reserve()
Fits(b, n, l) == b.bytes + n <= l.budget

\* release(): saturates.
Release(b) == [b EXCEPT !.bytes = IF @ > b.reserved THEN @ - b.reserved ELSE 0, !.reserved = 0]

\* truncate()
Truncate(b) == IF b.state = "full" THEN [b EXCEPT !.state = "truncated"] ELSE b

\* markShed().  Mutant: the reservation is kept.
ShedKeepsBytes(b) == [b EXCEPT !.state = "shed", !.reserved = 0]
MarkShed(b) == Release([b EXCEPT !.state = "shed"])

\* The constructor of BodyCapture: a turn that starts on a spent budget is shed.
NewMeter(l) ==
    [bytes |-> bytes, reserved |-> 0, state |-> IF l.budget - bytes <= 0 THEN "shed" ELSE "full"]

\* accept(): the meter after it.
Offer(b, n, l) ==
    IF b.state # "full" THEN b
    ELSE IF b.reserved + n > l.maxTurn THEN Truncate(b)
    ELSE IF ~Fits(b, n, l) THEN MarkShed(b)
    ELSE [b EXCEPT !.bytes = @ + n, !.reserved = @ + n]
\* accept(): its answer.
Accepts(b, n, l) == b.state = "full" /\ b.reserved + n <= l.maxTurn /\ Fits(b, n, l)

Metered(t) == [bytes |-> bytes, state |-> meter[t].state, reserved |-> meter[t].reserved]
SetMeter(t, b) ==
    /\ bytes' = b.bytes
    /\ meter' = [meter EXCEPT ![t] = [state |-> b.state, reserved |-> b.reserved]]

\* planContentCapture(), arrayBytes(), clipBlocks(): a JSON array costs its blocks,
\* the commas between them and two brackets; blocks are kept whole, from the front.
ArrayBytes(sizes) == 2 + SumFunction(sizes) + (IF sizes = <<>> THEN 0 ELSE Len(sizes) - 1)
Clipped(sizes, maxBytes) ==
    Max({0} \cup {n \in DOMAIN sizes : 2 + n + SumFunction(SubSeq(sizes, 1, n)) <= maxBytes})
PlanContentCapture(sizes, maxBytes) ==
    IF ArrayBytes(sizes) <= maxBytes
    THEN [stored |-> sizes, truncated |-> FALSE]
    ELSE [stored |-> SubSeq(sizes, 1, Clipped(sizes, maxBytes)), truncated |-> TRUE]

------------------------------------------------------------------------------
(* captureTurn().                                                          *)

\* A streamed answer: the branch is tee'd and the task runs to its first await,
\* recordSystemPrompt().
BeginStream(t) ==
    /\ t \in Streamed /\ task[t] = "none"
    /\ \E l \in Limits :
          /\ Configure(l)
          /\ SetMeter(t, NewMeter(l))
    /\ task' = [task EXCEPT ![t] = "hashing"]
    /\ upstream' = [upstream EXCEPT ![t] = "flowing"]
    /\ client' = [client EXCEPT ![t] = "reading"]
    /\ UNCHANGED <<log, acc, early, sent, record>>

\* A JSON answer: once the prompt and the body are read, its content is planned,
\* charged and handed to the store, in one go.
CaptureBody(t) ==
    /\ t \in Json /\ task[t] = "none"
    /\ \E l \in Limits, sizes \in Bodies :
          LET new == NewMeter(l)
              plan == PlanContentCapture(sizes, l.maxTurn)
              cost == ArrayBytes(plan.stored)
              offered == IF new.state = "shed" THEN new ELSE Offer(new, cost, l)
              kept == new.state # "shed" /\ Accepts(new, cost, l)
              final == IF kept /\ plan.truncated THEN Truncate(offered) ELSE offered
          IN /\ Configure(l)
             /\ SetMeter(t, final)
             /\ record' = [record EXCEPT ![t] =
                   [state |-> final.state, text |-> IF kept THEN SumFunction(plan.stored) ELSE 0,
                    usage |-> TRUE, of |-> SumFunction(sizes)]]
    /\ task' = [task EXCEPT ![t] = "recording"]
    /\ UNCHANGED <<log, acc, upstream, client, early, sent>>

------------------------------------------------------------------------------
(* The upstream and the client's branch.                                    *)

Listening(t) == task[t] \in {"hashing", "reading", "recording"}

\* A chunk goes to both branches.  (One that the log's branch no longer takes is
\* the client's alone and left out.)
Chunk(t) ==
    /\ upstream[t] = "flowing" /\ sent[t].chunks < MaxChunks
    /\ Listening(t) /\ ~log[t].cancelled
    /\ \E c \in Text \cup {UsageEvent, Endless} :
          /\ log' = [log EXCEPT ![t].queue = Append(@, c)]
          /\ sent' = [sent EXCEPT ![t].chunks = @ + 1,
                                  ![t].text = IF c.type = "text" THEN @ + c.size ELSE @,
                                  ![t].usage = @ \/ c = UsageEvent,
                                  ![t].endless = @ \/ c = Endless]
    /\ UNCHANGED <<limits, bytes, meter, task, acc, upstream, client, early, record>>

UpstreamEnds(t) ==
    /\ upstream[t] = "flowing"
    /\ upstream' = [upstream EXCEPT ![t] = "ended"]
    /\ UNCHANGED <<limits, bytes, meter, task, log, acc, client, early, sent, record>>

\* reader.cancel() on the log's branch: what it has not read is dropped.  Once the
\* client's branch is cancelled too the upstream is.
CancelLog(t) ==
    log' = [log EXCEPT ![t] =
        [queue |-> <<>>, cancelled |-> TRUE, dropped |-> @.dropped \o @.queue]]
ReleaseUpstream(t) ==
    upstream' = IF upstream[t] = "flowing" /\ client'[t] = "gone" /\ log'[t].cancelled
                THEN [upstream EXCEPT ![t] = "cancelled"] ELSE upstream
\* A failure reaches both branches at once, before what they have not read.
UpstreamFails(t) ==
    /\ upstream[t] = "flowing"
    /\ upstream' = [upstream EXCEPT ![t] = "failed"]
    /\ client' = [client EXCEPT ![t] = IF @ = "reading" THEN "ended" ELSE @]
    /\ log' = [log EXCEPT ![t].queue = <<>>]
    /\ UNCHANGED <<limits, bytes, meter, task, acc, early, sent, record>>

\* The client's branch came to its end: clientDone, and the log's branch follows.
EndFollowed(t) == IF Listening(t) THEN CancelLog(t) ELSE UNCHANGED log
ClientEnds(t) ==
    /\ client[t] = "reading" /\ upstream[t] = "ended"
    /\ client' = [client EXCEPT ![t] = "ended"]
    /\ EndFollowed(t)
    /\ UNCHANGED <<limits, bytes, meter, task, acc, upstream, early, sent, record>>

\* The client disconnects: clientCancelled, and clientDone.
ClientGoes(t) ==
    /\ client[t] = "reading" /\ upstream[t] # "none"
    /\ client' = [client EXCEPT ![t] = "gone"]
    /\ EndFollowed(t) /\ ReleaseUpstream(t)
    /\ UNCHANGED <<limits, bytes, meter, task, acc, early, sent, record>>

\* The capture timeout, or the abort of the request's signal, until the task is over.
\* Mutants: the timer is cleared with the first read; the flag is forgotten.
WhileHashing(t) == task[t] = "hashing"
Cuttable(t) == Listening(t)
CutUnmarked(t) == UNCHANGED early
CutMarked(t) == early' = [early EXCEPT ![t] = TRUE]
Cut(t) ==
    /\ Cuttable(t) /\ upstream[t] # "none" /\ ~early[t]
    /\ UNCHANGED <<limits, bytes, meter, task, acc, client, sent, record>>
    /\ CutMarked(t) /\ CancelLog(t) /\ ReleaseUpstream(t)

------------------------------------------------------------------------------
(* The detached task of a streamed answer.                                  *)

\* dispose(), in the finally block.
Dispose(t) == SetMeter(t, Release(Metered(t)))

Hashed(t) ==
    /\ task[t] = "hashing"
    /\ task' = [task EXCEPT ![t] = "reading"]
    /\ UNCHANGED <<limits, bytes, meter, log, acc, upstream, client, early, sent, record>>

\* push(), handleEvent(): text is kept while the meter takes it, usage always, and
\* nothing after a line that outgrew the buffer.
PushUsage(t, c) == acc' = [acc EXCEPT ![t].usage = @ \/ c = UsageEvent]
Push(t, c) ==
    CASE acc[t].overflowed -> UNCHANGED <<acc, bytes, meter>>
      [] ~acc[t].overflowed /\ c = Endless ->
            /\ SetMeter(t, Truncate(Metered(t)))
            /\ acc' = [acc EXCEPT ![t].overflowed = TRUE]
      [] ~acc[t].overflowed /\ c = UsageEvent ->
            /\ PushUsage(t, c)
            /\ UNCHANGED <<bytes, meter>>
      [] ~acc[t].overflowed /\ c.type = "text" ->
            /\ SetMeter(t, Offer(Metered(t), c.size, limits))
            /\ acc' = IF Accepts(Metered(t), c.size, limits)
                      THEN [acc EXCEPT ![t].kept = @ + c.size] ELSE acc

LogReads(t) ==
    /\ task[t] = "reading" /\ log[t].queue # <<>> /\ upstream[t] # "failed"
    /\ Push(t, Head(log[t].queue))
    /\ log' = [log EXCEPT ![t].queue = Tail(@)]
    /\ UNCHANGED <<limits, task, upstream, client, early, sent, record>>

\* The branch is done: the turn is built and handed to the store.  content() of a
\* shed turn is empty; a cut turn that was full so far is truncated.
BodyState(t) ==
    IF meter[t].state = "full" /\ (early[t] \/ client[t] = "gone") THEN "truncated"
    ELSE meter[t].state
LogDone(t) ==
    /\ task[t] = "reading" /\ log[t].queue = <<>>
    /\ log[t].cancelled \/ upstream[t] \in {"ended", "cancelled"}
    /\ record' = [record EXCEPT ![t] =
          [state |-> BodyState(t), text |-> IF meter[t].state = "shed" THEN 0 ELSE acc[t].kept,
           usage |-> acc[t].usage, of |-> sent[t].text]]
    /\ task' = [task EXCEPT ![t] = "recording"]
    /\ UNCHANGED <<limits, bytes, meter, log, acc, upstream, client, early, sent>>

\* A read of a failed upstream, or a failed recordSystemPrompt(): no turn.
TaskFails(t) ==
    /\ \/ task[t] = "reading" /\ upstream[t] = "failed" /\ ~log[t].cancelled
       \/ task[t] = "hashing"
    /\ UNCHANGED <<limits, acc, client, early, sent, record>>
    /\ CancelLog(t) /\ ReleaseUpstream(t)
    /\ Dispose(t)
    /\ task' = [task EXCEPT ![t] = "over"]

\* recordTurn() returned, or failed.
Recorded(t) ==
    /\ task[t] = "recording"
    /\ Dispose(t)
    /\ task' = [task EXCEPT ![t] = "over"]
    /\ UNCHANGED <<limits, log, acc, upstream, client, early, sent, record>>

------------------------------------------------------------------------------
CaptureInit ==
    /\ limits \in Limits /\ bytes = 0
    /\ meter = [t \in Turn |-> [state |-> "full", reserved |-> 0]]
    /\ task = [t \in Turn |-> "none"]
    /\ log = [t \in Turn |-> [queue |-> <<>>, cancelled |-> FALSE, dropped |-> <<>>]]
    /\ acc = [t \in Turn |-> [kept |-> 0, usage |-> FALSE, overflowed |-> FALSE]]
    /\ upstream = [t \in Turn |-> "none"]
    /\ client = [t \in Turn |-> "none"]
    /\ early = [t \in Turn |-> FALSE]
    /\ sent = [t \in Turn |-> [chunks |-> 0, text |-> 0, usage |-> FALSE, endless |-> FALSE]]
    /\ record = [t \in Turn |-> NoRecord]

Task(t) == Hashed(t) \/ LogReads(t) \/ LogDone(t) \/ TaskFails(t) \/ Recorded(t)
CaptureNext == \E t \in Turn :
    \/ BeginStream(t) \/ CaptureBody(t)
    \/ Chunk(t) \/ UpstreamEnds(t) \/ UpstreamFails(t)
    \/ ClientEnds(t) \/ ClientGoes(t) \/ Cut(t)
    \/ Task(t)

CaptureSpec == CaptureInit /\ [][CaptureNext]_captureVars

\* The task goes on and its timeout fires; nothing is asked of upstream or client.
FairCaptureSpec ==
    CaptureSpec /\ \A t \in Turn : WF_captureVars(Task(t)) /\ WF_captureVars(Cut(t))

------------------------------------------------------------------------------
(* Properties.                                                             *)

\* The bytes in flight are those the running captures hold, so that a capture gives
\* back what it took however it ends, and the budget is free once all have ended.
BudgetExact ==
    /\ bytes = SumFunction([t \in Turn |-> meter[t].reserved])
    /\ \A t \in Turn : task[t] = "over" => meter[t].reserved = 0

TextSize(q) == SumFunction([i \in DOMAIN q |-> IF q[i] \in Text THEN q[i].size ELSE 0])

\* What is recorded is what its state says: a shed turn has no body.  A full one
\* lacks exactly the text that its branch had not read when it was cancelled, and
\* then because the client had come to the end of the stream: a cut, a failure or
\* a client that left is never recorded as full.  The usage of a stream is recorded
\* whatever became of the body, or was dropped in that same way.
RecordHonest == \A t \in Turn : record[t] # NoRecord =>
    /\ record[t].state = "shed" => record[t].text = 0
    /\ record[t].state = "full" =>
          /\ record[t].text + TextSize(log[t].dropped) = record[t].of
          /\ log[t].dropped # <<>> => client[t] = "ended" /\ upstream[t] = "ended"
    /\ upstream[t] \notin {"none", "failed"} /\ ~sent[t].endless =>
          (sent[t].usage <=> record[t].usage \/ UsageEvent \in Range(log[t].dropped))

\* Every capture comes to an end, that of a hung upstream included.
CapturesEnd == \A t \in Turn : task[t] # "none" ~> task[t] = "over"
==============================================================================
