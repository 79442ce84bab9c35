------------------------------ MODULE TurnWriter ------------------------------
(***************************************************************************)
(* The production turn writer: WorkerWriter of src/src/logging/writer.ts   *)
(* on the main thread, the worker of src/src/logging/writer-worker.ts and   *)
(* the WriterCore it runs.                                                 *)
(*                                                                         *)
(* The two threads exchange messages over FIFO channels.  A main-thread    *)
(* handler runs to its end before the next event, the promise              *)
(* continuations it resolves run right after it; the worker runs           *)
(* concurrently and may die at any moment, taking with it what it has      *)
(* staged but not committed.  Job ids grow, so a queue of jobs is a set of *)
(* ids whose head is its least member.                                     *)
(*                                                                         *)
(* The in-process fallback (InlineWriter) of a host that cannot start      *)
(* workers at boot is not modelled.                                        *)
(***************************************************************************)
EXTENDS Integers, FiniteSets, Sequences

CONSTANTS
    MaxJobs,        \* bound of the model: jobs accepted
    KindsOf,        \* the kinds each job may be of
    Caller,         \* activities that call flush(), close(), pruneBodies()
    CallsOf,        \* the calls each of them may make
    MaxOutstanding, \* DEFAULT_MAX_OUTSTANDING
    MaxBatch,       \* DEFAULT_MAX_BATCH_TURNS
    MaxQueue,       \* DEFAULT_MAX_QUEUE_DEPTH
    Budget,         \* inFlightBudgetBytes, in bodies
    MaxPasses,      \* passes of the loop in flush()
    MaxCrashes,     \* bound of the model: worker deaths
    Faults          \* what else can go wrong, a subset of Fault

\* A turn with a body and a prompt surface, a turn whose body the capture
\* already shed, a prompt sighting.
Kind == {"turn", "bare", "prompt"}
Call == {"flush", "close", "prune"}
\* The core cannot open the index at init; apply() throws while it looks up a
\* prompt; a body file cannot be written; a replacement worker cannot start.
Fault == {"init", "apply", "body", "spawn"}

Job == 1..MaxJobs

ASSUME WriterAssumption ==
    /\ MaxJobs \in Nat /\ MaxCrashes \in Nat
    /\ MaxOutstanding \in Nat \ {0} /\ MaxBatch \in Nat \ {0}
    /\ MaxQueue \in Nat /\ Budget \in Nat /\ MaxPasses \in Nat \ {0}
    /\ KindsOf \in [Job -> SUBSET Kind] /\ CallsOf \in [Caller -> SUBSET Call] /\ Faults \subseteq Fault

VARIABLES
    \* WorkerWriter
    state,         \* "open", "closing", "closed"
    ready,         \* the worker has said it is ready
    kind,          \* what each accepted job is, "none" for an id not yet used
    body,          \* its envelope: body "held", "sent" to the worker, or "none"
    queued,        \* accepted, not yet posted
    inflight,      \* posted, awaiting "written"
    uncommitted,   \* accepted, not yet reported committed
    inFlightBytes, \* the byte budget in use
    requestSeq,    \* next id of a control request
    main,          \* handler in progress: "loop" (none), "repost", "pump"
    toRepost,      \* callers whose request the handler still has to repost
    respawn,       \* the respawn timer is pending
    \* its callers
    call,          \* the call each makes, "none" before
    cpc,           \* "idle", "draining", "drained", "asked", "answered", "returned"
    passes,        \* passes of flush() done
    asked,         \* the control request sent last
    before,        \* history: the jobs accepted when the call was made
    \* the worker
    worker,        \* "none", "booting", "up", "coreless", "dead"
    inbox,         \* messages to the worker
    outbox,        \* messages to the main thread
    staged,        \* jobs of the batch
    saved,         \* those of them whose body file is written
    \* the disk
    durable,       \* jobs whose row is in the index, or in its spool
    full,          \* rows that have their body
    \* bounds and history
    crashes,       \* worker deaths so far
    faulty,        \* a fault other than a death has happened
    owed           \* jobs whose body the writer took and must deliver

mainVars == <<state, ready, kind, body, queued, inflight, uncommitted,
              inFlightBytes, requestSeq, main, toRepost, respawn>>
callVars == <<call, cpc, passes, asked, before>>
diskVars == <<durable, full>>
workerVars == <<worker, inbox, outbox, staged, saved, durable, full>>
historyVars == <<crashes, faulty, owed>>
writerVars == <<mainVars, callVars, workerVars, historyVars>>

accepted == {j \in Job : kind[j] # "none"}
IsTurn(j) == kind[j] \in {"turn", "bare"}

JobMessage == [type : {"job"}, id : Job, body : BOOLEAN]
ControlRequest == [type : Call, id : Nat, body : {FALSE}]
WriterRequest == JobMessage \cup ControlRequest
WriterResponse ==
    [type : {"ready", "written", "committed", "flushed", "pruned", "closed", "error"},
     id : Nat, ids : SUBSET Job]

WriterTypeOK ==
    /\ state \in {"open", "closing", "closed"}
    /\ ready \in BOOLEAN /\ respawn \in BOOLEAN /\ faulty \in BOOLEAN
    /\ kind \in [Job -> Kind \cup {"none"}]
    /\ body \in [Job -> {"none", "held", "sent"}]
    /\ queued \subseteq Job /\ inflight \subseteq Job /\ uncommitted \subseteq Job
    /\ inFlightBytes \in Nat /\ requestSeq \in Nat /\ crashes \in Nat
    /\ main \in {"loop", "repost", "pump"}
    /\ toRepost \subseteq Caller
    /\ call \in [Caller -> Call \cup {"none"}]
    /\ cpc \in [Caller -> {"idle", "draining", "drained", "asked", "answered", "returned"}]
    /\ passes \in [Caller -> Nat]
    /\ asked \in [Caller -> ControlRequest]
    /\ before \in [Caller -> SUBSET Job]
    /\ worker \in {"none", "booting", "up", "coreless", "dead"}
    /\ inbox \in Seq(WriterRequest) /\ outbox \in Seq(WriterResponse)
    /\ staged \subseteq Job /\ saved \subseteq staged
    /\ durable \subseteq Job /\ full \subseteq durable /\ owed \subseteq Job

------------------------------------------------------------------------------
(* Helpers of the main thread.                                             *)

Request(type, id) == [type |-> type, id |-> id, body |-> FALSE]

\* postMessage: a dead worker's messages go nowhere.
Post(msg) == inbox' = IF worker = "dead" THEN inbox ELSE Append(inbox, msg)

\* No handler and no promise continuation is running.
MainFree == main = "loop" /\ \A c \in Caller : cpc[c] \notin {"drained", "answered"}

\* #checkDrained, given the new queue and window.
CheckDrained(pc, q, w) ==
    [c \in Caller |-> IF pc[c] = "draining" /\ q = {} /\ w = {} THEN "drained" ELSE pc[c]]

\* #pump() begins, or goes on, with queue q and window w.
Pumping(pc, q, w) ==
    IF q # {} /\ Cardinality(w) < MaxOutstanding
    THEN main' = "pump" /\ cpc' = pc
    ELSE main' = "loop" /\ cpc' = CheckDrained(pc, q, w)

Bytes(jobs) == Cardinality({j \in jobs : body[j] # "none"})

------------------------------------------------------------------------------
(* The main thread: accepting jobs and posting them.                       *)

\* write() takes a job until close() is called; mutant: until it has ended.
AcceptingUntilClosed == state # "closed"
Accepting == state = "open"

\* write() and writePrompt(): a body is shed when the budget or the queue is
\* full, the job itself is always taken.
Write(j, k) ==
    LET shed == inFlightBytes >= Budget \/ Cardinality(uncommitted) >= MaxQueue
        held == k = "turn" /\ ~shed
    IN /\ MainFree /\ Accepting
       /\ kind[j] = "none" /\ \A i \in Job : i < j => kind[i] # "none"
       /\ kind' = [kind EXCEPT ![j] = k]
       /\ body' = [body EXCEPT ![j] = IF held THEN "held" ELSE "none"]
       /\ owed' = IF held THEN owed \cup {j} ELSE owed
       /\ inFlightBytes' = IF held THEN inFlightBytes + 1 ELSE inFlightBytes
       /\ queued' = queued \cup {j}
       /\ uncommitted' = uncommitted \cup {j}
       /\ IF ready THEN Pumping(cpc, queued', inflight) ELSE UNCHANGED <<main, cpc>>
       /\ UNCHANGED <<state, ready, inflight, requestSeq, toRepost, respawn, call, passes,
                      asked, before, workerVars, crashes, faulty>>

\* One turn of the loop of #pump(): the oldest queued job goes to the worker and
\* its body goes with it.
Pump ==
    /\ main = "pump"
    /\ \E j \in queued :
          /\ \A i \in queued : j <= i
          /\ queued' = queued \ {j}
          /\ inflight' = inflight \cup {j}
          /\ Post([type |-> "job", id |-> j, body |-> body[j] = "held"])
          /\ body' = [body EXCEPT ![j] = IF @ = "held" THEN "sent" ELSE @]
    /\ Pumping(cpc, queued', inflight')
    /\ UNCHANGED <<state, ready, kind, uncommitted, inFlightBytes, requestSeq, toRepost,
                   respawn, call, passes, asked, before, worker, outbox, staged, saved,
                   diskVars, historyVars>>

------------------------------------------------------------------------------
(* flush(), close() and pruneBodies().                                     *)

\* #request(): the caller now waits for the worker's reply.
Ask(c, type) ==
    /\ asked' = [asked EXCEPT ![c] = Request(type, requestSeq)]
    /\ requestSeq' = requestSeq + 1
    /\ Post(Request(type, requestSeq))
    /\ cpc' = [cpc EXCEPT ![c] = "asked"]

\* #drainApplied(): wait until nothing is queued or in flight.
Drain(c) ==
    cpc' = [cpc EXCEPT ![c] = IF queued = {} /\ inflight = {} THEN "drained" ELSE "draining"]

Return(c) == cpc' = [cpc EXCEPT ![c] = "returned"]

Reachable == ready /\ worker # "none"

Invoke(c, what) ==
    /\ MainFree /\ cpc[c] = "idle"
    /\ call' = [call EXCEPT ![c] = what]
    /\ before' = [before EXCEPT ![c] = accepted]
    /\ \/ /\ \/ what = "flush" /\ state # "closed"
             \/ what = "close" /\ state = "open"
          /\ state' = IF what = "close" THEN "closing" ELSE state
          /\ Drain(c)
          /\ UNCHANGED <<asked, requestSeq, inbox>>
       \/ /\ what = "prune" /\ state = "open" /\ Reachable
          /\ Ask(c, "prune")
          /\ UNCHANGED state
       \/ /\ \/ what = "flush" /\ state = "closed"
             \/ what = "close" /\ state # "open"
             \/ what = "prune" /\ ~(state = "open" /\ Reachable)
          /\ Return(c)
          /\ UNCHANGED <<state, asked, requestSeq, inbox>>
    /\ UNCHANGED <<ready, kind, body, queued, inflight, uncommitted, inFlightBytes, main,
                   toRepost, respawn, passes, worker, outbox, staged, saved, diskVars,
                   historyVars>>

\* #disposeWorker(): terminated, whatever it was doing.
DisposeWorker ==
    /\ worker' = "none"
    /\ inbox' = <<>> /\ outbox' = <<>>
    /\ staged' = {} /\ saved' = {}

\* The finally block of close(), after which c has returned; #releaseWaiters
\* fails every request that is still waiting.
CloseDone(c) ==
    /\ state' = "closed"
    /\ ready' = FALSE
    /\ respawn' = FALSE
    /\ DisposeWorker
    /\ LET released == [d \in Caller |-> IF d = c THEN "returned"
                                        ELSE IF cpc[d] = "asked" THEN "answered"
                                        ELSE cpc[d]]
       IN cpc' = CheckDrained(released, queued, inflight)
    /\ UNCHANGED <<asked, requestSeq, passes>>

\* flush() is over; close() goes on to close the worker.
FlushDone(c) ==
    \/ /\ call[c] = "flush"
       /\ Return(c)
       /\ UNCHANGED <<state, ready, respawn, asked, requestSeq, passes, worker, inbox,
                      outbox, staged, saved>>
    \/ /\ call[c] = "close" /\ Reachable
       /\ Ask(c, "close")
       /\ UNCHANGED <<state, ready, respawn, passes, worker, outbox, staged, saved>>
    \/ /\ call[c] = "close" /\ ~Reachable
       /\ CloseDone(c)

\* The continuation after #drainApplied() in flush().
AfterDrain(c) ==
    /\ cpc[c] = "drained"
    /\ \/ /\ uncommitted = {} \/ ~Reachable
          /\ FlushDone(c)
       \/ /\ uncommitted # {} /\ Reachable
          /\ Ask(c, "flush")
          /\ UNCHANGED <<state, ready, respawn, passes, worker, outbox, staged, saved>>

\* flush() goes round again after a reply; mutant: it never does.
OnePass(c) == FALSE
AnotherPass(c) == passes[c] + 1 < MaxPasses

\* The continuation after a reply to #request().
AfterReply(c) ==
    /\ cpc[c] = "answered"
    /\ \/ /\ asked[c].type = "flush" /\ AnotherPass(c)
          /\ passes' = [passes EXCEPT ![c] = @ + 1]
          /\ Drain(c)
          /\ UNCHANGED <<state, ready, respawn, asked, requestSeq, worker, inbox, outbox,
                         staged, saved>>
       \/ /\ asked[c].type = "flush" /\ ~AnotherPass(c)
          /\ FlushDone(c)
       \/ /\ asked[c].type = "close"
          /\ CloseDone(c)
       \/ /\ asked[c].type = "prune"
          /\ Return(c)
          /\ UNCHANGED <<state, ready, respawn, asked, requestSeq, passes, worker, inbox,
                         outbox, staged, saved>>

Resume(c) ==
    /\ main = "loop"
    /\ AfterDrain(c) \/ AfterReply(c)
    /\ UNCHANGED <<kind, body, queued, inflight, uncommitted, inFlightBytes, main, toRepost,
                   call, before, diskVars, historyVars>>

------------------------------------------------------------------------------
(* The main thread: messages of the worker, its death and its replacement. *)

\* The next message of the worker, delivered.
Receive(type) ==
    /\ MainFree /\ outbox # <<>> /\ Head(outbox).type = type
    /\ outbox' = Tail(outbox)

\* Whose control request has no answer yet; mutant: the requests of a dead worker
\* are dropped.
NoneWaiting == {}
Waiting == {c \in Caller : cpc[c] = "asked"}

\* "ready": what the last worker left unanswered is posted again, then the queue.
OnReady ==
    /\ Receive("ready")
    /\ ready' = TRUE
    /\ IF Waiting # {}
       THEN main' = "repost" /\ toRepost' = Waiting /\ cpc' = cpc
       ELSE toRepost' = {} /\ Pumping(cpc, queued, inflight)
    /\ UNCHANGED <<state, kind, body, queued, inflight, uncommitted, inFlightBytes,
                   requestSeq, respawn, call, passes, asked, before, worker, inbox,
                   staged, saved, diskVars, historyVars>>

\* One turn of the loop of #repostPending(), oldest request first.
Repost ==
    /\ main = "repost"
    /\ \E c \in toRepost :
          /\ \A d \in toRepost : asked[c].id <= asked[d].id
          /\ toRepost' = toRepost \ {c}
          /\ Post(asked[c])
    /\ IF toRepost' # {} THEN UNCHANGED <<main, cpc>> ELSE Pumping(cpc, queued, inflight)
    /\ UNCHANGED <<state, ready, kind, body, queued, inflight, uncommitted, inFlightBytes,
                   requestSeq, respawn, call, passes, asked, before, worker, outbox,
                   staged, saved, diskVars, historyVars>>

\* "written": the window slot is free, the job still has to be committed; mutant:
\* the job is retired.
OnWrittenRetires ==
    /\ Receive("written")
    /\ inflight' = inflight \ {Head(outbox).id}
    /\ uncommitted' = uncommitted \ {Head(outbox).id}
    /\ inFlightBytes' = inFlightBytes - Bytes({Head(outbox).id})
    /\ body' = [body EXCEPT ![Head(outbox).id] = "none"]
    /\ Pumping(cpc, queued, inflight')
    /\ UNCHANGED <<state, ready, kind, queued, requestSeq, toRepost, respawn, call, passes,
                   asked, before, worker, inbox, staged, saved, diskVars, historyVars>>
OnWritten ==
    /\ Receive("written")
    /\ inflight' = inflight \ {Head(outbox).id}
    /\ Pumping(cpc, queued, inflight')
    /\ UNCHANGED <<state, ready, kind, body, queued, uncommitted, inFlightBytes, requestSeq,
                   toRepost, respawn, call, passes, asked, before, worker, inbox, staged,
                   saved, diskVars, historyVars>>

\* "committed": #retireCommitted.
OnCommitted ==
    LET retired == Head(outbox).ids \cap uncommitted
    IN /\ Receive("committed")
       /\ uncommitted' = uncommitted \ retired
       /\ inFlightBytes' = IF inFlightBytes >= Bytes(retired)
                           THEN inFlightBytes - Bytes(retired) ELSE 0
       /\ body' = [j \in Job |-> IF j \in retired THEN "none" ELSE body[j]]
       /\ UNCHANGED <<state, ready, kind, queued, inflight, requestSeq, main, toRepost,
                      respawn, callVars, worker, inbox, staged, saved, diskVars,
                      historyVars>>

\* A reply, or an error that carries an id: whoever waits for a request with
\* that id has its answer.  Jobs and requests draw their ids from two counters,
\* so the error of a job can answer a request.
OnReply ==
    /\ \E type \in {"flushed", "pruned", "closed", "error"} : Receive(type)
    /\ cpc' = [c \in Caller |-> IF cpc[c] = "asked" /\ asked[c].id = Head(outbox).id
                               THEN "answered" ELSE cpc[c]]
    /\ UNCHANGED <<mainVars, call, passes, asked, before, worker, inbox, staged, saved,
                   diskVars, historyVars>>

\* What #onCrash() queues again, whose bodies it takes for lost, and the bytes it
\* still counts; mutant: the bytes are not counted again.
Survivors == uncommitted
BodiesLost == {j \in uncommitted : body[j] = "sent"}
BytesBeforeCrash == inFlightBytes
BytesAfterCrash == Bytes(Survivors \ BodiesLost)

\* #onCrash(): every uncommitted job is queued again, without its body if that
\* had been sent; messages of the dead worker are no longer listened to.
OnCrash ==
    LET sent == {j \in uncommitted : body[j] = "sent"}
    IN /\ MainFree /\ worker = "dead" /\ state # "closed"
       /\ ready' = FALSE
       /\ body' = [j \in Job |-> IF j \in BodiesLost THEN "none" ELSE body[j]]
       /\ inflight' = {}
       /\ queued' = Survivors
       /\ uncommitted' = Survivors
       /\ inFlightBytes' = BytesAfterCrash
       /\ owed' = owed \ (sent \ full)
       /\ DisposeWorker
       /\ respawn' = TRUE
       /\ UNCHANGED <<state, kind, requestSeq, main, toRepost, callVars, diskVars,
                      crashes, faulty>>

\* The respawn timer fires.
Respawn ==
    /\ MainFree /\ respawn
    /\ respawn' = FALSE
    /\ \/ worker' = "booting" /\ UNCHANGED faulty
       \/ /\ "spawn" \in Faults /\ uncommitted # {}
          /\ faulty' = TRUE
          /\ UNCHANGED worker
    /\ UNCHANGED <<state, ready, kind, body, queued, inflight, uncommitted, inFlightBytes,
                   requestSeq, main, toRepost, callVars, inbox, outbox, staged, saved,
                   diskVars, crashes, owed>>

------------------------------------------------------------------------------
(* The worker and its WriterCore.                                          *)

Response(type, id, ids) == [type |-> type, id |-> id, ids |-> ids]

\* flushBatch(): the batch goes to the index (or its spool) in one transaction,
\* a row that is there already stays as it is, and the ids are reported.
FlushBatch(batch, bodies, out) ==
    /\ durable' = durable \cup batch
    /\ full' = full \cup (bodies \ durable)
    /\ staged' = {} /\ saved' = {}
    /\ outbox' = (IF batch = {} THEN outbox
                  ELSE Append(outbox, Response("committed", 0, batch))) \o out

\* The init message: the core opens the index, or the worker stays without one.
WorkerInit ==
    /\ worker = "booting"
    /\ \/ /\ worker' = "up"
          /\ outbox' = Append(outbox, Response("ready", 0, {}))
          /\ UNCHANGED faulty
       \/ /\ "init" \in Faults
          /\ worker' = "coreless"
          /\ outbox' = Append(outbox, Response("error", 0, {}))
          /\ faulty' = TRUE
    /\ UNCHANGED <<mainVars, callVars, inbox, staged, saved, diskVars, crashes, owed>>

\* The next message of the main thread, taken by a worker in this condition.
Take(condition, type) ==
    /\ worker = condition /\ inbox # <<>> /\ Head(inbox).type = type
    /\ inbox' = Tail(inbox)

\* apply() of a job: its body is written, its row staged, a full batch flushed.
Apply ==
    LET j == Head(inbox).id
        batch == staged \cup {j}
    IN /\ Take("up", "job")
       /\ \E bodies \in {saved \cup (IF Head(inbox).body THEN {j} ELSE {})} \cup
                         (IF "body" \in Faults THEN {saved} ELSE {}) :
             /\ owed' = IF Head(inbox).body /\ j \notin bodies THEN owed \ ({j} \ full)
                        ELSE owed
             /\ IF Cardinality({i \in batch : IsTurn(i)}) >= MaxBatch
                THEN FlushBatch(batch, bodies, <<Response("written", j, {})>>)
                ELSE /\ staged' = batch /\ saved' = bodies
                     /\ outbox' = Append(outbox, Response("written", j, {}))
                     /\ UNCHANGED diskVars
       /\ UNCHANGED <<mainVars, callVars, worker, crashes, faulty>>

\* apply() throws at the prompt lookup: a turn is staged by then, a sighting is
\* not, and the answer is an error in place of "written".
ApplyThrows ==
    LET j == Head(inbox).id
        turn == kind[j] = "turn"
    IN /\ "apply" \in Faults
       /\ Take("up", "job")
       /\ kind[j] # "bare"
       /\ staged' = IF turn THEN staged \cup {j} ELSE staged
       /\ saved' = IF turn /\ Head(inbox).body THEN saved \cup {j} ELSE saved
       /\ outbox' = Append(outbox, Response("error", j, {}))
       /\ faulty' = TRUE
       /\ UNCHANGED <<mainVars, callVars, worker, diskVars, crashes, owed>>

\* A job for a worker without a core: it was posted after the core was closed.
JobBeforeInit ==
    /\ Take("coreless", "job")
    /\ outbox' = Append(outbox, Response("error", Head(inbox).id, {}))
    /\ UNCHANGED <<mainVars, callVars, worker, staged, saved, diskVars, historyVars>>

WorkerFlush ==
    /\ Take("up", "flush")
    /\ FlushBatch(staged, saved, <<Response("flushed", Head(inbox).id, {})>>)
    /\ UNCHANGED <<mainVars, callVars, worker, historyVars>>

\* The retention sweep: rows old enough lose their body and its file.
WorkerPrune ==
    /\ Take("up", "prune")
    /\ \E old \in SUBSET full :
          /\ full' = full \ old
          /\ owed' = owed \ old
    /\ outbox' = Append(outbox, Response("pruned", Head(inbox).id, {}))
    /\ UNCHANGED <<mainVars, callVars, worker, staged, saved, durable, crashes, faulty>>

\* close(): the last batch is flushed and the core is gone.
WorkerClose ==
    /\ Take("up", "close")
    /\ FlushBatch(staged, saved, <<Response("closed", Head(inbox).id, {})>>)
    /\ worker' = "coreless"
    /\ UNCHANGED <<mainVars, callVars, historyVars>>

\* A control request for a worker without a core is answered all the same.
AnswerCoreless ==
    /\ \E type \in {"flush", "prune", "close"} :
          /\ Take("coreless", type)
          /\ outbox' = Append(outbox, Response(
                CASE type = "flush" -> "flushed"
                  [] type = "prune" -> "pruned"
                  [] type = "close" -> "closed", Head(inbox).id, {}))
    /\ UNCHANGED <<mainVars, callVars, worker, staged, saved, diskVars, historyVars>>

\* The flush timer of the core.
FlushTimer ==
    /\ worker = "up" /\ staged # {}
    /\ FlushBatch(staged, saved, <<>>)
    /\ UNCHANGED <<mainVars, callVars, worker, inbox, historyVars>>

\* The worker dies; what it posted before may still be delivered.
Die ==
    /\ worker \in {"booting", "up", "coreless"} /\ crashes < MaxCrashes
    /\ crashes' = crashes + 1
    /\ worker' = "dead"
    /\ inbox' = <<>> /\ staged' = {} /\ saved' = {}
    /\ UNCHANGED <<mainVars, callVars, outbox, diskVars, faulty, owed>>

------------------------------------------------------------------------------
WriterInit ==
    /\ state = "open" /\ ready = FALSE /\ respawn = FALSE
    /\ kind = [j \in Job |-> "none"] /\ body = [j \in Job |-> "none"]
    /\ queued = {} /\ inflight = {} /\ uncommitted = {}
    /\ inFlightBytes = 0 /\ requestSeq = 1
    /\ main = "loop" /\ toRepost = {}
    /\ call = [c \in Caller |-> "none"] /\ cpc = [c \in Caller |-> "idle"]
    /\ passes = [c \in Caller |-> 0]
    /\ asked = [c \in Caller |-> Request("flush", 0)]
    /\ before = [c \in Caller |-> {}]
    /\ worker = "booting" /\ inbox = <<>> /\ outbox = <<>>
    /\ staged = {} /\ saved = {} /\ durable = {} /\ full = {}
    /\ crashes = 0 /\ faulty = FALSE /\ owed = {}

\* What the main thread does once it has started or been sent something.
MainStep ==
    \/ Pump \/ Repost \/ (\E c \in Caller : Resume(c))
    \/ OnReady \/ OnWritten \/ OnCommitted \/ OnReply
    \/ OnCrash \/ Respawn

WorkerStep ==
    \/ WorkerInit \/ Apply \/ ApplyThrows \/ JobBeforeInit
    \/ WorkerFlush \/ WorkerPrune \/ WorkerClose \/ AnswerCoreless

WriterNext ==
    \/ \E j \in Job : \E k \in KindsOf[j] : Write(j, k)
    \/ \E c \in Caller : \E what \in CallsOf[c] : Invoke(c, what)
    \/ MainStep \/ WorkerStep \/ FlushTimer \/ Die

WriterSpec == WriterInit /\ [][WriterNext]_writerVars

\* Both threads go on while they have something to do, and the core's interval
\* timer fires.  Nothing is assumed about deaths or faults.
FairWriterSpec ==
    /\ WriterSpec
    /\ WF_writerVars(MainStep) /\ WF_writerVars(WorkerStep) /\ WF_writerVars(FlushTimer)

------------------------------------------------------------------------------
(* Properties.                                                             *)

\* "Metadata is never lost": until the writer is closed every accepted job is
\* in the index or still known to be uncommitted, and a job is forgotten only
\* when its row is there, whatever was lost with a worker.
NoJobForgotten == state # "closed" => accepted \subseteq durable \cup uncommitted

\* The byte budget is exactly the bodies of the jobs not yet retired, over
\* crashes and bodies lost in them: it neither leaks, which would shed every
\* later body, nor admits too much.
BudgetExact == inFlightBytes = Bytes(uncommitted)

\* A body that was accepted is on disk with its row, unless it was with a worker
\* that died before the row was there, could not be written, or was pruned.
BodyOwed == owed \cap durable \subseteq full

\* The worker has died as often as flush() has passes.
Exhausted == crashes >= MaxPasses

\* flush() returns only when every job accepted before the call is durable,
\* with fewer worker deaths than passes.
FlushDurable ==
    \A c \in Caller : cpc[c] = "returned" /\ call[c] \in {"flush", "close"} =>
        \/ before[c] \subseteq durable \/ Exhausted
        \/ call[c] = "close" /\ state = "closing"

\* What is owed to a caller: a flush() that returned left its jobs durable, and
\* their bodies with them: a job still queued at a crash keeps its body, and a row
\* sent again does not replace a full one.
OwedKept == FlushDurable /\ BodyOwed

\* Unless a fault of another kind happened, close() returns through any number of
\* worker deaths, and while flush() has passes left every call returns and every
\* job becomes durable.
EverythingSettles ==
    /\ \A c \in Caller :
           call[c] # "none" ~> cpc[c] = "returned" \/ faulty \/ (Exhausted /\ call[c] # "close")
    /\ \A j \in Job : kind[j] # "none" ~> j \in durable \/ faulty \/ Exhausted

\* The writer implements the log it promises.
Log == INSTANCE DurableLog WITH closed <- state = "closed", exhausted <- Exhausted
LogSpec == Log!LogSpec
==============================================================================
