-------------------------- MODULE TurnWriterProofs --------------------------
(***************************************************************************)
(* Proofs about TurnWriter: for any number of jobs, callers and worker     *)
(* deaths, and whatever faults happen, no accepted job is forgotten, the   *)
(* byte budget is exact, flush() and close() deliver what they promise,    *)
(* and the writer implements DurableLog.                                   *)
(*                                                                         *)
(* The first half needs only WriterInv, an invariant of the main thread's  *)
(* bookkeeping.  The second half adds Delivery, which says where every job *)
(* and every control request is on its way through both threads.           *)
(***************************************************************************)
EXTENDS TurnWriter, FiniteSetTheorems, SequenceTheorems, TLAPS

CallState == {"idle", "draining", "drained", "asked", "answered", "returned"}

\* A report of the worker that tells the truth about the index.
TrueReport(d) == {m \in WriterResponse : m.ids \subseteq d}

\* Why a job that was reported committed may be forgotten, and why the bytes
\* given back for it are the bytes that were taken.
Accounted ==
    /\ outbox \in Seq(TrueReport(durable))
    /\ uncommitted \subseteq accepted
    /\ \A j \in Job : body[j] # "none" => j \in uncommitted

WriterInv == WriterTypeOK /\ Accounted /\ NoJobForgotten /\ BudgetExact

------------------------------------------------------------------------------
LEMMA JobFacts == Job \subseteq Nat /\ IsFiniteSet(Job)
BY FS_Interval, WriterAssumption DEF Job

\* Bytes counts bodies: it is a natural number, and monotone.
LEMMA BytesType ==
    ASSUME NEW S \in SUBSET Job
    PROVE  Bytes(S) \in Nat /\ IsFiniteSet({j \in S : body[j] # "none"})
<1>1. IsFiniteSet({j \in S : body[j] # "none"})
  BY JobFacts, FS_Subset
<1> QED
  BY <1>1, FS_CardinalityType DEF Bytes

\* The window of pending calls only moves between states of a call.
LEMMA PumpingType ==
    ASSUME NEW pc \in [Caller -> CallState], NEW q, NEW w, Pumping(pc, q, w)
    PROVE  main' \in {"loop", "repost", "pump"} /\ cpc' \in [Caller -> CallState]
BY DEF Pumping, CheckDrained, CallState

LEMMA CheckDrainedType ==
    ASSUME NEW pc \in [Caller -> CallState], NEW q, NEW w
    PROVE  CheckDrained(pc, q, w) \in [Caller -> CallState]
BY DEF CheckDrained, CallState

LEMMA PostType ==
    ASSUME inbox \in Seq(WriterRequest), NEW msg \in WriterRequest, Post(msg)
    PROVE  inbox' \in Seq(WriterRequest)
BY AppendProperties DEF Post

LEMMA ResponseType ==
    ASSUME NEW type \in {"ready", "written", "committed", "flushed", "pruned", "closed", "error"},
           NEW id \in Nat, NEW ids \in SUBSET Job, NEW d, ids \subseteq d
    PROVE  Response(type, id, ids) \in TrueReport(d)
BY DEF Response, TrueReport, WriterResponse

\* Reports stay true, and stay messages, when more becomes durable.
LEMMA ReportsKept ==
    ASSUME NEW d, NEW e, d \subseteq e, NEW s \in Seq(TrueReport(d))
    PROVE  s \in Seq(TrueReport(e)) /\ s \in Seq(WriterResponse)
<1>1. TrueReport(d) \subseteq TrueReport(e) /\ TrueReport(d) \subseteq WriterResponse
  BY DEF TrueReport
<1> QED
  BY <1>1, SeqMonotonic

\* A message the main thread takes leaves true reports behind.
LEMMA ReceiveFacts ==
    ASSUME outbox \in Seq(TrueReport(durable)), NEW type, Receive(type)
    PROVE  /\ Head(outbox) \in TrueReport(durable)
           /\ outbox' \in Seq(TrueReport(durable))
BY HeadTailProperties DEF Receive

LEMMA TakeFacts ==
    ASSUME inbox \in Seq(WriterRequest), NEW condition, NEW type, Take(condition, type)
    PROVE  /\ Head(inbox) \in WriterRequest
           /\ inbox' \in Seq(WriterRequest)
           /\ Head(inbox).id \in Nat
           /\ type = "job" => Head(inbox).id \in Job
<1>1. Head(inbox) \in WriterRequest /\ inbox' \in Seq(WriterRequest)
  BY HeadTailProperties DEF Take
<1>2. Head(inbox).type = type
  BY DEF Take
<1> QED
  BY <1>1, <1>2, JobFacts DEF WriterRequest, JobMessage, ControlRequest, Call

\* A step that leaves the bookkeeping of jobs alone, while the index grows and
\* the worker reports truthfully.
LEMMA JobsKept ==
    ASSUME WriterInv,
           kind' = kind, body' = body, uncommitted' = uncommitted,
           inFlightBytes' = inFlightBytes,
           state' # "closed" => state # "closed",
           durable \subseteq durable', outbox' \in Seq(TrueReport(durable'))
    PROVE  Accounted' /\ NoJobForgotten' /\ BudgetExact'
<1>1. Accounted'
  BY DEF WriterInv, Accounted, accepted, TrueReport, WriterResponse
<1>2. NoJobForgotten' /\ BudgetExact'
  BY DEF WriterInv, NoJobForgotten, BudgetExact, accepted, Bytes
<1> QED
  BY <1>1, <1>2

LEMMA FlushBatchFacts ==
    ASSUME WriterInv, NEW batch \in SUBSET Job, NEW bodies \in SUBSET batch,
           NEW out \in Seq(TrueReport({})), FlushBatch(batch, bodies, out)
    PROVE  /\ durable' \subseteq Job /\ durable \subseteq durable'
           /\ full' \subseteq durable'
           /\ staged' = {} /\ saved' = {}
           /\ outbox' \in Seq(TrueReport(durable')) /\ outbox' \in Seq(WriterResponse)
<1>1. durable' = durable \cup batch /\ durable \subseteq Job /\ full \subseteq durable
      /\ outbox \in Seq(TrueReport(durable)) /\ full' = full \cup (bodies \ durable)
      /\ staged' = {} /\ saved' = {}
  BY DEF FlushBatch, WriterInv, WriterTypeOK, Accounted
<1>2. outbox \in Seq(TrueReport(durable')) /\ out \in Seq(TrueReport(durable'))
  BY <1>1, ReportsKept
<1>3. Response("committed", 0, batch) \in TrueReport(durable')
  BY <1>1, ResponseType
<1>4. Append(outbox, Response("committed", 0, batch)) \in Seq(TrueReport(durable'))
  BY <1>2, <1>3, AppendProperties
<1>5. outbox' = outbox \o out
      \/ outbox' = Append(outbox, Response("committed", 0, batch)) \o out
  BY DEF FlushBatch
<1>6. outbox' \in Seq(TrueReport(durable'))
  BY <1>2, <1>4, <1>5, ConcatProperties
<1> QED
  BY <1>1, <1>6, ReportsKept

------------------------------------------------------------------------------
LEMMA WriterInitInv == WriterInit => WriterInv
<1> SUFFICES ASSUME WriterInit PROVE WriterInv
  OBVIOUS
<1>1. <<>> \in Seq(WriterRequest) /\ <<>> \in Seq(WriterResponse)
      /\ <<>> \in Seq(TrueReport({}))
  BY EmptySeq
<1>2. WriterTypeOK
  BY <1>1 DEF WriterInit, WriterTypeOK, Request, ControlRequest, Call
<1>3. Accounted /\ NoJobForgotten
  BY <1>1 DEF WriterInit, Accounted, NoJobForgotten, accepted
<1>4. {j \in {} : body[j] # "none"} = {}
  OBVIOUS
<1>5. BudgetExact
  BY <1>4, FS_EmptySet DEF WriterInit, BudgetExact, Bytes
<1> QED
  BY <1>2, <1>3, <1>5 DEF WriterInv

------------------------------------------------------------------------------
(* One lemma per action.                                                   *)

LEMMA WriteInv ==
    ASSUME WriterInv, NEW j \in Job, NEW k \in KindsOf[j], Write(j, k)
    PROVE  WriterInv'
<1> USE DEF WriterInv
<1>1. k \in Kind
  BY WriterAssumption
<1>2. /\ kind[j] = "none" /\ kind' = [kind EXCEPT ![j] = k]
      /\ uncommitted' = uncommitted \cup {j} /\ queued' = queued \cup {j}
      /\ durable' = durable /\ outbox' = outbox /\ state' = state
  BY DEF Write, workerVars
<1>3. main' \in {"loop", "repost", "pump"} /\ cpc' \in [Caller -> CallState]
  BY PumpingType DEF Write, WriterTypeOK, CallState
<1>4. j \notin uncommitted /\ body[j] = "none"
  BY <1>2 DEF Accounted, accepted
<1>5. \/ /\ body' = [body EXCEPT ![j] = "held"] /\ inFlightBytes' = inFlightBytes + 1
      \/ /\ body' = body /\ inFlightBytes' = inFlightBytes
  <2>1. body \in [Job -> {"none", "held", "sent"}]
    BY DEF WriterTypeOK
  <2> QED
    BY <1>4, <2>1 DEF Write
<1>6. owed' \subseteq Job
  BY DEF Write, WriterTypeOK
<1>7. WriterTypeOK'
  BY <1>1, <1>2, <1>3, <1>5, <1>6 DEF Write, WriterTypeOK, CallState, workerVars, Kind
<1>8. Accounted'
  BY <1>1, <1>2, <1>4, <1>5 DEF Accounted, accepted, Kind, WriterTypeOK
<1>9. NoJobForgotten'
  BY <1>2 DEF NoJobForgotten, accepted, WriterTypeOK
<1>10. BudgetExact'
  <2> DEFINE B == {i \in uncommitted : body[i] # "none"}
             C == {i \in uncommitted \cup {j} : body'[i] # "none"}
  <2>1. IsFiniteSet(B) /\ inFlightBytes = Cardinality(B) /\ j \notin B
    BY <1>4, BytesType DEF BudgetExact, WriterTypeOK, Bytes
  <2>2. CASE body' = [body EXCEPT ![j] = "held"] /\ inFlightBytes' = inFlightBytes + 1
    <3>1. C = B \cup {j}
      BY <2>2, <1>4 DEF WriterTypeOK
    <3> QED
      BY <3>1, <2>1, <2>2, <1>2, FS_AddElement DEF BudgetExact, Bytes
  <2>3. CASE body' = body /\ inFlightBytes' = inFlightBytes
    <3>1. C = B
      BY <2>3, <1>4
    <3> QED
      BY <3>1, <2>1, <2>3, <1>2 DEF BudgetExact, Bytes
  <2> QED
    BY <1>5, <2>2, <2>3
<1> QED
  BY <1>7, <1>8, <1>9, <1>10

LEMMA PumpInv ==
    ASSUME WriterInv, Pump
    PROVE  WriterInv'
<1> USE DEF WriterInv
<1>1. PICK j \in queued :
         /\ queued' = queued \ {j} /\ inflight' = inflight \cup {j}
         /\ Post([type |-> "job", id |-> j, body |-> body[j] = "held"])
         /\ body' = [body EXCEPT ![j] = IF @ = "held" THEN "sent" ELSE @]
  BY DEF Pump
<1>2. j \in Job /\ [type |-> "job", id |-> j, body |-> body[j] = "held"] \in WriterRequest
  BY <1>1 DEF WriterTypeOK, WriterRequest, JobMessage
<1>3. inbox' \in Seq(WriterRequest)
  BY <1>1, <1>2, PostType DEF WriterTypeOK
<1>4. main' \in {"loop", "repost", "pump"} /\ cpc' \in [Caller -> CallState]
  BY PumpingType DEF Pump, WriterTypeOK, CallState
<1>5. body' \in [Job -> {"none", "held", "sent"}]
      /\ \A i \in Job : body'[i] = "none" <=> body[i] = "none"
  BY <1>1, <1>2 DEF WriterTypeOK
<1>6. WriterTypeOK'
  BY <1>1, <1>2, <1>3, <1>4, <1>5 DEF Pump, WriterTypeOK, CallState, diskVars, historyVars
<1>7. /\ kind' = kind /\ uncommitted' = uncommitted /\ inFlightBytes' = inFlightBytes
      /\ state' = state /\ durable' = durable /\ outbox' = outbox
  BY DEF Pump, diskVars
<1>8. Accounted' /\ NoJobForgotten'
  BY <1>5, <1>7 DEF Accounted, NoJobForgotten, accepted
<1>9. {i \in uncommitted : body'[i] # "none"} = {i \in uncommitted : body[i] # "none"}
  BY <1>5 DEF WriterTypeOK
<1>10. BudgetExact'
  BY <1>7, <1>9 DEF BudgetExact, Bytes
<1> QED
  BY <1>6, <1>8, <1>10

LEMMA OnCommittedInv ==
    ASSUME WriterInv, OnCommitted
    PROVE  WriterInv'
<1> USE DEF WriterInv
<1> DEFINE retired == Head(outbox).ids \cap uncommitted
           B == {i \in uncommitted : body[i] # "none"}
           C == {i \in uncommitted \ retired : body[i] # "none"}
           D == {i \in retired : body[i] # "none"}
<1>1. /\ uncommitted' = uncommitted \ retired
      /\ inFlightBytes' = IF inFlightBytes >= Bytes(retired)
                          THEN inFlightBytes - Bytes(retired) ELSE 0
      /\ body' = [i \in Job |-> IF i \in retired THEN "none" ELSE body[i]]
      /\ kind' = kind /\ state' = state /\ durable' = durable
  BY DEF OnCommitted, diskVars
<1>2. Head(outbox) \in TrueReport(durable) /\ outbox' \in Seq(TrueReport(durable))
  BY ReceiveFacts DEF OnCommitted, Accounted
<1>3. retired \subseteq durable /\ retired \subseteq Job
  BY <1>2 DEF TrueReport, WriterTypeOK
<1>4. outbox' \in Seq(WriterResponse)
  BY <1>2, ReportsKept
<1>5. Bytes(retired) \in Nat /\ Bytes(uncommitted) \in Nat
      /\ IsFiniteSet(B) /\ IsFiniteSet(D)
  BY <1>3, BytesType DEF WriterTypeOK
<1>6. inFlightBytes' \in Nat
  BY <1>1, <1>5 DEF WriterTypeOK
<1>7. WriterTypeOK'
  BY <1>1, <1>4, <1>6 DEF OnCommitted, WriterTypeOK, callVars, diskVars, historyVars
<1>8. Accounted'
  BY <1>1, <1>2 DEF Accounted, accepted
<1>9. NoJobForgotten'
  BY <1>1, <1>3 DEF NoJobForgotten, accepted
<1>10. BudgetExact'
  <2>1. B = C \cup D /\ C \cap D = {} /\ D \subseteq B /\ C = B \ D
    OBVIOUS
  <2>2. IsFiniteSet(C)
    BY <2>1, <1>5, FS_Subset
  <2>3. /\ Cardinality(C) = Cardinality(B) - Cardinality(D)
        /\ Cardinality(C) \in Nat /\ Cardinality(D) \in Nat /\ Cardinality(B) \in Nat
    <3>1. B \cap D = D
      OBVIOUS
    <3>2. Cardinality(B \ D) = Cardinality(B) - Cardinality(B \cap D)
      BY <1>5, FS_Difference
    <3> HIDE DEF B, C, D
    <3> QED
      BY <3>1, <3>2, <2>1, <2>2, <1>5, FS_CardinalityType
  <2>4. inFlightBytes = Cardinality(B) /\ Bytes(retired) = Cardinality(D)
    BY DEF BudgetExact, Bytes
  <2>5. inFlightBytes' = Cardinality(C)
    BY <2>3, <2>4, <1>1
  <2>6. {i \in uncommitted' : body'[i] # "none"} = C
    BY <1>1 DEF WriterTypeOK
  <2> QED
    BY <2>5, <2>6 DEF BudgetExact, Bytes
<1> QED
  BY <1>7, <1>8, <1>9, <1>10

LEMMA OnCrashInv ==
    ASSUME WriterInv, OnCrash
    PROVE  WriterInv'
<1> USE DEF WriterInv
<1>1. /\ uncommitted' = uncommitted /\ queued' = uncommitted /\ inflight' = {}
      /\ kind' = kind /\ state' = state /\ durable' = durable /\ full' = full
      /\ body' = [i \in Job |-> IF i \in BodiesLost THEN "none" ELSE body[i]]
      /\ inFlightBytes' = Bytes(uncommitted \ BodiesLost)
      /\ inbox' = <<>> /\ outbox' = <<>> /\ staged' = {} /\ saved' = {} /\ worker' = "none"
      /\ owed' \subseteq owed
  BY DEF OnCrash, DisposeWorker, Survivors, BytesAfterCrash, diskVars
<1>2. <<>> \in Seq(WriterRequest) /\ <<>> \in Seq(WriterResponse)
      /\ <<>> \in Seq(TrueReport(durable))
  BY EmptySeq
<1>3. inFlightBytes' \in Nat
  BY <1>1, BytesType DEF WriterTypeOK
<1>4. WriterTypeOK'
  BY <1>1, <1>2, <1>3 DEF OnCrash, WriterTypeOK, callVars
<1>5. Accounted' /\ NoJobForgotten'
  BY <1>1, <1>2 DEF Accounted, NoJobForgotten, accepted
<1>6. {i \in uncommitted : body'[i] # "none"}
        = {i \in uncommitted \ BodiesLost : body[i] # "none"}
  BY <1>1 DEF WriterTypeOK
<1>7. BudgetExact'
  BY <1>1, <1>6 DEF BudgetExact, Bytes
<1> QED
  BY <1>4, <1>5, <1>7

\* A control request is a message, for whoever asks.
LEMMA AskFacts ==
    ASSUME WriterInv, NEW c \in Caller, NEW type \in Call, Ask(c, type)
    PROVE  /\ asked' \in [Caller -> ControlRequest] /\ requestSeq' \in Nat
           /\ inbox' \in Seq(WriterRequest) /\ cpc' \in [Caller -> CallState]
<1>1. requestSeq \in Nat
  BY DEF WriterInv, WriterTypeOK
<1>2. Request(type, requestSeq) \in ControlRequest
  BY <1>1 DEF Request, ControlRequest, Call
<1>3. inbox' \in Seq(WriterRequest)
  BY <1>2, PostType DEF Ask, WriterInv, WriterTypeOK, WriterRequest
<1> QED
  BY <1>1, <1>2, <1>3 DEF Ask, WriterInv, WriterTypeOK, CallState

LEMMA InvokeInv ==
    ASSUME WriterInv, NEW c \in Caller, NEW what \in CallsOf[c], Invoke(c, what)
    PROVE  WriterInv'
<1>1. what \in Call
  BY WriterAssumption
<1>2. /\ outbox' = outbox /\ durable' = durable /\ full' = full
      /\ kind' = kind /\ body' = body /\ uncommitted' = uncommitted
      /\ inFlightBytes' = inFlightBytes
      /\ call' = [call EXCEPT ![c] = what] /\ before' = [before EXCEPT ![c] = accepted]
  BY DEF Invoke, diskVars
<1>3. /\ asked' \in [Caller -> ControlRequest] /\ requestSeq' \in Nat
      /\ inbox' \in Seq(WriterRequest) /\ cpc' \in [Caller -> CallState]
  <2>1. CASE Ask(c, "prune")
    BY <2>1, AskFacts DEF Call
  <2>2. CASE UNCHANGED <<asked, requestSeq, inbox>> /\ (Drain(c) \/ Return(c))
    BY <2>2 DEF Drain, Return, WriterInv, WriterTypeOK, CallState
  <2> QED
    BY <2>1, <2>2 DEF Invoke
<1>4. /\ state' \in {"open", "closing", "closed"}
      /\ state' # "closed" => state # "closed"
  BY DEF Invoke, WriterInv, WriterTypeOK
<1>5. WriterTypeOK'
  <2>1. /\ call' \in [Caller -> Call \cup {"none"}]
        /\ before' \in [Caller -> SUBSET Job]
    BY <1>1, <1>2 DEF WriterInv, WriterTypeOK, accepted
  <2>2. UNCHANGED <<ready, kind, body, queued, inflight, uncommitted, inFlightBytes, main,
                    toRepost, respawn, passes, worker, outbox, staged, saved, durable,
                    full, crashes, faulty, owed>>
    BY DEF Invoke, diskVars, historyVars
  <2> QED
    BY <1>3, <1>4, <2>1, <2>2 DEF WriterInv, WriterTypeOK, CallState
<1>6. outbox' \in Seq(TrueReport(durable'))
  BY <1>2 DEF WriterInv, Accounted
<1> QED
  BY <1>2, <1>4, <1>5, <1>6, JobsKept DEF WriterInv

\* The end of a call: it returns, asks for the worker's close, or closes.
LEMMA CloseDoneFacts ==
    ASSUME WriterInv, NEW c \in Caller, CloseDone(c)
    PROVE  /\ cpc' \in [Caller -> CallState] /\ state' = "closed"
           /\ ready' = FALSE /\ respawn' = FALSE /\ worker' = "none"
           /\ inbox' = <<>> /\ outbox' = <<>> /\ staged' = {} /\ saved' = {}
           /\ asked' = asked /\ requestSeq' = requestSeq /\ passes' = passes
<1> DEFINE released == [d \in Caller |-> IF d = c THEN "returned"
                                        ELSE IF cpc[d] = "asked" THEN "answered"
                                        ELSE cpc[d]]
<1>1. released \in [Caller -> CallState]
  BY DEF WriterInv, WriterTypeOK, CallState
<1>2. cpc' = CheckDrained(released, queued, inflight)
  BY DEF CloseDone
<1>3. cpc' \in [Caller -> CallState]
  <2> HIDE DEF released
  <2> QED
    BY <1>1, <1>2, CheckDrainedType
<1> QED
  BY <1>3 DEF CloseDone, DisposeWorker

LEMMA ResumeInv ==
    ASSUME WriterInv, NEW c \in Caller, Resume(c)
    PROVE  WriterInv'
<1>1. /\ kind' = kind /\ body' = body /\ queued' = queued /\ inflight' = inflight
      /\ uncommitted' = uncommitted /\ inFlightBytes' = inFlightBytes /\ main' = main
      /\ toRepost' = toRepost /\ call' = call /\ before' = before
      /\ durable' = durable /\ full' = full
      /\ crashes' = crashes /\ faulty' = faulty /\ owed' = owed
  BY DEF Resume, diskVars, historyVars
<1> DEFINE Quiet == UNCHANGED <<state, ready, respawn, worker, outbox, staged, saved>>
           Asks == Quiet /\ UNCHANGED passes /\ \E type \in Call : Ask(c, type)
           Goes == /\ Quiet /\ UNCHANGED <<asked, requestSeq, inbox>>
                   /\ passes' \in {passes, [passes EXCEPT ![c] = @ + 1]}
                   /\ Drain(c) \/ Return(c)
<1>2. Asks \/ Goes \/ CloseDone(c)
  <2>1. ASSUME FlushDone(c) PROVE Asks \/ Goes \/ CloseDone(c)
    BY <2>1 DEF FlushDone, Call
  <2>2. CASE AfterDrain(c)
    BY <2>1, <2>2 DEF AfterDrain, Call
  <2>3. CASE AfterReply(c)
    BY <2>1, <2>3 DEF AfterReply
  <2> QED
    BY <2>2, <2>3 DEF Resume
<1>3. CASE Asks
  <2>1. PICK type \in Call : Ask(c, type)
    BY <1>3
  <2>2. /\ asked' \in [Caller -> ControlRequest] /\ requestSeq' \in Nat
        /\ inbox' \in Seq(WriterRequest) /\ cpc' \in [Caller -> CallState]
    BY <2>1, AskFacts
  <2>3. WriterTypeOK'
    BY <1>1, <1>3, <2>2 DEF WriterInv, WriterTypeOK, CallState
  <2>4. outbox' \in Seq(TrueReport(durable')) /\ state' = state
    BY <1>1, <1>3 DEF WriterInv, Accounted
  <2> QED
    BY <1>1, <2>3, <2>4, JobsKept DEF WriterInv
<1>4. CASE Goes
  <2>1. cpc' \in [Caller -> CallState] /\ passes' \in [Caller -> Nat]
    <3>1. cpc \in [Caller -> CallState] /\ passes \in [Caller -> Nat]
      BY DEF WriterInv, WriterTypeOK, CallState
    <3>2. cpc' \in [Caller -> CallState]
      BY <1>4, <3>1 DEF Drain, Return, CallState
    <3>3. [passes EXCEPT ![c] = @ + 1] \in [Caller -> Nat]
      BY <3>1
    <3> QED
      BY <1>4, <3>1, <3>2, <3>3
  <2>2. WriterTypeOK'
    BY <1>1, <1>4, <2>1 DEF WriterInv, WriterTypeOK, CallState
  <2>3. outbox' \in Seq(TrueReport(durable')) /\ state' = state
    BY <1>1, <1>4 DEF WriterInv, Accounted
  <2> QED
    BY <1>1, <2>2, <2>3, JobsKept DEF WriterInv
<1>5. CASE CloseDone(c)
  <2>1. <<>> \in Seq(WriterRequest) /\ <<>> \in Seq(WriterResponse)
        /\ <<>> \in Seq(TrueReport(durable'))
    BY EmptySeq
  <2>2. WriterTypeOK'
    BY <1>1, <1>5, <2>1, CloseDoneFacts DEF WriterInv, WriterTypeOK, CallState
  <2> QED
    BY <1>1, <1>5, <2>1, <2>2, CloseDoneFacts, JobsKept DEF WriterInv
<1> QED
  BY <1>2, <1>3, <1>4, <1>5

\* A message of the worker that touches no job's bookkeeping.
LEMMA MessageInv ==
    ASSUME WriterInv, OnReady \/ OnWritten \/ OnReply
    PROVE  WriterInv'
<1>1. /\ kind' = kind /\ body' = body /\ uncommitted' = uncommitted
      /\ inFlightBytes' = inFlightBytes /\ state' = state /\ durable' = durable
  BY DEF OnReady, OnWritten, OnReply, mainVars, diskVars
<1>2. \E type : Receive(type)
  BY DEF OnReady, OnWritten, OnReply
<1>3. outbox' \in Seq(TrueReport(durable'))
  BY <1>1, <1>2, ReceiveFacts DEF WriterInv, Accounted
<1>4. outbox' \in Seq(WriterResponse)
  BY <1>3, ReportsKept
<1>5. /\ main' \in {"loop", "repost", "pump"} /\ cpc' \in [Caller -> CallState]
      /\ toRepost' \subseteq Caller
  <2>1. cpc \in [Caller -> CallState] /\ toRepost \subseteq Caller
        /\ main \in {"loop", "repost", "pump"}
    BY DEF WriterInv, WriterTypeOK, CallState
  <2>2. CASE OnReady
    BY <2>1, <2>2, PumpingType DEF OnReady, Waiting
  <2>3. CASE OnWritten
    BY <2>1, <2>3, PumpingType DEF OnWritten
  <2>4. CASE OnReply
    BY <2>1, <2>4 DEF OnReply, CallState, mainVars
  <2> QED
    BY <2>2, <2>3, <2>4
<1>6. WriterTypeOK'
  <2>1. CASE OnReady
    BY <2>1, <1>4, <1>5 DEF OnReady, WriterInv, WriterTypeOK, CallState, diskVars, historyVars
  <2>2. CASE OnWritten
    BY <2>2, <1>4, <1>5 DEF OnWritten, WriterInv, WriterTypeOK, CallState, diskVars,
                            historyVars
  <2>3. CASE OnReply
    BY <2>3, <1>4, <1>5 DEF OnReply, WriterInv, WriterTypeOK, CallState, mainVars, diskVars,
                            historyVars
  <2> QED
    BY <2>1, <2>2, <2>3
<1> QED
  BY <1>1, <1>3, <1>6, JobsKept DEF WriterInv

LEMMA RepostInv ==
    ASSUME WriterInv, Repost
    PROVE  WriterInv'
<1>1. PICK c \in toRepost : toRepost' = toRepost \ {c} /\ Post(asked[c])
  BY DEF Repost
<1>2. inbox' \in Seq(WriterRequest)
  BY <1>1, PostType DEF WriterInv, WriterTypeOK, WriterRequest
<1>3. main' \in {"loop", "repost", "pump"} /\ cpc' \in [Caller -> CallState]
  BY PumpingType DEF Repost, WriterInv, WriterTypeOK, CallState
<1>4. WriterTypeOK'
  BY <1>1, <1>2, <1>3 DEF Repost, WriterInv, WriterTypeOK, CallState, diskVars, historyVars
<1>5. outbox' \in Seq(TrueReport(durable'))
  BY DEF Repost, diskVars, WriterInv, Accounted
<1> QED
  BY <1>4, <1>5, JobsKept DEF Repost, diskVars, WriterInv

LEMMA RespawnInv ==
    ASSUME WriterInv, Respawn
    PROVE  WriterInv'
<1>1. WriterTypeOK'
  BY DEF Respawn, WriterInv, WriterTypeOK, callVars, diskVars
<1>2. outbox' \in Seq(TrueReport(durable'))
  BY DEF Respawn, diskVars, WriterInv, Accounted
<1> QED
  BY <1>1, <1>2, JobsKept DEF Respawn, diskVars, WriterInv

\* The worker's side of the main thread's invariant: what its step must ensure.
LEMMA WorkerStepInv ==
    ASSUME WriterInv, UNCHANGED mainVars, UNCHANGED callVars,
           worker' \in {"none", "booting", "up", "coreless", "dead"},
           inbox' \in Seq(WriterRequest), outbox' \in Seq(TrueReport(durable')),
           staged' \subseteq Job, saved' \subseteq staged',
           durable \subseteq durable', durable' \subseteq Job, full' \subseteq durable',
           crashes' \in Nat, faulty' \in BOOLEAN, owed' \subseteq Job
    PROVE  WriterInv'
<1>1. outbox' \in Seq(WriterResponse)
  BY ReportsKept
<1>2. WriterTypeOK'
  BY <1>1 DEF WriterInv, WriterTypeOK, mainVars, callVars
<1>3. Accounted' /\ NoJobForgotten' /\ BudgetExact'
  BY JobsKept DEF mainVars
<1> QED
  BY <1>2, <1>3 DEF WriterInv

\* The worker answers a message, with nothing else in its report.
LEMMA AnswerFacts ==
    ASSUME WriterInv,
           NEW type \in {"ready", "written", "flushed", "pruned", "closed", "error"},
           NEW id \in Nat
    PROVE  /\ Append(outbox, Response(type, id, {})) \in Seq(TrueReport(durable))
           /\ \A d : <<Response(type, id, {})>> \in Seq(TrueReport(d))
<1>1. \A d : Response(type, id, {}) \in TrueReport(d)
  BY ResponseType
<1>2. outbox \in Seq(TrueReport(durable))
  BY DEF WriterInv, Accounted
<1> QED
  BY <1>1, <1>2, AppendProperties

LEMMA WorkerInitInv ==
    ASSUME WriterInv, WorkerInit
    PROVE  WriterInv'
<1>1. outbox' \in Seq(TrueReport(durable'))
  BY AnswerFacts DEF WorkerInit, diskVars
<1> QED
  BY <1>1, WorkerStepInv DEF WorkerInit, WriterInv, WriterTypeOK, diskVars

LEMMA ApplyInv ==
    ASSUME WriterInv, Apply
    PROVE  WriterInv'
<1> DEFINE j == Head(inbox).id
           batch == staged \cup {j}
           written == Response("written", j, {})
<1>1. j \in Job /\ j \in Nat /\ inbox' \in Seq(WriterRequest)
  BY TakeFacts DEF Apply, WriterInv, WriterTypeOK
<1>2. PICK bodies \in SUBSET batch :
         /\ owed' \subseteq owed
         /\ \/ FlushBatch(batch, bodies, <<written>>)
            \/ /\ staged' = batch /\ saved' = bodies
               /\ outbox' = Append(outbox, written)
               /\ UNCHANGED diskVars
  <2>1. saved \subseteq staged
    BY DEF WriterInv, WriterTypeOK
  <2> QED
    BY <2>1 DEF Apply
<1>3. batch \subseteq Job /\ owed' \subseteq Job
  BY <1>1, <1>2 DEF WriterInv, WriterTypeOK
<1>4. /\ outbox' \in Seq(TrueReport(durable')) /\ durable \subseteq durable'
      /\ durable' \subseteq Job /\ full' \subseteq durable'
      /\ staged' \subseteq Job /\ saved' \subseteq staged'
  <2>1. CASE FlushBatch(batch, bodies, <<written>>)
    <3>1. <<written>> \in Seq(TrueReport({}))
      BY <1>1, AnswerFacts
    <3> HIDE DEF batch, written
    <3> QED
      BY <1>3, <2>1, <3>1, FlushBatchFacts
  <2>2. CASE /\ staged' = batch /\ saved' = bodies
             /\ outbox' = Append(outbox, written) /\ UNCHANGED diskVars
    BY <1>1, <1>3, <2>2, AnswerFacts DEF diskVars, WriterInv, WriterTypeOK
  <2> QED
    BY <1>2, <2>1, <2>2
<1> QED
  BY <1>1, <1>3, <1>4, WorkerStepInv DEF Apply, WriterInv, WriterTypeOK

LEMMA ApplyThrowsInv ==
    ASSUME WriterInv, ApplyThrows
    PROVE  WriterInv'
<1> DEFINE j == Head(inbox).id
<1>1. j \in Job /\ j \in Nat /\ inbox' \in Seq(WriterRequest)
  BY TakeFacts DEF ApplyThrows, WriterInv, WriterTypeOK
<1>2. outbox' \in Seq(TrueReport(durable'))
  BY <1>1, AnswerFacts DEF ApplyThrows, diskVars
<1>3. staged' \subseteq Job /\ saved' \subseteq staged'
  BY <1>1 DEF ApplyThrows, WriterInv, WriterTypeOK
<1> QED
  BY <1>1, <1>2, <1>3, WorkerStepInv DEF ApplyThrows, WriterInv, WriterTypeOK, diskVars

\* A message answered without touching the batch.
LEMMA AnswerInv ==
    ASSUME WriterInv, JobBeforeInit \/ AnswerCoreless \/ WorkerPrune
    PROVE  WriterInv'
<1>1. Head(inbox).id \in Nat /\ inbox' \in Seq(WriterRequest)
  BY TakeFacts DEF JobBeforeInit, AnswerCoreless, WorkerPrune, WriterInv, WriterTypeOK
<1>2. PICK type \in {"flushed", "pruned", "closed", "error"} :
         outbox' = Append(outbox, Response(type, Head(inbox).id, {}))
  BY DEF JobBeforeInit, AnswerCoreless, WorkerPrune
<1>3. /\ UNCHANGED <<mainVars, callVars, worker, staged, saved, durable, crashes, faulty>>
      /\ full' \subseteq full /\ owed' \subseteq owed
  BY DEF JobBeforeInit, AnswerCoreless, WorkerPrune, diskVars, historyVars
<1>4. outbox' \in Seq(TrueReport(durable'))
  BY <1>1, <1>2, <1>3, AnswerFacts
<1> QED
  BY <1>1, <1>3, <1>4, WorkerStepInv DEF WriterInv, WriterTypeOK

\* The batch is committed on request, at the close or by the timer.
LEMMA CommitInv ==
    ASSUME WriterInv, WorkerFlush \/ WorkerClose \/ FlushTimer
    PROVE  WriterInv'
<1>1. inbox \in Seq(WriterRequest) /\ saved \in SUBSET staged /\ staged \in SUBSET Job
  BY DEF WriterInv, WriterTypeOK
<1>2. /\ inbox' \in Seq(WriterRequest)
      /\ \E out \in Seq(TrueReport({})) : FlushBatch(staged, saved, out)
  <2>1. CASE WorkerFlush
    BY <1>1, <2>1, TakeFacts, AnswerFacts DEF WorkerFlush
  <2>2. CASE WorkerClose
    BY <1>1, <2>2, TakeFacts, AnswerFacts DEF WorkerClose
  <2>3. CASE FlushTimer
    BY <1>1, <2>3, EmptySeq DEF FlushTimer
  <2> QED
    BY <2>1, <2>2, <2>3
<1>3. /\ outbox' \in Seq(TrueReport(durable')) /\ durable \subseteq durable'
      /\ durable' \subseteq Job /\ full' \subseteq durable' /\ staged' = {} /\ saved' = {}
  BY <1>1, <1>2, FlushBatchFacts
<1>4. /\ UNCHANGED mainVars /\ UNCHANGED callVars /\ UNCHANGED historyVars
      /\ worker' \in {worker, "coreless"}
  BY DEF WorkerFlush, WorkerClose, FlushTimer
<1> QED
  BY <1>2, <1>3, <1>4, WorkerStepInv DEF WriterInv, WriterTypeOK, historyVars

LEMMA DieInv ==
    ASSUME WriterInv, Die
    PROVE  WriterInv'
<1>1. inbox' \in Seq(WriterRequest)
  BY EmptySeq DEF Die
<1>2. outbox' \in Seq(TrueReport(durable'))
  BY DEF Die, diskVars, WriterInv, Accounted
<1> QED
  BY <1>1, <1>2, WorkerStepInv DEF Die, WriterInv, WriterTypeOK, diskVars

------------------------------------------------------------------------------
LEMMA WriterStepInv == WriterInv /\ [WriterNext]_writerVars => WriterInv'
<1> SUFFICES ASSUME WriterInv, [WriterNext]_writerVars PROVE WriterInv'
  OBVIOUS
<1>1. CASE UNCHANGED writerVars
  BY <1>1 DEF writerVars, mainVars, callVars, workerVars, historyVars, WriterInv,
              WriterTypeOK, Accounted, NoJobForgotten, BudgetExact, accepted, Bytes
<1>2. CASE \E j \in Job : \E k \in KindsOf[j] : Write(j, k)
  BY <1>2, WriteInv
<1>3. CASE \E c \in Caller : \E what \in CallsOf[c] : Invoke(c, what)
  BY <1>3, InvokeInv
<1>4. CASE MainStep
  BY <1>4, PumpInv, RepostInv, ResumeInv, MessageInv, OnCommittedInv, OnCrashInv, RespawnInv
     DEF MainStep
<1>5. CASE WorkerStep
  BY <1>5, WorkerInitInv, ApplyInv, ApplyThrowsInv, AnswerInv, CommitInv DEF WorkerStep
<1>6. CASE FlushTimer \/ Die
  BY <1>6, CommitInv, DieInv
<1> QED
  BY <1>1, <1>2, <1>3, <1>4, <1>5, <1>6 DEF WriterNext

\* The writer's invariant, for any number of jobs, callers and worker deaths and
\* whatever faults happen.
THEOREM WriterCorrect == WriterSpec => []WriterInv
BY WriterInitInv, WriterStepInv, PTL DEF WriterSpec

\* Type correctness of both threads and of the messages between them.
THEOREM WriterTypeCorrect == WriterSpec => []WriterTypeOK
<1>1. WriterInv => WriterTypeOK
  BY DEF WriterInv
<1> QED
  BY <1>1, WriterCorrect, PTL

\* "Metadata is never lost": #retireCommitted forgets only what is in the index.
THEOREM WriterForgetsNoJob == WriterSpec => []NoJobForgotten
<1>1. WriterInv => NoJobForgotten
  BY DEF WriterInv
<1> QED
  BY <1>1, WriterCorrect, PTL

\* The byte budget neither leaks nor admits too much, over #onCrash() and every
\* order in which reports arrive.
THEOREM WriterBudgetExact == WriterSpec => []BudgetExact
<1>1. WriterInv => BudgetExact
  BY DEF WriterInv
<1> QED
  BY <1>1, WriterCorrect, PTL

------------------------------------------------------------------------------
(***************************************************************************)
(* What is owed to the callers of flush() and close().                     *)
(***************************************************************************)

Members(s) == {s[n] : n \in 1..Len(s)}

\* No job twice among the messages; r is there with no job before it, and nothing
\* before it that its reply could be mistaken for.
JobsOnce(s) ==
    \A m, n \in 1..Len(s) : s[m].type = "job" /\ s[n].type = "job" /\ s[m].id = s[n].id => m = n
InLine(r, s) ==
    \E n \in 1..Len(s) :
        s[n] = r /\ \A m \in 1..(n - 1) : s[m].type # "job" /\ s[m].id # r.id

Settled == accepted \subseteq durable \/ Exhausted

\* The deaths the main thread has heard of.
Handled == IF worker = "dead" THEN crashes - 1 ELSE crashes

\* A body that is owed and not on disk travels with its job.
BodyKept ==
    \A j \in owed \ full :
        /\ j \notin durable /\ body[j] # "none" /\ kind[j] # "none"
        /\ j \in queued => body[j] = "held"
        /\ j \in staged => j \in saved
        /\ \A m \in Members(inbox) : m.type = "job" /\ m.id = j => m.body

\* What each thread may conclude about the other.
Threads ==
    /\ worker \in {"none", "booting"} => ~ready /\ inbox = <<>> /\ outbox = <<>>
    /\ worker = "dead" => crashes >= 1 /\ inbox = <<>>
    /\ worker = "coreless" =>
          \/ Settled /\ state # "open"
          \/ ~ready /\ \A m \in Members(outbox) : m.type # "ready"
    /\ ~ready => inbox = <<>> /\ \A a \in Members(outbox) : a.type # "written"
    /\ respawn => worker = "none" /\ state # "closed"
    /\ main # "loop" => ready
    /\ state = "closed" => worker = "none" /\ Settled
    /\ \A m \in Members(inbox) : m.type = "close" => Settled /\ state # "open"

\* Where an uncommitted job is: queued, in the window or with the worker, and the
\* window has a place for every job that was posted and not answered.
Placed ==
    /\ queued \cup inflight \cup staged \cup durable \subseteq accepted
    /\ JobsOnce(inbox)
    /\ \A m \in Members(inbox) : m.type = "job" =>
          /\ m.id \in inflight \ queued
          /\ \A a \in Members(outbox) : a.type \in {"written", "error"} => a.id # m.id
    /\ \A a \in Members(outbox) :
          /\ a.type = "written" => /\ a.id \in accepted \ queued
                                   /\ worker # "dead" => a.id \in staged \cup durable
          /\ a.type = "error" => a.id = 0 \/ a.id \in inflight \ queued
          /\ \A b \in Members(outbox) :
                a.type = "written" /\ b.type = "error" => a.id # b.id
    /\ worker # "dead" /\ state # "closed" =>
          uncommitted \subseteq queued \cup inflight \cup staged \cup durable
    /\ ~ready /\ state # "closed" => uncommitted \subseteq queued

\* Control requests have numbers of their own.
Requests ==
    /\ requestSeq >= 1
    /\ \A c \in Caller : asked[c].id < requestSeq /\ (cpc[c] = "asked" => asked[c].id # 0)
    /\ \A c, d \in Caller : asked[c].id = asked[d].id => c = d \/ asked[c].id = 0
    /\ \A m \in Members(inbox) : m.type # "job" => m.id < requestSeq
    /\ \A a \in Members(outbox) : a.type \in {"flushed", "pruned", "closed"} => a.id < requestSeq

Reply == {"flushed", "pruned", "closed", "error"}
Replied(c) == \E a \in Members(outbox) : a.type \in Reply /\ a.id = asked[c].id

\* The jobs of the call are durable; or the pass it is in has seen a death, which
\* counts for the pass; or the request for a flush is with a worker that has all
\* of them.
Saved(c) == before[c] \subseteq durable \/ Exhausted
Served(c) == Saved(c) \/ Handled >= passes[c] + 1
OnItsWay(c) ==
    /\ ~Replied(c) /\ Handled >= passes[c]
    /\ \/ worker = "dead"
       \/ worker = "up" /\ before[c] \subseteq durable \cup staged /\ InLine(asked[c], inbox)

CallOK(c) ==
    /\ passes[c] < MaxPasses /\ before[c] \subseteq accepted
    /\ cpc[c] = "idle" => passes[c] = 0
    /\ call[c] = "close" => state # "open" /\ accepted \subseteq before[c]
    /\ cpc[c] \in {"draining", "drained"} =>
          call[c] \in {"flush", "close"} /\ (Saved(c) \/ Handled >= passes[c])
    /\ cpc[c] = "drained" => queued = {} /\ inflight = {} /\ main = "loop"
    /\ cpc[c] \in {"asked", "answered"} =>
          /\ asked[c].type = "prune" => call[c] = "prune"
          /\ asked[c].type # "prune" => call[c] \in {"flush", "close"}
    /\ asked[c].type = "close" => Settled /\ state # "open"
    /\ cpc[c] = "asked" => state # "closed"
    /\ cpc[c] = "asked" /\ asked[c].type = "flush" => Served(c) \/ OnItsWay(c)
    /\ cpc[c] = "answered" /\ asked[c].type = "flush" => Served(c)
    /\ cpc[c] = "returned" /\ call[c] \in {"flush", "close"} =>
          Saved(c) \/ (call[c] = "close" /\ state = "closing")
Calls == \A c \in Caller : CallOK(c)

Delivery == BodyKept /\ Threads /\ Placed /\ Requests /\ Calls
DeliveryInv == WriterInv /\ Delivery

------------------------------------------------------------------------------
(* Messages in a channel.                                                  *)

LEMMA MembersAppend ==
    ASSUME NEW S, NEW s \in Seq(S), NEW e \in S
    PROVE  Members(Append(s, e)) = Members(s) \cup {e}
<1>1. /\ Len(Append(s, e)) = Len(s) + 1 /\ Len(s) \in Nat
      /\ \A n \in 1..Len(s) : Append(s, e)[n] = s[n]
      /\ Append(s, e)[Len(s) + 1] = e
  BY AppendProperties, LenProperties
<1> QED
  BY <1>1 DEF Members

LEMMA MembersTail ==
    ASSUME NEW S, NEW s \in Seq(S), s # <<>>
    PROVE  /\ Head(s) \in Members(s) /\ Members(Tail(s)) \subseteq Members(s)
           /\ \A m \in Members(s) : m \in Members(Tail(s)) \/ m = Head(s)
<1>1. /\ Len(s) \in Nat \ {0} /\ Len(Tail(s)) = Len(s) - 1 /\ Head(s) = s[1]
      /\ \A n \in 1..Len(Tail(s)) : Tail(s)[n] = s[n + 1]
  BY HeadTailProperties, EmptySeq
<1>2. ASSUME NEW n \in 1..Len(s), n # 1 PROVE s[n] \in Members(Tail(s))
  <2>1. n - 1 \in 1..Len(Tail(s)) /\ s[n] = Tail(s)[n - 1]
    BY <1>1, <1>2
  <2> QED BY <2>1 DEF Members
<1>3. \A n \in 1..Len(Tail(s)) : n + 1 \in 1..Len(s)
  BY <1>1
<1> QED
  BY <1>1, <1>2, <1>3 DEF Members

LEMMA MembersEmpty == Members(<<>>) = {}
BY EmptySeq DEF Members

LEMMA JobsOnceAppend ==
    ASSUME NEW S, NEW s \in Seq(S), NEW e \in S, JobsOnce(s),
           e.type = "job" => \A m \in Members(s) : m.type = "job" => m.id # e.id
    PROVE  JobsOnce(Append(s, e))
<1>1. /\ Len(Append(s, e)) = Len(s) + 1 /\ Len(s) \in Nat
      /\ \A n \in 1..Len(s) : Append(s, e)[n] = s[n]
      /\ Append(s, e)[Len(s) + 1] = e
  BY AppendProperties, LenProperties
<1> QED
  BY <1>1 DEF JobsOnce, Members

LEMMA JobsOnceTail ==
    ASSUME NEW S, NEW s \in Seq(S), s # <<>>, JobsOnce(s)
    PROVE  /\ JobsOnce(Tail(s))
           /\ Head(s).type = "job" =>
                 \A m \in Members(Tail(s)) : m.type = "job" => m.id # Head(s).id
<1>1. /\ Len(s) \in Nat \ {0} /\ Len(Tail(s)) = Len(s) - 1 /\ Head(s) = s[1]
      /\ \A n \in 1..Len(Tail(s)) : Tail(s)[n] = s[n + 1]
  BY HeadTailProperties, EmptySeq
<1>2. \A n \in 1..Len(Tail(s)) : n \in Int /\ n + 1 \in 1..Len(s) /\ n + 1 # 1
  BY <1>1
<1>3. 1 \in 1..Len(s)
  BY <1>1
<1>4. JobsOnce(Tail(s))
  BY <1>1, <1>2 DEF JobsOnce
<1> QED
  BY <1>1, <1>2, <1>3, <1>4 DEF JobsOnce, Members

LEMMA InLineAppend ==
    ASSUME NEW S, NEW s \in Seq(S), NEW e \in S, NEW r
    PROVE  /\ InLine(r, s) => InLine(r, Append(s, e))
           /\ e = r /\ (\A m \in Members(s) : m.type # "job" /\ m.id # r.id)
                 => InLine(r, Append(s, e))
<1>1. /\ Len(Append(s, e)) = Len(s) + 1 /\ Len(s) \in Nat
      /\ \A n \in 1..Len(s) : Append(s, e)[n] = s[n]
      /\ Append(s, e)[Len(s) + 1] = e
  BY AppendProperties, LenProperties
<1>2. ASSUME InLine(r, s) PROVE InLine(r, Append(s, e))
  <2>1. PICK n \in 1..Len(s) :
           s[n] = r /\ \A m \in 1..(n - 1) : s[m].type # "job" /\ s[m].id # r.id
    BY <1>2 DEF InLine
  <2>2. n \in 1..Len(Append(s, e)) /\ \A m \in 1..(n - 1) : m \in 1..Len(s)
    BY <1>1
  <2> QED BY <1>1, <2>1, <2>2 DEF InLine
<1>3. ASSUME e = r, \A m \in Members(s) : m.type # "job" /\ m.id # r.id
      PROVE  InLine(r, Append(s, e))
  <2>1. Len(s) + 1 \in 1..Len(Append(s, e)) /\ 1..(Len(s) + 1 - 1) = 1..Len(s)
    BY <1>1
  <2>2. \A m \in 1..Len(s) : s[m] \in Members(s)
    BY DEF Members
  <2> QED BY <1>1, <1>3, <2>1, <2>2 DEF InLine
<1> QED
  BY <1>2, <1>3

LEMMA InLineTail ==
    ASSUME NEW S, NEW s \in Seq(S), s # <<>>, NEW r, InLine(r, s), Head(s) # r
    PROVE  InLine(r, Tail(s)) /\ Head(s).type # "job" /\ Head(s).id # r.id
<1>1. /\ Len(s) \in Nat \ {0} /\ Len(Tail(s)) = Len(s) - 1 /\ Head(s) = s[1]
      /\ \A n \in 1..Len(Tail(s)) : Tail(s)[n] = s[n + 1]
  BY HeadTailProperties, EmptySeq
<1>2. PICK n \in 1..Len(s) :
         s[n] = r /\ \A m \in 1..(n - 1) : s[m].type # "job" /\ s[m].id # r.id
  BY DEF InLine
<1>3. n # 1 /\ 1 \in 1..(n - 1) /\ n - 1 \in 1..Len(Tail(s)) /\ Tail(s)[n - 1] = r
  BY <1>1, <1>2
<1>4. \A m \in 1..(n - 1 - 1) : m + 1 \in 1..(n - 1) /\ m \in 1..Len(Tail(s))
                                /\ Tail(s)[m] = s[m + 1]
  BY <1>1
<1>5. \A m \in 1..(n - 1 - 1) : Tail(s)[m].type # "job" /\ Tail(s)[m].id # r.id
  BY <1>2, <1>4
<1>6. InLine(r, Tail(s))
  BY <1>3, <1>5 DEF InLine
<1> QED
  BY <1>1, <1>2, <1>3, <1>6

LEMMA MembersConcat ==
    ASSUME NEW S, NEW s \in Seq(S), NEW t \in Seq(S)
    PROVE  Members(s \o t) \subseteq Members(s) \cup Members(t)
<1>1. /\ Len(s \o t) = Len(s) + Len(t) /\ Len(s) \in Nat /\ Len(t) \in Nat
      /\ \A n \in 1..(Len(s) + Len(t)) : (s \o t)[n] = IF n <= Len(s) THEN s[n] ELSE t[n - Len(s)]
  BY ConcatProperties, LenProperties
<1>2. ASSUME NEW n \in 1..Len(s \o t) PROVE (s \o t)[n] \in Members(s) \cup Members(t)
  <2>1. n \in 1..(Len(s) + Len(t)) /\ n \in Int
    BY <1>1
  <2>2. CASE n <= Len(s)
    BY <1>1, <2>1, <2>2 DEF Members
  <2>3. CASE ~(n <= Len(s))
    <3>1. n - Len(s) \in 1..Len(t) /\ (s \o t)[n] = t[n - Len(s)]
      BY <1>1, <2>1, <2>3
    <3> QED BY <3>1 DEF Members
  <2> QED BY <2>2, <2>3
<1>3. ASSUME NEW x \in Members(s \o t) PROVE x \in Members(s) \cup Members(t)
  <2>1. PICK n \in 1..Len(s \o t) : x = (s \o t)[n]
    BY DEF Members
  <2> QED BY <1>2, <2>1
<1> QED
  BY <1>3

------------------------------------------------------------------------------
(* What a step has to show for the conjuncts it leaves alone.               *)

LEMMA DeliveryTypes ==
    ASSUME DeliveryInv
    PROVE  /\ inbox \in Seq(WriterRequest) /\ outbox \in Seq(WriterResponse)
           /\ crashes \in Nat /\ Handled \in Int /\ Handled <= crashes
           /\ passes \in [Caller -> Nat] /\ requestSeq \in Nat
           /\ asked \in [Caller -> ControlRequest]
           /\ \A c \in Caller : asked[c].id \in Nat /\ asked[c].type \in Call
           /\ MaxPasses \in Nat \ {0} /\ Job \subseteq Nat /\ 0 \notin Job
           /\ \A m \in Members(inbox) : m \in WriterRequest
           /\ \A a \in Members(outbox) : a \in WriterResponse
<1>1. /\ inbox \in Seq(WriterRequest) /\ outbox \in Seq(WriterResponse)
      /\ crashes \in Nat /\ passes \in [Caller -> Nat] /\ requestSeq \in Nat
      /\ asked \in [Caller -> ControlRequest]
  BY DEF DeliveryInv, WriterInv, WriterTypeOK
<1>2. Handled \in Int /\ Handled <= crashes
  BY <1>1 DEF Handled
<1>3. \A c \in Caller : asked[c].id \in Nat /\ asked[c].type \in Call
  BY <1>1 DEF ControlRequest
<1>4. Job \subseteq Nat /\ 0 \notin Job
  BY WriterAssumption DEF Job
<1>5. /\ \A m \in Members(inbox) : m \in WriterRequest
      /\ \A a \in Members(outbox) : a \in WriterResponse
  BY <1>1, ElementOfSeq DEF Members
<1> QED
  BY <1>1, <1>2, <1>3, <1>4, <1>5, WriterAssumption

\* What is durable stays so and deaths are not forgotten.
LEMMA SettledKept ==
    ASSUME DeliveryInv, durable \subseteq durable', crashes' \in Nat, crashes' >= crashes
    PROVE  /\ Exhausted => Exhausted'
           /\ accepted' = accepted => (Settled => Settled')
           /\ \A c \in Caller : before'[c] = before[c] => (Saved(c) => Saved(c)')
<1>1. Exhausted => Exhausted'
  BY DeliveryTypes DEF Exhausted
<1> QED
  BY <1>1 DEF Settled, Saved

\* A step that leaves the callers alone, but for waking those that drain, need
\* only look after their requests.
OnlyWakes ==
    \A c \in Caller :
        /\ cpc'[c] = cpc[c] \/ (cpc[c] = "draining" /\ cpc'[c] = "drained")
        /\ cpc'[c] = "drained" => queued' = {} /\ inflight' = {} /\ main' = "loop"

LEMMA CallsKept ==
    ASSUME DeliveryInv, UNCHANGED <<call, passes, asked, before, state, kind>>, OnlyWakes,
           durable \subseteq durable', crashes' \in Nat, crashes' >= crashes,
           Handled' \in Int, Handled' >= Handled,
           \A c \in Caller : cpc[c] = "asked" /\ asked[c].type = "flush" /\ OnItsWay(c) =>
               Served(c)' \/ OnItsWay(c)'
    PROVE  Calls'
<1> SUFFICES ASSUME NEW c \in Caller PROVE CallOK(c)'
  BY DEF Calls
<1>1. CallOK(c)
  BY DEF DeliveryInv, Delivery, Calls
<1>2. /\ cpc'[c] = cpc[c] \/ (cpc[c] = "draining" /\ cpc'[c] = "drained")
      /\ cpc'[c] = "drained" => queued' = {} /\ inflight' = {} /\ main' = "loop"
      /\ call' = call /\ asked' = asked /\ before' = before /\ passes' = passes
      /\ state' = state /\ accepted' = accepted
  BY DEF OnlyWakes, accepted
<1>3. (Saved(c) => Saved(c)') /\ (Settled => Settled')
  BY <1>2, SettledKept
<1>4. passes[c] \in Nat
  BY DeliveryTypes
<1>5. /\ Handled >= passes[c] => Handled' >= passes'[c]
      /\ Served(c) => Served(c)'
  BY <1>2, <1>3, <1>4, DeliveryTypes DEF Served
<1> QED
  BY <1>1, <1>2, <1>3, <1>5 DEF CallOK

\* So do the numbers of requests.
LEMMA RequestsKept ==
    ASSUME DeliveryInv, UNCHANGED <<requestSeq, asked>>,
           \A c \in Caller : cpc'[c] = "asked" => cpc[c] = "asked",
           \A m \in Members(inbox') : m.type # "job" =>
               m \in Members(inbox) \/ m.id < requestSeq,
           \A a \in Members(outbox') : a.type \in {"flushed", "pruned", "closed"} =>
               a \in Members(outbox) \/ a.id < requestSeq
    PROVE  Requests'
BY DEF DeliveryInv, Delivery, Requests

------------------------------------------------------------------------------
(* One lemma per action.                                                   *)

\* The batch, once committed: what the channels and the disk have then.
LEMMA BatchFacts ==
    ASSUME DeliveryInv, NEW batch \in SUBSET Job, NEW bodies \in SUBSET batch,
           NEW out \in Seq(TrueReport({})), FlushBatch(batch, bodies, out)
    PROVE  /\ durable' = durable \cup batch /\ full' = full \cup (bodies \ durable)
           /\ staged' = {} /\ saved' = {}
           /\ \A a \in Members(outbox') :
                 a \in Members(outbox) \/ a \in Members(out) \/ a.type = "committed"
<1>1. out \in Seq(WriterResponse) /\ outbox \in Seq(WriterResponse)
  BY ReportsKept, DeliveryTypes
<1>2. Response("committed", 0, batch) \in WriterResponse
  BY DEF Response, WriterResponse
<1> DEFINE r == Response("committed", 0, batch)
<1>3. Append(outbox, r) \in Seq(WriterResponse)
      /\ Members(Append(outbox, r)) = Members(outbox) \cup {r}
  BY <1>1, <1>2, AppendProperties, MembersAppend
<1>4. outbox' = outbox \o out \/ outbox' = Append(outbox, r) \o out
  BY DEF FlushBatch
<1>5. Members(outbox') \subseteq Members(outbox) \cup Members(out) \cup {r}
  <2> HIDE DEF r
  <2>1. CASE outbox' = outbox \o out
    BY <1>1, <2>1, MembersConcat
  <2>2. CASE outbox' = Append(outbox, r) \o out
    BY <1>1, <1>3, <2>2, MembersConcat
  <2> QED BY <1>4, <2>1, <2>2
<1>6. r.type = "committed"
  BY DEF Response
<1>7. \A a \in Members(outbox') :
         a \in Members(outbox) \/ a \in Members(out) \/ a.type = "committed"
  <2> HIDE DEF r
  <2> QED BY <1>5, <1>6
<1> QED
  BY <1>7 DEF FlushBatch

LEMMA WorkerInitDelivers ==
    ASSUME DeliveryInv, WorkerInit
    PROVE  Delivery'
<1>1. /\ UNCHANGED mainVars /\ UNCHANGED callVars
      /\ UNCHANGED <<inbox, staged, saved, durable, full, crashes, owed>>
      /\ worker = "booting" /\ worker' \in {"up", "coreless"}
  BY DEF WorkerInit, diskVars
<1>2. ~ready /\ inbox = <<>> /\ outbox = <<>> /\ state # "closed" /\ ~respawn
  BY <1>1 DEF DeliveryInv, Delivery, Threads
<1>3. \/ worker' = "up" /\ outbox' = Append(outbox, Response("ready", 0, {}))
      \/ worker' = "coreless" /\ outbox' = Append(outbox, Response("error", 0, {}))
  BY DEF WorkerInit
<1>4. /\ Members(inbox) = {} /\ Members(outbox) = {}
      /\ \A a \in Members(outbox') :
            \/ a = Response("ready", 0, {}) /\ worker' = "up"
            \/ a = Response("error", 0, {})
  <2>1. Members(inbox) = {} /\ Members(outbox) = {}
    BY <1>2, MembersEmpty
  <2>2. Response("ready", 0, {}) \in WriterResponse /\ Response("error", 0, {}) \in WriterResponse
    BY DEF Response, WriterResponse
  <2>3. /\ Members(Append(outbox, Response("ready", 0, {}))) = {Response("ready", 0, {})}
        /\ Members(Append(outbox, Response("error", 0, {}))) = {Response("error", 0, {})}
    BY <2>1, <2>2, DeliveryTypes, MembersAppend
  <2> QED BY <1>3, <2>1, <2>3
<1>5. BodyKept'
  BY <1>1 DEF DeliveryInv, Delivery, BodyKept, mainVars
<1>6. Threads'
  <2>1. Members(inbox') = {}
    BY <1>1, <1>4
  <2>2. \A a \in Members(outbox') : worker' = "coreless" => a.type # "ready"
    BY <1>3, <1>4 DEF Response
  <2>3. ~ready' /\ state' # "closed" /\ ~respawn' /\ main' = main /\ main = "loop"
    BY <1>1, <1>2 DEF mainVars, DeliveryInv, Delivery, Threads
  <2>4. inbox' = <<>> /\ \A a \in Members(outbox') : a.type # "written"
    BY <1>1, <1>2, <1>4 DEF Response
  <2> QED BY <1>1, <2>1, <2>2, <2>3, <2>4 DEF Threads
<1>7. Placed'
  BY <1>1, <1>2, <1>4 DEF DeliveryInv, Delivery, Placed, mainVars, Response, accepted
<1>8. Requests'
  BY <1>1, <1>4, RequestsKept DEF mainVars, callVars, Response
<1>9. Calls'
  <2>1. Handled' \in Int /\ Handled' >= Handled /\ crashes' \in Nat /\ crashes' >= crashes
    BY <1>1, DeliveryTypes DEF Handled
  <2>2. \A c \in Caller : ~OnItsWay(c)
    BY <1>1 DEF OnItsWay
  <2>3. OnlyWakes
    BY <1>1 DEF OnlyWakes, DeliveryInv, Delivery, Calls, CallOK, mainVars, callVars
  <2> QED BY <1>1, <2>1, <2>2, <2>3, CallsKept DEF mainVars, callVars
<1> QED
  BY <1>5, <1>6, <1>7, <1>8, <1>9 DEF Delivery

\* A step of a living worker: it takes at most one message, answers it, and puts
\* what it staged into the index or keeps it.
Answers(answer) ==
    \A a \in Members(outbox') :
        \/ a \in Members(outbox)
        \/ a.type = "committed"
        \/ /\ a = answer /\ inbox # <<>> /\ inbox' = Tail(inbox)
           /\ a.id = Head(inbox).id
           /\ \/ /\ Head(inbox).type = "job" /\ a.type \in {"written", "error"}
                 /\ a.type = "written" => a.id \in staged' \cup durable'
              \/ Head(inbox).type # "job" /\ a.type \in {"flushed", "pruned", "closed"}
LiveStep(answer) ==
    /\ UNCHANGED mainVars /\ UNCHANGED callVars /\ crashes' = crashes
    /\ worker \in {"up", "coreless"} /\ worker' \in {worker, "coreless"}
    /\ inbox' = inbox \/ (inbox # <<>> /\ inbox' = Tail(inbox))
    /\ durable \subseteq durable' /\ staged' \cup durable' \subseteq accepted
    /\ staged \cup durable \subseteq staged' \cup durable'
    /\ worker = "up" /\ worker' = "coreless" => Settled' /\ state # "open"
    /\ inbox' # inbox /\ worker = "up" /\ Head(inbox).type = "flush" => staged \subseteq durable'
    /\ Answers(answer)

LEMMA LiveStepDelivers ==
    ASSUME DeliveryInv, NEW answer, LiveStep(answer)
    PROVE  Threads' /\ Placed' /\ Requests' /\ Calls'
<1> USE DeliveryTypes DEF LiveStep, Answers
<1>1. /\ Threads /\ Placed /\ Requests /\ Calls
      /\ accepted' = accepted /\ state' = state /\ ready' = ready /\ respawn' = respawn
      /\ main' = main /\ queued' = queued /\ inflight' = inflight
      /\ uncommitted' = uncommitted /\ requestSeq' = requestSeq
      /\ cpc' = cpc /\ asked' = asked /\ before' = before /\ passes' = passes
  BY DEF DeliveryInv, Delivery, mainVars, callVars, accepted
<1>2. /\ Members(inbox') \subseteq Members(inbox)
      /\ inbox # <<>> /\ inbox' = Tail(inbox) => Head(inbox) \in Members(inbox)
      /\ JobsOnce(inbox')
      /\ inbox # <<>> /\ inbox' = Tail(inbox) /\ Head(inbox).type = "job" =>
            \A m \in Members(inbox') : m.type = "job" => m.id # Head(inbox).id
  BY <1>1, MembersTail, JobsOnceTail DEF Placed
<1>3. Settled => Settled'
  BY <1>1, SettledKept
<1>4. Threads'
  <2>1. state # "closed" /\ ~respawn
    BY <1>1 DEF Threads
  <2>2. \A a \in Members(outbox') : a.type = "ready" => a \in Members(outbox)
    OBVIOUS
  <2>3. worker' = "coreless" =>
          \/ Settled' /\ state' # "open"
          \/ ~ready' /\ \A a \in Members(outbox') : a.type # "ready"
    BY <1>1, <1>3, <2>2 DEF Threads
  <2> QED BY <1>1, <1>2, <1>3, <2>1, <2>3 DEF Threads
<1>5. Placed'
  <2>1. \A a \in Members(outbox') : a.type \in {"written", "error"} =>
           \/ a \in Members(outbox)
           \/ /\ a = answer /\ inbox # <<>> /\ inbox' = Tail(inbox)
              /\ a.id = Head(inbox).id /\ Head(inbox).type = "job"
              /\ a.type = "written" => a.id \in staged' \cup durable'
              /\ a.id \in inflight \ queued
              /\ \A b \in Members(outbox) : b.type \in {"written", "error"} => b.id # a.id
    BY <1>1, <1>2 DEF Placed
  <2>2. ASSUME NEW m \in Members(inbox'), m.type = "job"
        PROVE  /\ m.id \in inflight' \ queued'
               /\ \A a \in Members(outbox') : a.type \in {"written", "error"} => a.id # m.id
    BY <1>1, <1>2, <2>1, <2>2 DEF Placed
  <2>3. ASSUME NEW a \in Members(outbox')
        PROVE  /\ a.type = "written" => /\ a.id \in accepted' \ queued'
                                        /\ worker' # "dead" => a.id \in staged' \cup durable'
               /\ a.type = "error" => a.id = 0 \/ a.id \in inflight' \ queued'
               /\ \A b \in Members(outbox') :
                     a.type = "written" /\ b.type = "error" => a.id # b.id
    <3>1. a.type = "written" => /\ a.id \in accepted' \ queued' /\ a.id \in staged' \cup durable'
      BY <1>1, <2>1 DEF Placed
    <3>2. a.type = "error" => a.id = 0 \/ a.id \in inflight' \ queued'
      BY <1>1, <2>1 DEF Placed
    <3>3. \A b \in Members(outbox') : a.type = "written" /\ b.type = "error" => a.id # b.id
      BY <1>1, <2>1 DEF Placed
    <3> QED BY <3>1, <3>2, <3>3
  <2>4. /\ queued' \cup inflight' \cup staged' \cup durable' \subseteq accepted'
        /\ worker' # "dead" /\ state' # "closed" =>
              uncommitted' \subseteq queued' \cup inflight' \cup staged' \cup durable'
        /\ ~ready' /\ state' # "closed" => uncommitted' \subseteq queued'
    BY <1>1 DEF Placed
  <2> QED BY <1>2, <2>2, <2>3, <2>4 DEF Placed
<1>6. Requests'
  <2>1. \A a \in Members(outbox') : a.type \in {"flushed", "pruned", "closed"} =>
           a \in Members(outbox) \/ a.id < requestSeq
    BY <1>1, <1>2 DEF Requests
  <2> QED BY <1>1, <1>2, <2>1, RequestsKept
<1>7. ASSUME NEW c \in Caller, cpc[c] = "asked", asked[c].type = "flush", OnItsWay(c)
      PROVE  Served(c)' \/ OnItsWay(c)'
  <2>1. /\ ~Replied(c) /\ Handled >= passes[c] /\ worker = "up"
        /\ before[c] \subseteq durable \cup staged /\ InLine(asked[c], inbox)
    BY <1>7 DEF OnItsWay
  <2>2. Handled' = Handled
    BY <2>1 DEF Handled
  <2>3. CASE worker' = "coreless"
    <3>1. Settled' /\ before[c] \subseteq accepted
      BY <1>1, <2>1, <2>3 DEF Calls, CallOK
    <3> QED BY <1>1, <3>1 DEF Settled, Served, Saved
  <2>4. CASE inbox' # inbox /\ Head(inbox) = asked[c]
    <3>1. before'[c] \subseteq durable'
      BY <1>1, <1>7, <2>1, <2>4
    <3> QED BY <3>1 DEF Served, Saved
  <2>5. CASE worker' = "up" /\ ~(inbox' # inbox /\ Head(inbox) = asked[c])
    <3>1. InLine(asked[c], inbox') /\ (inbox' # inbox => Head(inbox).id # asked[c].id)
      BY <2>1, <2>5, InLineTail
    <3>2. ASSUME Replied(c)' PROVE FALSE
      <4>1. PICK a \in Members(outbox') : a.type \in Reply /\ a.id = asked[c].id
        BY <1>1, <3>2 DEF Replied
      <4>2. a \notin Members(outbox)
        BY <2>1, <4>1 DEF Replied
      <4>3. inbox # <<>> /\ inbox' = Tail(inbox) /\ a.id = Head(inbox).id
        BY <4>1, <4>2 DEF Reply
      <4>4. Tail(inbox) # inbox
        <5>1. Len(Tail(inbox)) = Len(inbox) - 1 /\ Len(inbox) \in Nat
          BY <4>3, HeadTailProperties, LenProperties
        <5>2. Len(inbox) - 1 # Len(inbox)
          BY <5>1
        <5>3. Len(Tail(inbox)) # Len(inbox)
          BY <5>1, <5>2
        <5> QED BY <5>3, Zenon
      <4> QED BY <3>1, <4>1, <4>3, <4>4
    <3> QED BY <1>1, <2>1, <2>2, <2>5, <3>1, <3>2 DEF OnItsWay
  <2> QED BY <2>3, <2>4, <2>5
<1>8. Calls'
  <2>1. Handled' = Handled
    BY DEF Handled
  <2>2. OnlyWakes
    BY <1>1 DEF OnlyWakes, Calls, CallOK
  <2> QED BY <1>1, <1>7, <2>1, <2>2, CallsKept DEF mainVars, callVars
<1> QED
  BY <1>4, <1>5, <1>6, <1>8

\* The answer to the message taken is one of the messages of a living worker.
LEMMA AnswerMembers ==
    ASSUME DeliveryInv,
           NEW type \in {"ready", "written", "flushed", "pruned", "closed", "error"},
           NEW id \in Nat
    PROVE  /\ Response(type, id, {}) \in WriterResponse
           /\ <<Response(type, id, {})>> \in Seq(TrueReport({}))
           /\ Members(<<Response(type, id, {})>>) = {Response(type, id, {})}
           /\ Members(Append(outbox, Response(type, id, {})))
                 = Members(outbox) \cup {Response(type, id, {})}
<1> DEFINE r == Response(type, id, {})
<1>1. r \in WriterResponse
  BY DEF Response, WriterResponse
<1>2. <<r>> \in Seq(TrueReport({}))
  BY AnswerFacts DEF DeliveryInv
<1>3. Len(<<r>>) = 1 /\ <<r>>[1] = r
  OBVIOUS
<1>4. Members(<<r>>) = {r}
  BY <1>3 DEF Members
<1>5. Members(Append(outbox, r)) = Members(outbox) \cup {r}
  BY <1>1, DeliveryTypes, MembersAppend
<1> QED
  BY <1>1, <1>2, <1>4, <1>5

LEMMA ApplyDelivers ==
    ASSUME DeliveryInv, Apply
    PROVE  Delivery'
<1> DEFINE j == Head(inbox).id
           batch == staged \cup {j}
           written == Response("written", j, {})
<1>1. /\ j \in Job /\ j \in Nat /\ Head(inbox) \in Members(inbox) /\ Head(inbox).type = "job"
      /\ inbox # <<>> /\ inbox' = Tail(inbox) /\ worker = "up" /\ worker' = worker
      /\ UNCHANGED mainVars /\ UNCHANGED callVars /\ crashes' = crashes
      /\ staged \subseteq Job /\ saved \subseteq staged /\ durable \subseteq Job
  BY TakeFacts, MembersTail, DeliveryTypes DEF Apply, Take, DeliveryInv, WriterInv, WriterTypeOK
<1>2. /\ j \in inflight \ queued /\ staged \cup durable \cup inflight \subseteq accepted
      /\ accepted' = accepted
  BY <1>1 DEF DeliveryInv, Delivery, Placed, mainVars, accepted
<1>3. PICK bodies \in SUBSET batch :
         /\ saved \subseteq bodies
         /\ owed' = IF Head(inbox).body /\ j \notin bodies THEN owed \ ({j} \ full) ELSE owed
         /\ \/ FlushBatch(batch, bodies, <<written>>)
            \/ /\ staged' = batch /\ saved' = bodies
               /\ outbox' = Append(outbox, written)
               /\ UNCHANGED diskVars
  BY <1>1 DEF Apply
<1>4. /\ written \in WriterResponse /\ <<written>> \in Seq(TrueReport({}))
      /\ Members(<<written>>) = {written}
      /\ Members(Append(outbox, written)) = Members(outbox) \cup {written}
  BY <1>1, AnswerMembers
<1>5. /\ durable \subseteq durable' /\ durable' \subseteq durable \cup batch
      /\ staged' \cup durable' = staged \cup durable \cup {j}
      /\ \/ durable' = durable \cup batch /\ full' = full \cup (bodies \ durable) /\ staged' = {}
         \/ durable' = durable /\ full' = full /\ staged' = batch /\ saved' = bodies
      /\ \A a \in Members(outbox') :
            a \in Members(outbox) \/ a.type = "committed" \/ a = written
  <2>1. CASE FlushBatch(batch, bodies, <<written>>)
    <3>1. batch \in SUBSET Job
      BY <1>1
    <3> HIDE DEF batch, written
    <3>2. /\ durable' = durable \cup batch /\ full' = full \cup (bodies \ durable)
          /\ staged' = {} /\ saved' = {}
          /\ \A a \in Members(outbox') :
                a \in Members(outbox) \/ a \in Members(<<written>>) \/ a.type = "committed"
      BY <2>1, <3>1, <1>4, BatchFacts
    <3> QED BY <3>2, <1>4 DEF batch
  <2>2. CASE /\ staged' = batch /\ saved' = bodies
             /\ outbox' = Append(outbox, written) /\ UNCHANGED diskVars
    BY <2>2, <1>4 DEF diskVars
  <2> QED BY <1>3, <2>1, <2>2
<1>6. written.type = "written" /\ written.id = j
  BY DEF Response
<1>7. Threads' /\ Placed' /\ Requests' /\ Calls'
  <2>1. Answers(written)
    BY <1>1, <1>5, <1>6 DEF Answers
  <2>2. staged' \cup durable' \subseteq accepted /\ staged \cup durable \subseteq staged' \cup durable'
    BY <1>2, <1>5
  <2> HIDE DEF written, j, batch
  <2>3. crashes' = crashes /\ worker \in {"up", "coreless"}
    BY <1>1
  <2> QED BY <1>1, <1>5, <2>1, <2>2, <2>3, LiveStepDelivers DEF LiveStep
<1>8. BodyKept'
  <2>1. kind' = kind /\ body' = body /\ queued' = queued /\ owed' \subseteq owed
    BY <1>1, <1>3 DEF mainVars
  <2>2. Members(inbox') \subseteq Members(inbox)
    BY <1>1, MembersTail, DeliveryTypes
  <2>3. BodyKept
    BY DEF DeliveryInv, Delivery
  <2>4. ASSUME NEW i \in owed' \ full'
        PROVE  i \in owed \ full /\ i \notin durable' /\ (i \in staged' => i \in saved')
    <3>1. i \in owed \ full
      BY <2>1, <1>5
    <3>2. i \notin durable /\ (i \in staged => i \in saved)
          /\ \A m \in Members(inbox) : m.type = "job" /\ m.id = i => m.body
      BY <3>1, <2>3 DEF BodyKept
    <3>3. i \in batch => i \in bodies
      BY <3>1, <3>2, <1>1, <1>3
    <3> QED BY <3>1, <3>2, <3>3, <1>5
  <2> QED BY <2>1, <2>2, <2>3, <2>4 DEF BodyKept
<1> QED
  BY <1>7, <1>8 DEF Delivery

LEMMA ApplyThrowsDelivers ==
    ASSUME DeliveryInv, ApplyThrows
    PROVE  Delivery'
<1> DEFINE j == Head(inbox).id
           failed == Response("error", j, {})
<1>1. /\ j \in Job /\ j \in Nat /\ Head(inbox) \in Members(inbox) /\ Head(inbox).type = "job"
      /\ inbox # <<>> /\ inbox' = Tail(inbox) /\ worker = "up" /\ worker' = worker
      /\ UNCHANGED mainVars /\ UNCHANGED callVars
      /\ UNCHANGED <<durable, full, crashes, owed>>
      /\ saved \subseteq staged /\ outbox' = Append(outbox, failed)
  BY TakeFacts, MembersTail, DeliveryTypes
     DEF ApplyThrows, Take, diskVars, DeliveryInv, WriterInv, WriterTypeOK
<1>2. /\ j \in inflight \ queued /\ staged \cup durable \cup inflight \subseteq accepted
  BY <1>1 DEF DeliveryInv, Delivery, Placed
<1>3. /\ staged \subseteq staged' /\ staged' \subseteq staged \cup {j} /\ saved \subseteq saved'
      /\ j \in staged' => j \in staged \/ (Head(inbox).body => j \in saved')
  BY DEF ApplyThrows
<1>4. Members(outbox') = Members(outbox) \cup {failed} /\ failed.type = "error" /\ failed.id = j
  BY <1>1, AnswerMembers DEF Response
<1>5. Threads' /\ Placed' /\ Requests' /\ Calls'
  <2>1. Answers(failed)
    BY <1>1, <1>4 DEF Answers
  <2>2. /\ staged' \cup durable' \subseteq accepted /\ durable \subseteq durable'
        /\ staged \cup durable \subseteq staged' \cup durable'
    BY <1>1, <1>2, <1>3
  <2>3. /\ crashes' = crashes /\ worker \in {"up", "coreless"} /\ worker' \in {worker, "coreless"}
        /\ worker' # "coreless" /\ Head(inbox).type # "flush"
    BY <1>1
  <2> HIDE DEF failed, j
  <2> QED BY <1>1, <2>1, <2>2, <2>3, LiveStepDelivers DEF LiveStep
<1>6. BodyKept'
  <2>1. /\ kind' = kind /\ body' = body /\ queued' = queued /\ owed' = owed /\ full' = full
        /\ durable' = durable
    BY <1>1 DEF mainVars
  <2>2. Members(inbox') \subseteq Members(inbox)
    BY <1>1, MembersTail, DeliveryTypes
  <2>3. BodyKept
    BY DEF DeliveryInv, Delivery
  <2>4. ASSUME NEW i \in owed \ full, i \in staged' PROVE i \in saved'
    BY <2>3, <2>4, <1>1, <1>3 DEF BodyKept
  <2> QED BY <2>1, <2>2, <2>3, <2>4 DEF BodyKept
<1> QED
  BY <1>5, <1>6 DEF Delivery

\* A message answered without touching the batch.
LEMMA AnswerDelivers ==
    ASSUME DeliveryInv, JobBeforeInit \/ AnswerCoreless \/ WorkerPrune
    PROVE  Delivery'
<1>1. /\ Head(inbox).id \in Nat /\ Head(inbox) \in Members(inbox)
      /\ inbox # <<>> /\ inbox' = Tail(inbox) /\ worker \in {"up", "coreless"}
      /\ UNCHANGED mainVars /\ UNCHANGED callVars
      /\ UNCHANGED <<worker, staged, saved, durable, crashes>>
      /\ worker = "up" => Head(inbox).type = "prune"
      /\ full' \subseteq full /\ owed' \subseteq owed /\ owed' \ full' \subseteq owed \ full
  BY TakeFacts, MembersTail, DeliveryTypes
     DEF JobBeforeInit, AnswerCoreless, WorkerPrune, Take, diskVars, historyVars
<1>2. PICK type \in {"flushed", "pruned", "closed", "error"} :
         /\ outbox' = Append(outbox, Response(type, Head(inbox).id, {}))
         /\ type = "error" <=> Head(inbox).type = "job"
  BY DEF JobBeforeInit, AnswerCoreless, WorkerPrune, Take
<1> DEFINE r == Response(type, Head(inbox).id, {})
<1>3. Members(outbox') = Members(outbox) \cup {r} /\ r.type = type /\ r.id = Head(inbox).id
  BY <1>1, <1>2, AnswerMembers DEF Response
<1>4. staged \cup durable \subseteq accepted
  BY DEF DeliveryInv, Delivery, Placed
<1>5. Threads' /\ Placed' /\ Requests' /\ Calls'
  <2>1. Answers(r)
    BY <1>1, <1>2, <1>3 DEF Answers
  <2>2. worker = "up" => Head(inbox).type # "flush"
    BY <1>1
  <2>3. staged' \cup durable' \subseteq accepted /\ staged \cup durable \subseteq staged' \cup durable'
        /\ durable \subseteq durable'
    BY <1>1, <1>4
  <2>4. /\ crashes' = crashes /\ worker' \in {worker, "coreless"}
        /\ ~(worker = "up" /\ worker' = "coreless")
    BY <1>1
  <2> HIDE DEF r
  <2> QED BY <1>1, <2>1, <2>2, <2>3, <2>4, LiveStepDelivers DEF LiveStep
<1>6. BodyKept'
  <2>1. kind' = kind /\ body' = body /\ queued' = queued
    BY <1>1 DEF mainVars
  <2>2. Members(inbox') \subseteq Members(inbox)
    BY <1>1, MembersTail, DeliveryTypes
  <2> QED BY <1>1, <2>1, <2>2 DEF BodyKept, DeliveryInv, Delivery
<1> QED
  BY <1>5, <1>6 DEF Delivery

\* The batch is committed on request, at the close or by the timer.
LEMMA BatchDelivers ==
    ASSUME DeliveryInv, worker = "up", worker' \in {worker, "coreless"},
           UNCHANGED mainVars, UNCHANGED callVars, crashes' = crashes, owed' = owed,
           inbox' = inbox \/ (inbox # <<>> /\ inbox' = Tail(inbox)),
           worker' = "coreless" => inbox # <<>> /\ Head(inbox).type = "close",
           NEW answer, NEW out \in Seq(TrueReport({})), FlushBatch(staged, saved, out),
           \A a \in Members(out) :
               /\ a = answer /\ inbox # <<>> /\ inbox' = Tail(inbox)
               /\ a.id = Head(inbox).id /\ a.type \in {"flushed", "closed"}
               /\ Head(inbox).type # "job"
    PROVE  Delivery'
<1>1. staged \in SUBSET Job /\ saved \in SUBSET staged
  BY DEF DeliveryInv, WriterInv, WriterTypeOK
<1>3. /\ durable' = durable \cup staged /\ full' = full \cup (saved \ durable)
      /\ staged' = {} /\ saved' = {}
      /\ \A a \in Members(outbox') :
            a \in Members(outbox) \/ a \in Members(out) \/ a.type = "committed"
  BY <1>1, BatchFacts
<1>4. staged \cup durable \subseteq accepted
  BY DEF DeliveryInv, Delivery, Placed
<1>5. worker' = "coreless" => Settled' /\ state # "open"
  <2>1. worker' = "coreless" => Settled /\ state # "open"
    BY MembersTail, DeliveryTypes DEF DeliveryInv, Delivery, Threads
  <2>2. Settled => Settled'
    <3>1. accepted' = accepted /\ durable \subseteq durable' /\ crashes' = crashes
      BY <1>3 DEF mainVars, accepted
    <3> QED BY <3>1 DEF Settled, Exhausted
  <2> QED BY <2>1, <2>2
<1>6. Threads' /\ Placed' /\ Requests' /\ Calls'
  <2>1. Answers(answer)
    BY <1>3 DEF Answers
  <2>2. staged' \cup durable' \subseteq accepted /\ staged \cup durable \subseteq staged' \cup durable'
        /\ durable \subseteq durable' /\ staged \subseteq durable'
    BY <1>3, <1>4
  <2> QED BY <1>1, <1>5, <2>1, <2>2, LiveStepDelivers DEF LiveStep
<1>7. BodyKept'
  <2>1. kind' = kind /\ body' = body /\ queued' = queued /\ owed' = owed
    BY <1>1 DEF mainVars
  <2>2. Members(inbox') \subseteq Members(inbox)
    BY <1>1, MembersTail, DeliveryTypes
  <2>3. BodyKept
    BY DEF DeliveryInv, Delivery
  <2>4. ASSUME NEW i \in owed \ full'
        PROVE  i \in owed \ full /\ i \notin durable'
    BY <1>3, <2>3 DEF BodyKept
  <2> QED BY <1>3, <2>1, <2>2, <2>3, <2>4 DEF BodyKept
<1> QED
  BY <1>6, <1>7 DEF Delivery

LEMMA CommitDelivers ==
    ASSUME DeliveryInv, WorkerFlush \/ WorkerClose \/ FlushTimer
    PROVE  Delivery'
<1>1. CASE WorkerFlush
  <2> DEFINE r == Response("flushed", Head(inbox).id, {})
  <2>1. /\ worker = "up" /\ worker' = worker /\ inbox # <<>> /\ inbox' = Tail(inbox)
        /\ UNCHANGED mainVars /\ UNCHANGED callVars /\ crashes' = crashes /\ owed' = owed
        /\ Head(inbox).type = "flush" /\ Head(inbox).id \in Nat
        /\ FlushBatch(staged, saved, <<r>>)
    BY <1>1, TakeFacts, DeliveryTypes DEF WorkerFlush, Take, historyVars
  <2>2. <<r>> \in Seq(TrueReport({})) /\ Members(<<r>>) = {r}
    BY <2>1, AnswerMembers
  <2>3. r.type = "flushed" /\ r.id = Head(inbox).id
    BY DEF Response
  <2> HIDE DEF r
  <2> QED BY <2>1, <2>2, <2>3, BatchDelivers
<1>2. CASE WorkerClose
  <2> DEFINE r == Response("closed", Head(inbox).id, {})
  <2>1. /\ worker = "up" /\ worker' = "coreless" /\ inbox # <<>> /\ inbox' = Tail(inbox)
        /\ UNCHANGED mainVars /\ UNCHANGED callVars /\ crashes' = crashes /\ owed' = owed
        /\ Head(inbox).type = "close" /\ Head(inbox).id \in Nat
        /\ FlushBatch(staged, saved, <<r>>)
    BY <1>2, TakeFacts, DeliveryTypes DEF WorkerClose, Take, historyVars
  <2>2. <<r>> \in Seq(TrueReport({})) /\ Members(<<r>>) = {r}
    BY <2>1, AnswerMembers
  <2>3. r.type = "closed" /\ r.id = Head(inbox).id
    BY DEF Response
  <2> HIDE DEF r
  <2> QED BY <2>1, <2>2, <2>3, BatchDelivers
<1>3. CASE FlushTimer
  <2>1. <<>> \in Seq(TrueReport({})) /\ Members(<<>>) = {}
    BY MembersEmpty, EmptySeq
  <2> QED BY <1>3, <2>1, BatchDelivers DEF FlushTimer, historyVars
<1> QED
  BY <1>1, <1>2, <1>3

LEMMA DieDelivers ==
    ASSUME DeliveryInv, Die
    PROVE  Delivery'
<1>1. /\ UNCHANGED mainVars /\ UNCHANGED callVars
      /\ UNCHANGED <<outbox, durable, full, owed>>
      /\ crashes' = crashes + 1 /\ worker' = "dead" /\ worker # "dead"
      /\ worker \in {"booting", "up", "coreless"}
      /\ inbox' = <<>> /\ staged' = {} /\ saved' = {}
  BY DEF Die, diskVars
<1>2. /\ Members(inbox') = {} /\ accepted' = accepted /\ state' = state /\ JobsOnce(inbox')
  BY <1>1, MembersEmpty, EmptySeq DEF accepted, mainVars, JobsOnce
<1>3. BodyKept'
  BY <1>1, <1>2 DEF BodyKept, DeliveryInv, Delivery, mainVars
<1>4. crashes' \in Nat /\ crashes' >= 1 /\ crashes' >= crashes
      /\ Handled' = Handled /\ Handled' \in Int
  BY <1>1, DeliveryTypes DEF Handled
<1>5. Threads'
  <2>1. Settled => Settled'
    BY <1>1, <1>2, <1>4, SettledKept
  <2> QED BY <1>1, <1>2, <1>4, <2>1 DEF Threads, DeliveryInv, Delivery, mainVars
<1>6. Placed'
  BY <1>1, <1>2 DEF Placed, DeliveryInv, Delivery, mainVars
<1>7. Requests'
  BY <1>1, <1>2, RequestsKept DEF mainVars, callVars
<1>8. Calls'
  <2>1. ASSUME NEW c \in Caller, OnItsWay(c) PROVE OnItsWay(c)'
    BY <2>1, <1>1, <1>4 DEF OnItsWay, Replied, callVars
  <2>2. OnlyWakes
    BY <1>1 DEF OnlyWakes, DeliveryInv, Delivery, Calls, CallOK, mainVars, callVars
  <2>3. Handled' >= Handled /\ UNCHANGED <<state, kind>> /\ durable \subseteq durable'
    BY <1>1, <1>4, DeliveryTypes DEF mainVars
  <2> QED BY <1>1, <1>4, <2>1, <2>2, <2>3, CallsKept DEF callVars
<1> QED
  BY <1>3, <1>5, <1>6, <1>7, <1>8 DEF Delivery

------------------------------------------------------------------------------
(* The main thread.                                                        *)

\* What #pump() and #checkDrained do to the callers.
LEMMA PumpingCaller ==
    ASSUME cpc \in [Caller -> CallState], Pumping(cpc, queued', inflight'),
           \A c \in Caller : cpc[c] # "drained"
    PROVE  /\ OnlyWakes
           /\ queued' # {} \/ inflight' # {} => cpc' = cpc
           /\ main' \in {"pump", "loop"}
<1>1. \/ main' = "pump" /\ cpc' = cpc
      \/ main' = "loop" /\ cpc' = CheckDrained(cpc, queued', inflight')
  BY DEF Pumping
<1>2. OnlyWakes
  BY <1>1 DEF OnlyWakes, CheckDrained
<1>3. queued' # {} \/ inflight' # {} => CheckDrained(cpc, queued', inflight') = cpc
  BY DEF CheckDrained
<1> QED
  BY <1>1, <1>2, <1>3

\* No caller is to be resumed: what MainFree and a handler in progress mean.
LEMMA NoneDrained ==
    ASSUME DeliveryInv, MainFree \/ main # "loop"
    PROVE  cpc \in [Caller -> CallState] /\ \A c \in Caller : cpc[c] # "drained"
BY DEF MainFree, DeliveryInv, Delivery, Calls, CallOK, WriterInv, WriterTypeOK, CallState

LEMMA WriteDelivers ==
    ASSUME DeliveryInv, NEW j \in Job, NEW k \in KindsOf[j], Write(j, k)
    PROVE  Delivery'
<1>1. /\ MainFree /\ state = "open" /\ kind[j] = "none" /\ kind' = [kind EXCEPT ![j] = k]
      /\ queued' = queued \cup {j} /\ uncommitted' = uncommitted \cup {j}
      /\ UNCHANGED <<state, ready, inflight, requestSeq, respawn, call, passes, asked, before>>
      /\ UNCHANGED <<worker, inbox, outbox, staged, saved, durable, full, crashes>>
      /\ \/ owed' = owed /\ body' = [body EXCEPT ![j] = "none"]
         \/ owed' = owed \cup {j} /\ body' = [body EXCEPT ![j] = "held"]
  BY DEF Write, Accepting, workerVars
<1>2. /\ k # "none" /\ kind \in [Job -> Kind \cup {"none"}]
      /\ body \in [Job -> {"none", "held", "sent"}] /\ staged \subseteq Job
  BY WriterAssumption DEF Kind, DeliveryInv, WriterInv, WriterTypeOK
<1>3. accepted' = accepted \cup {j} /\ j \notin accepted
  BY <1>1, <1>2 DEF accepted
<1>4. BodyKept /\ Threads /\ Placed /\ Requests /\ Calls
  BY DEF DeliveryInv, Delivery
<1>5. cpc' = cpc /\ (main' = main \/ (ready /\ main' = "pump") \/ main' = "loop")
  <2>1. queued' # {} /\ inflight' = inflight
    BY <1>1
  <2>2. CASE ready /\ Pumping(cpc, queued', inflight)
    BY <1>1, <2>1, <2>2, NoneDrained, PumpingCaller DEF Pumping
  <2>3. CASE UNCHANGED <<main, cpc>>
    BY <2>3
  <2> QED BY <2>2, <2>3 DEF Write
<1>6. /\ j \notin queued \cup inflight \cup staged \cup durable
      /\ \A m \in Members(inbox) : m.type = "job" => m.id # j
  BY <1>3, <1>4 DEF Placed
<1>7. BodyKept'
  <2>1. ASSUME NEW i \in (owed' \ full'), i # j
        PROVE  /\ i \notin durable' /\ body'[i] # "none" /\ kind'[i] # "none"
               /\ i \in queued' => body'[i] = "held"
               /\ i \in staged' => i \in saved'
               /\ \A m \in Members(inbox') : m.type = "job" /\ m.id = i => m.body
    <3>1. i \in owed \ full /\ i \in Job
      BY <1>1, <2>1 DEF DeliveryInv, WriterInv, WriterTypeOK
    <3>2. body'[i] = body[i] /\ kind'[i] = kind[i]
      BY <1>1, <1>2, <2>1, <3>1
    <3> QED BY <1>1, <1>4, <2>1, <3>1, <3>2 DEF BodyKept
  <2>2. ASSUME j \in owed' \ full' PROVE body'[j] = "held"
    <3>1. CASE owed' = owed
      <4>1. kind[j] # "none"
        BY <1>1, <1>4, <2>2, <3>1 DEF BodyKept
      <4> QED BY <1>1, <4>1
    <3>2. CASE body' = [body EXCEPT ![j] = "held"]
      BY <1>2, <3>2
    <3> QED BY <1>1, <3>1, <3>2
  <2>3. kind'[j] # "none" /\ j \notin durable' /\ j \notin staged'
        /\ \A m \in Members(inbox') : m.type = "job" => m.id # j
    BY <1>1, <1>2, <1>6
  <2> QED BY <2>1, <2>2, <2>3 DEF BodyKept
<1>8. Threads'
  <2>1. main' # "loop" => ready'
    BY <1>1, <1>4, <1>5 DEF Threads
  <2> QED BY <1>1, <1>4, <2>1 DEF Threads
<1>9. Placed'
  <2>1. \A m \in Members(inbox) : m.type = "job" => m.id \in inflight
    BY <1>4 DEF Placed
  <2>2. \A a \in Members(outbox) : /\ a.type = "written" => a.id # j
                                   /\ a.type = "error" => a.id = 0 \/ a.id # j
    BY <1>3, <1>4, <1>6 DEF Placed
  <2> QED BY <1>1, <1>3, <1>4, <1>6, <2>1, <2>2 DEF Placed
<1>10. Requests'
  BY <1>1, <1>4, <1>5 DEF Requests
<1>11. Calls'
  <2> SUFFICES ASSUME NEW c \in Caller PROVE CallOK(c)'
    BY DEF Calls
  <2>1. CallOK(c)
    BY <1>4 DEF Calls
  <2>2. call[c] # "close" /\ asked[c].type # "close" /\ cpc[c] # "drained"
    BY <2>1, <1>1, NoneDrained DEF CallOK
  <2>3. /\ Saved(c)' <=> Saved(c)
        /\ Handled' = Handled
    BY <1>1 DEF Saved, Exhausted, Handled
  <2>4. (Served(c)' <=> Served(c)) /\ (OnItsWay(c)' <=> OnItsWay(c))
    BY <1>1, <2>3 DEF Served, OnItsWay, Replied
  <2> QED BY <1>1, <1>3, <1>5, <2>1, <2>2, <2>3, <2>4 DEF CallOK
<1> QED
  BY <1>7, <1>8, <1>9, <1>10, <1>11 DEF Delivery

\* A message posted to a worker: the members of its channel.
LEMMA PostMembers ==
    ASSUME DeliveryInv, NEW msg \in WriterRequest, Post(msg)
    PROVE  /\ \A m \in Members(inbox') : m \in Members(inbox) \/ m = msg
           /\ \A r : worker # "dead" /\ InLine(r, inbox) => InLine(r, inbox')
           /\ worker = "dead" => inbox' = inbox
           /\ worker # "dead" => inbox' = Append(inbox, msg)
<1>1. inbox \in Seq(WriterRequest)
  BY DeliveryTypes
<1>2. /\ Members(Append(inbox, msg)) = Members(inbox) \cup {msg}
      /\ \A r : InLine(r, inbox) => InLine(r, Append(inbox, msg))
  BY <1>1, MembersAppend, InLineAppend
<1> QED
  BY <1>2 DEF Post

LEMMA PumpDelivers ==
    ASSUME DeliveryInv, Pump
    PROVE  Delivery'
<1>1. PICK j \in queued :
         /\ queued' = queued \ {j} /\ inflight' = inflight \cup {j}
         /\ Post([type |-> "job", id |-> j, body |-> body[j] = "held"])
         /\ body' = [body EXCEPT ![j] = IF @ = "held" THEN "sent" ELSE @]
  BY DEF Pump
<1>2. /\ main = "pump" /\ Pumping(cpc, queued', inflight')
      /\ UNCHANGED <<state, ready, kind, uncommitted, requestSeq, respawn, call, passes, asked,
                     before, worker, outbox, staged, saved, durable, full, crashes, owed>>
  BY DEF Pump, diskVars, historyVars
<1>3. BodyKept /\ Threads /\ Placed /\ Requests /\ Calls
  BY DEF DeliveryInv, Delivery
<1>4. cpc' = cpc /\ OnlyWakes /\ main' \in {"pump", "loop"}
  BY <1>1, <1>2, NoneDrained, PumpingCaller
<1> DEFINE msg == [type |-> "job", id |-> j, body |-> body[j] = "held"]
<1>5. /\ j \in Job /\ j # 0 /\ msg \in WriterRequest /\ body \in [Job -> {"none", "held", "sent"}]
      /\ msg.type = "job" /\ msg.id = j /\ msg.body = (body[j] = "held")
  BY <1>1, DeliveryTypes DEF DeliveryInv, WriterInv, WriterTypeOK, WriterRequest, JobMessage
<1> HIDE DEF msg
<1>6. /\ \A m \in Members(inbox') : m \in Members(inbox) \/ m = msg
      /\ \A r : worker # "dead" /\ InLine(r, inbox) => InLine(r, inbox')
      /\ worker = "dead" => inbox' = inbox
      /\ worker # "dead" => inbox' = Append(inbox, msg)
  BY <1>1, <1>5, PostMembers DEF msg
<1>7. ready /\ worker \notin {"none", "booting"}
  BY <1>2, <1>3 DEF Threads
<1>8. BodyKept'
  <2>1. ASSUME NEW i \in owed \ full
        PROVE  /\ body'[i] # "none" /\ (i \in queued' => body'[i] = "held")
               /\ \A m \in Members(inbox') : m.type = "job" /\ m.id = i => m.body
    <3>1. /\ body[i] # "none" /\ (i \in queued => body[i] = "held")
          /\ \A m \in Members(inbox) : m.type = "job" /\ m.id = i => m.body
      BY <1>3 DEF BodyKept
    <3>2. i \in Job
      BY DEF DeliveryInv, WriterInv, WriterTypeOK
    <3>3. CASE i = j
      BY <1>1, <1>5, <1>6, <3>1, <3>2, <3>3
    <3>4. CASE i # j
      BY <1>1, <1>5, <1>6, <3>1, <3>2, <3>4
    <3> QED BY <3>3, <3>4
  <2> QED BY <1>2, <1>3, <2>1 DEF BodyKept
<1>9. Threads'
  BY <1>2, <1>3, <1>4, <1>5, <1>6, <1>7 DEF Threads, Settled, Exhausted, accepted
<1>10. Placed'
  <2>1. JobsOnce(inbox')
    <3>1. \A m \in Members(inbox) : m.type = "job" => m.id # j
      BY <1>1, <1>3 DEF Placed
    <3>2. JobsOnce(inbox) /\ inbox \in Seq(WriterRequest)
      BY <1>3, DeliveryTypes DEF Placed
    <3>3. JobsOnce(Append(inbox, msg))
      BY <1>5, <3>1, <3>2, JobsOnceAppend
    <3> QED BY <1>6, <3>2, <3>3
  <2>2. ASSUME NEW m \in Members(inbox'), m.type = "job"
        PROVE  /\ m.id \in inflight' \ queued'
               /\ \A a \in Members(outbox') : a.type \in {"written", "error"} => a.id # m.id
    BY <1>1, <1>2, <1>3, <1>5, <1>6, <2>2 DEF Placed
  <2>3. accepted' = accepted
    BY <1>2 DEF accepted
  <2> QED BY <1>1, <1>2, <1>3, <1>7, <2>1, <2>2, <2>3 DEF Placed
<1>11. Requests'
  BY <1>2, <1>4, <1>5, <1>6, RequestsKept
<1>12. Calls'
  <2>1. ASSUME NEW c \in Caller, OnItsWay(c) PROVE OnItsWay(c)'
    BY <2>1, <1>2, <1>6 DEF OnItsWay, Replied, Handled
  <2>2. Handled' = Handled
    BY <1>2 DEF Handled
  <2> QED BY <1>2, <1>4, <2>1, <2>2, CallsKept, DeliveryTypes
<1> QED
  BY <1>8, <1>9, <1>10, <1>11, <1>12 DEF Delivery

\* A message of the worker is taken from its channel.
LEMMA ReceiveMembers ==
    ASSUME DeliveryInv, NEW type, Receive(type)
    PROVE  /\ MainFree /\ Head(outbox) \in Members(outbox) /\ Head(outbox).type = type
           /\ Members(outbox') \subseteq Members(outbox)
           /\ outbox # <<>> /\ worker \notin {"none", "booting"} /\ state # "closed"
           /\ Head(outbox) \in WriterResponse
<1>1. outbox # <<>> /\ outbox' = Tail(outbox) /\ Head(outbox).type = type /\ MainFree
  BY DEF Receive
<1>2. worker \notin {"none", "booting"} /\ state # "closed"
  <2>1. Threads /\ ready \in BOOLEAN
    BY DEF DeliveryInv, Delivery, WriterInv, WriterTypeOK
  <2>2. worker = "none" => outbox = <<>>
    BY <2>1 DEF Threads
  <2> QED BY <1>1, <2>1, <2>2 DEF Threads
<1> QED
  BY <1>1, <1>2, MembersTail, DeliveryTypes

LEMMA OnReadyDelivers ==
    ASSUME DeliveryInv, OnReady
    PROVE  Delivery'
<1>1. /\ Receive("ready") /\ ready' = TRUE
      /\ UNCHANGED <<state, kind, body, queued, inflight, uncommitted, requestSeq, respawn,
                     call, passes, asked, before, worker, inbox, staged, saved, durable,
                     full, crashes, owed>>
  BY DEF OnReady, diskVars, historyVars
<1>2. BodyKept /\ Threads /\ Placed /\ Requests /\ Calls
  BY DEF DeliveryInv, Delivery
<1>3. /\ MainFree /\ Head(outbox) \in Members(outbox) /\ Head(outbox).type = "ready"
      /\ Members(outbox') \subseteq Members(outbox)
      /\ worker \notin {"none", "booting"} /\ state # "closed"
  BY <1>1, ReceiveMembers
<1>4. OnlyWakes
  <2>1. CASE main' = "repost" /\ cpc' = cpc
    BY <1>3, <2>1, NoneDrained DEF OnlyWakes
  <2>2. CASE Pumping(cpc, queued, inflight)
    BY <1>1, <1>3, <2>2, NoneDrained, PumpingCaller
  <2> QED BY <2>1, <2>2 DEF OnReady
<1>5. accepted' = accepted /\ Handled' = Handled /\ (Settled' <=> Settled)
  BY <1>1 DEF accepted, Handled, Settled, Exhausted
<1>6. BodyKept'
  BY <1>1, <1>2 DEF BodyKept
<1>7. Threads'
  BY <1>1, <1>2, <1>3, <1>5 DEF Threads
<1>8. Placed'
  BY <1>1, <1>2, <1>3, <1>5 DEF Placed
<1>9. Requests'
  <2>1. \A c \in Caller : cpc'[c] = "asked" => cpc[c] = "asked"
    BY <1>4 DEF OnlyWakes
  <2> QED BY <1>1, <1>3, <2>1, RequestsKept
<1>10. Calls'
  <2>1. ASSUME NEW c \in Caller, OnItsWay(c) PROVE OnItsWay(c)'
    BY <2>1, <1>1, <1>3, <1>5 DEF OnItsWay, Replied
  <2> QED BY <1>1, <1>4, <1>5, <2>1, CallsKept, DeliveryTypes
<1> QED
  BY <1>6, <1>7, <1>8, <1>9, <1>10 DEF Delivery

LEMMA OnWrittenDelivers ==
    ASSUME DeliveryInv, OnWritten
    PROVE  Delivery'
<1> DEFINE j == Head(outbox).id
<1>1. /\ Receive("written") /\ inflight' = inflight \ {j}
      /\ Pumping(cpc, queued', inflight')
      /\ UNCHANGED <<state, ready, kind, body, queued, uncommitted, requestSeq, respawn,
                     call, passes, asked, before, worker, inbox, staged, saved, durable,
                     full, crashes, owed>>
  BY DEF OnWritten, diskVars, historyVars, Pumping
<1>2. BodyKept /\ Threads /\ Placed /\ Requests /\ Calls
  BY DEF DeliveryInv, Delivery
<1>3. /\ MainFree /\ Head(outbox) \in Members(outbox) /\ Head(outbox).type = "written"
      /\ Members(outbox') \subseteq Members(outbox)
  BY <1>1, ReceiveMembers
<1>4. OnlyWakes
  BY <1>1, <1>3, NoneDrained, PumpingCaller
<1>5. accepted' = accepted /\ Handled' = Handled /\ (Settled' <=> Settled)
  BY <1>1 DEF accepted, Handled, Settled, Exhausted
<1>6. BodyKept'
  BY <1>1, <1>2 DEF BodyKept
<1>7. Threads'
  <2>1. ready
    BY <1>2, <1>3 DEF Threads
  <2> QED BY <1>1, <1>2, <1>3, <1>5, <2>1 DEF Threads
<1>8. Placed'
  <2>1. /\ worker # "dead" => j \in staged \cup durable
        /\ \A m \in Members(inbox) : m.type = "job" => m.id # j
        /\ \A a \in Members(outbox) : a.type = "error" => a.id # j
    BY <1>2, <1>3 DEF Placed
  <2>2. ready
    BY <1>2, <1>3 DEF Threads
  <2> HIDE DEF j
  <2>3. /\ JobsOnce(inbox')
        /\ queued' \cup inflight' \cup staged' \cup durable' \subseteq accepted'
        /\ worker' # "dead" /\ state' # "closed" =>
              uncommitted' \subseteq queued' \cup inflight' \cup staged' \cup durable'
    BY <1>1, <1>2, <1>5, <2>1 DEF Placed
  <2>4. \A m \in Members(inbox') : m.type = "job" =>
          /\ m.id \in inflight' \ queued'
          /\ \A a \in Members(outbox') : a.type \in {"written", "error"} => a.id # m.id
    BY <1>1, <1>2, <1>3, <2>1 DEF Placed
  <2>5. \A a \in Members(outbox') :
          /\ a.type = "written" => /\ a.id \in accepted' \ queued'
                                   /\ worker' # "dead" => a.id \in staged' \cup durable'
          /\ a.type = "error" => a.id = 0 \/ a.id \in inflight' \ queued'
          /\ \A b \in Members(outbox') :
                a.type = "written" /\ b.type = "error" => a.id # b.id
    BY <1>1, <1>2, <1>3, <1>5, <2>1 DEF Placed
  <2> QED BY <1>1, <2>2, <2>3, <2>4, <2>5 DEF Placed
<1>9. Requests'
  <2>1. \A c \in Caller : cpc'[c] = "asked" => cpc[c] = "asked"
    BY <1>4 DEF OnlyWakes
  <2> QED BY <1>1, <1>3, <2>1, RequestsKept
<1>10. Calls'
  <2>1. ASSUME NEW c \in Caller, OnItsWay(c) PROVE OnItsWay(c)'
    BY <2>1, <1>1, <1>3, <1>5 DEF OnItsWay, Replied
  <2> QED BY <1>1, <1>4, <1>5, <2>1, CallsKept, DeliveryTypes
<1> QED
  BY <1>6, <1>7, <1>8, <1>9, <1>10 DEF Delivery

LEMMA OnCommittedDelivers ==
    ASSUME DeliveryInv, OnCommitted
    PROVE  Delivery'
<1> DEFINE retired == Head(outbox).ids \cap uncommitted
<1>1. /\ Receive("committed") /\ uncommitted' = uncommitted \ retired
      /\ body' = [i \in Job |-> IF i \in retired THEN "none" ELSE body[i]]
      /\ UNCHANGED callVars
      /\ UNCHANGED <<state, ready, kind, queued, inflight, requestSeq, main, respawn,
                     worker, inbox, staged, saved, durable, full, crashes, owed>>
  BY DEF OnCommitted, diskVars, historyVars
<1>2. BodyKept /\ Threads /\ Placed /\ Requests /\ Calls /\ owed \subseteq Job
  BY DEF DeliveryInv, Delivery, WriterInv, WriterTypeOK
<1>3. /\ MainFree /\ Members(outbox') \subseteq Members(outbox)
      /\ worker \notin {"none", "booting"}
  BY <1>1, ReceiveMembers
<1>4. retired \subseteq durable
  BY <1>1, ReceiveFacts DEF DeliveryInv, WriterInv, Accounted, TrueReport
<1> HIDE DEF retired
<1>5. accepted' = accepted /\ Handled' = Handled /\ (Settled' <=> Settled)
  BY <1>1 DEF accepted, Handled, Settled, Exhausted
<1>6. BodyKept'
  <2>1. \A i \in owed \ full : body'[i] = body[i]
    BY <1>1, <1>2, <1>4 DEF BodyKept
  <2> QED BY <1>1, <1>2, <2>1 DEF BodyKept
<1>7. Threads'
  BY <1>1, <1>2, <1>3, <1>5 DEF Threads
<1>8. Placed'
  BY <1>1, <1>2, <1>3, <1>5 DEF Placed
<1>9. Requests'
  BY <1>1, <1>3, RequestsKept DEF callVars
<1>10. Calls'
  <2>1. ASSUME NEW c \in Caller, OnItsWay(c) PROVE OnItsWay(c)'
    BY <2>1, <1>1, <1>3, <1>5 DEF OnItsWay, Replied, callVars
  <2>2. OnlyWakes
    BY <1>1, <1>3, NoneDrained DEF OnlyWakes, callVars
  <2> QED BY <1>1, <1>5, <2>1, <2>2, CallsKept, DeliveryTypes DEF callVars
<1> QED
  BY <1>6, <1>7, <1>8, <1>9, <1>10 DEF Delivery

LEMMA OnReplyDelivers ==
    ASSUME DeliveryInv, OnReply
    PROVE  Delivery'
<1>1. PICK type \in Reply : Receive(type)
  BY DEF OnReply, Reply
<1>2. /\ cpc' = [c \in Caller |-> IF cpc[c] = "asked" /\ asked[c].id = Head(outbox).id
                                 THEN "answered" ELSE cpc[c]]
      /\ UNCHANGED <<state, ready, kind, body, queued, inflight, uncommitted, requestSeq,
                     main, respawn, call, passes, asked, before, worker, inbox, staged,
                     saved, durable, full, crashes, owed>>
  BY DEF OnReply, mainVars, diskVars, historyVars
<1>3. BodyKept /\ Threads /\ Placed /\ Requests /\ Calls
  BY DEF DeliveryInv, Delivery
<1>4. /\ MainFree /\ Head(outbox) \in Members(outbox) /\ Head(outbox).type \in Reply
      /\ Members(outbox') \subseteq Members(outbox)
      /\ worker \notin {"none", "booting"} /\ state # "closed"
  BY <1>1, ReceiveMembers
<1>5. /\ accepted' = accepted /\ Handled' = Handled /\ (Settled' <=> Settled)
      /\ \A c \in Caller : (Saved(c)' <=> Saved(c)) /\ (Served(c)' <=> Served(c))
  BY <1>2 DEF accepted, Handled, Settled, Exhausted, Saved, Served
<1>6. BodyKept'
  BY <1>2, <1>3 DEF BodyKept
<1>7. Threads'
  BY <1>2, <1>3, <1>4, <1>5 DEF Threads
<1>8. Placed'
  BY <1>2, <1>3, <1>4, <1>5 DEF Placed
<1>9. Requests'
  BY <1>2, <1>4, RequestsKept
<1>10. Calls'
  <2> SUFFICES ASSUME NEW c \in Caller PROVE CallOK(c)'
    BY DEF Calls
  <2>1. CallOK(c) /\ cpc[c] \notin {"drained", "answered"}
    BY <1>3, <1>4 DEF Calls, MainFree
  <2>2. \/ cpc'[c] = cpc[c]
        \/ cpc[c] = "asked" /\ cpc'[c] = "answered" /\ asked[c].id = Head(outbox).id
    BY <1>2
  <2>3. OnItsWay(c) => OnItsWay(c)'
    BY <1>2, <1>4, <1>5 DEF OnItsWay, Replied
  <2>4. asked[c].id = Head(outbox).id => ~OnItsWay(c)
    BY <1>4 DEF OnItsWay, Replied
  <2>5. CASE cpc'[c] = cpc[c]
    BY <1>2, <1>5, <2>1, <2>3, <2>5 DEF CallOK
  <2>6. CASE cpc[c] = "asked" /\ cpc'[c] = "answered" /\ asked[c].id = Head(outbox).id
    BY <1>2, <1>4, <1>5, <2>1, <2>4, <2>6 DEF CallOK
  <2> QED BY <2>2, <2>5, <2>6
<1> QED
  BY <1>6, <1>7, <1>8, <1>9, <1>10 DEF Delivery

LEMMA OnCrashDelivers ==
    ASSUME DeliveryInv, OnCrash
    PROVE  Delivery'
<1>1. /\ MainFree /\ worker = "dead" /\ state # "closed" /\ ready' = FALSE
      /\ body' = [i \in Job |-> IF i \in BodiesLost THEN "none" ELSE body[i]]
      /\ inflight' = {} /\ queued' = uncommitted /\ uncommitted' = uncommitted
      /\ owed' = owed \ (BodiesLost \ full)
      /\ worker' = "none" /\ inbox' = <<>> /\ outbox' = <<>> /\ staged' = {} /\ saved' = {}
      /\ respawn' = TRUE /\ UNCHANGED callVars
      /\ UNCHANGED <<state, kind, requestSeq, main, durable, full, crashes>>
  BY DEF OnCrash, Survivors, BodiesLost, DisposeWorker, diskVars
<1>2. /\ BodyKept /\ Threads /\ Placed /\ Requests /\ Calls
      /\ owed \subseteq Job /\ body \in [Job -> {"none", "held", "sent"}]
      /\ \A i \in Job : body[i] # "none" => i \in uncommitted
      /\ uncommitted \subseteq accepted
  BY DEF DeliveryInv, Delivery, WriterInv, WriterTypeOK, Accounted
<1>3. Members(<<>>) = {} /\ JobsOnce(<<>>)
  BY MembersEmpty, EmptySeq DEF JobsOnce
<1>4. accepted' = accepted /\ Handled' = Handled + 1 /\ Handled' = crashes
      /\ (Settled' <=> Settled)
  BY <1>1, DeliveryTypes DEF accepted, Handled, Settled, Exhausted
<1>5. BodyKept'
  <2>1. ASSUME NEW i \in owed' \ full'
        PROVE  i \in owed \ full /\ body'[i] = "held"
    <3>1. i \in owed \ full /\ i \notin BodiesLost /\ i \in Job
      BY <1>1, <1>2
    <3>2. body[i] # "none" /\ i \in uncommitted
      BY <1>2, <3>1 DEF BodyKept
    <3>3. body[i] = "held"
      BY <1>2, <3>1, <3>2 DEF BodiesLost
    <3> QED BY <1>1, <3>1, <3>3
  <2> QED BY <1>1, <1>2, <1>3, <2>1 DEF BodyKept
<1>6. Threads'
  BY <1>1, <1>3 DEF Threads, MainFree
<1>7. Placed'
  BY <1>1, <1>2, <1>3, <1>4 DEF Placed
<1>8. Requests'
  BY <1>1, <1>3, RequestsKept DEF callVars
<1>9. Calls'
  <2>1. ASSUME NEW c \in Caller, OnItsWay(c) PROVE Served(c)'
    <3>1. Handled >= passes[c] /\ passes[c] \in Nat /\ passes' = passes
      BY <2>1, <1>1, DeliveryTypes DEF OnItsWay, callVars
    <3> QED BY <1>4, <3>1, DeliveryTypes DEF Served
  <2>2. OnlyWakes
    BY <1>1, NoneDrained DEF OnlyWakes, callVars
  <2> QED BY <1>1, <1>4, <2>1, <2>2, CallsKept, DeliveryTypes DEF callVars
<1> QED
  BY <1>5, <1>6, <1>7, <1>8, <1>9 DEF Delivery

LEMMA RespawnDelivers ==
    ASSUME DeliveryInv, Respawn
    PROVE  Delivery'
<1>1. /\ MainFree /\ respawn /\ respawn' = FALSE /\ worker' \in {worker, "booting"}
      /\ UNCHANGED callVars
      /\ UNCHANGED <<state, ready, kind, body, queued, inflight, uncommitted, requestSeq,
                     main, inbox, outbox, staged, saved, durable, full, crashes, owed>>
  BY DEF Respawn, diskVars
<1>2. BodyKept /\ Threads /\ Placed /\ Requests /\ Calls
  BY DEF DeliveryInv, Delivery
<1>3. worker = "none" /\ state # "closed"
  BY <1>1, <1>2 DEF Threads
<1>4. accepted' = accepted /\ Handled' = Handled /\ (Settled' <=> Settled)
  BY <1>1, <1>3 DEF accepted, Handled, Settled, Exhausted
<1>5. BodyKept'
  BY <1>1, <1>2 DEF BodyKept
<1>6. Threads'
  BY <1>1, <1>2, <1>3, <1>4 DEF Threads, MainFree
<1>7. Placed'
  BY <1>1, <1>2, <1>3, <1>4 DEF Placed
<1>8. Requests'
  BY <1>1, RequestsKept DEF callVars
<1>9. Calls'
  <2>1. \A c \in Caller : ~OnItsWay(c)
    BY <1>3 DEF OnItsWay
  <2>2. OnlyWakes
    BY <1>1, NoneDrained DEF OnlyWakes, callVars
  <2> QED BY <1>1, <1>4, <2>1, <2>2, CallsKept, DeliveryTypes DEF callVars
<1> QED
  BY <1>5, <1>6, <1>7, <1>8, <1>9 DEF Delivery

LEMMA RepostDelivers ==
    ASSUME DeliveryInv, Repost
    PROVE  Delivery'
<1>1. PICK c \in toRepost : Post(asked[c])
  BY DEF Repost
<1>2. /\ main = "repost"
      /\ UNCHANGED <<main, cpc>> \/ Pumping(cpc, queued', inflight')
      /\ UNCHANGED <<state, ready, kind, body, queued, inflight, uncommitted, requestSeq,
                     respawn, call, passes, asked, before, worker, outbox, staged, saved,
                     durable, full, crashes, owed>>
  BY DEF Repost, Pumping, diskVars, historyVars
<1>3. /\ BodyKept /\ Threads /\ Placed /\ Requests /\ Calls /\ c \in Caller
  BY DEF DeliveryInv, Delivery, WriterInv, WriterTypeOK
<1>4. OnlyWakes /\ (main' = main \/ main' \in {"pump", "loop"})
  <2>1. CASE UNCHANGED <<main, cpc>>
    BY <1>2, <2>1, NoneDrained DEF OnlyWakes
  <2>2. CASE Pumping(cpc, queued', inflight')
    BY <1>2, <2>2, NoneDrained, PumpingCaller
  <2> QED BY <1>2, <2>1, <2>2
<1>5. /\ asked[c] \in WriterRequest /\ asked[c].type # "job" /\ asked[c].id < requestSeq
      /\ asked[c].type = "close" => Settled /\ state # "open"
  BY <1>3, DeliveryTypes DEF WriterRequest, ControlRequest, Call, Requests, Calls, CallOK
<1>6. /\ \A m \in Members(inbox') : m \in Members(inbox) \/ m = asked[c]
      /\ \A r : worker # "dead" /\ InLine(r, inbox) => InLine(r, inbox')
      /\ worker = "dead" => inbox' = inbox
      /\ worker # "dead" => inbox' = Append(inbox, asked[c])
  BY <1>1, <1>5, PostMembers
<1>7. accepted' = accepted /\ Handled' = Handled /\ (Settled' <=> Settled)
  BY <1>2 DEF accepted, Handled, Settled, Exhausted
<1>8. ready /\ worker \notin {"none", "booting"} /\ state # "closed"
  BY <1>2, <1>3 DEF Threads
<1>9. BodyKept'
  BY <1>2, <1>3, <1>5, <1>6 DEF BodyKept
<1>10. Threads'
  BY <1>2, <1>3, <1>5, <1>6, <1>7, <1>8 DEF Threads
<1>11. Placed'
  <2>1. JobsOnce(inbox')
    <3>1. JobsOnce(inbox) /\ inbox \in Seq(WriterRequest)
      BY <1>3, DeliveryTypes DEF Placed
    <3>2. JobsOnce(Append(inbox, asked[c]))
      BY <1>5, <3>1, JobsOnceAppend
    <3> QED BY <1>6, <3>1, <3>2
  <2> QED BY <1>2, <1>3, <1>5, <1>6, <1>7, <2>1 DEF Placed
<1>12. Requests'
  <2>1. \A d \in Caller : cpc'[d] = "asked" => cpc[d] = "asked"
    BY <1>4 DEF OnlyWakes
  <2> QED BY <1>2, <1>5, <1>6, <2>1, RequestsKept
<1>13. Calls'
  <2>1. ASSUME NEW d \in Caller, OnItsWay(d) PROVE OnItsWay(d)'
    BY <2>1, <1>2, <1>6, <1>7 DEF OnItsWay, Replied
  <2> QED BY <1>2, <1>4, <1>7, <2>1, CallsKept, DeliveryTypes
<1> QED
  BY <1>9, <1>10, <1>11, <1>12, <1>13 DEF Delivery

\* A control request is sent: it joins the channel of a worker that hears it.
LEMMA AskMembers ==
    ASSUME DeliveryInv, NEW c \in Caller, NEW type \in Call, Ask(c, type)
    PROVE  /\ requestSeq' = requestSeq + 1
           /\ cpc' = [cpc EXCEPT ![c] = "asked"]
           /\ asked'[c] = Request(type, requestSeq)
           /\ asked'[c].type = type /\ asked'[c].id = requestSeq /\ asked'[c].body = FALSE
           /\ \A d \in Caller : d # c => asked'[d] = asked[d]
           /\ asked'[c] \in WriterRequest
           /\ Post(asked'[c])
           /\ \A m \in Members(inbox') : m \in Members(inbox) \/ m = asked'[c]
           /\ \A r : worker # "dead" /\ InLine(r, inbox) => InLine(r, inbox')
           /\ worker = "dead" => inbox' = inbox
           /\ worker # "dead" => inbox' = Append(inbox, asked'[c])
<1>1. requestSeq \in Nat /\ asked \in [Caller -> ControlRequest]
  BY DeliveryTypes
<1>2. Request(type, requestSeq) \in WriterRequest
  BY <1>1 DEF Request, WriterRequest, ControlRequest, Call
<1>3. asked' = [asked EXCEPT ![c] = Request(type, requestSeq)]
  BY DEF Ask
<1>4. asked'[c] = Request(type, requestSeq) /\ \A d \in Caller : d # c => asked'[d] = asked[d]
  BY <1>1, <1>3
<1>5. Post(asked'[c])
  BY <1>4 DEF Ask
<1>6. asked'[c].type = type /\ asked'[c].id = requestSeq /\ asked'[c].body = FALSE
  BY <1>4 DEF Request
<1>7. requestSeq' = requestSeq + 1 /\ cpc' = [cpc EXCEPT ![c] = "asked"]
  BY DEF Ask
<1>8. /\ \A m \in Members(inbox') : m \in Members(inbox) \/ m = asked'[c]
      /\ \A r : worker # "dead" /\ InLine(r, inbox) => InLine(r, inbox')
      /\ worker = "dead" => inbox' = inbox
      /\ worker # "dead" => inbox' = Append(inbox, asked'[c])
  <2>1. asked'[c] \in WriterRequest
    BY <1>2, <1>4
  <2> DEFINE msg == asked'[c]
  <2>2. msg \in WriterRequest /\ Post(msg)
    BY <2>1, <1>5
  <2> HIDE DEF msg
  <2>3. /\ \A m \in Members(inbox') : m \in Members(inbox) \/ m = msg
        /\ \A r : worker # "dead" /\ InLine(r, inbox) => InLine(r, inbox')
        /\ worker = "dead" => inbox' = inbox
        /\ worker # "dead" => inbox' = Append(inbox, msg)
    BY <2>2, PostMembers
  <2> QED BY <2>3 DEF msg
<1> QED
  BY <1>2, <1>4, <1>5, <1>6, <1>7, <1>8

\* What a step of one caller leaves alone.
CallerStep ==
    /\ UNCHANGED <<kind, body, queued, inflight, uncommitted, main, durable, full, crashes,
                   owed>>
Elsewhere(c) ==
    /\ \A d \in Caller \ {c} :
          /\ cpc'[d] = cpc[d] /\ call'[d] = call[d] /\ passes'[d] = passes[d]
          /\ before'[d] = before[d] /\ asked'[d] = asked[d]

\* The other callers keep what they have, and the request of one of them its place.
LEMMA ElsewhereKept ==
    ASSUME DeliveryInv, NEW c \in Caller, CallerStep, Elsewhere(c),
           worker' = worker, outbox' = outbox, staged' = staged,
           state' = state \/ (state = "open" /\ state' = "closing"),
           \A r : worker # "dead" /\ InLine(r, inbox) => InLine(r, inbox')
    PROVE  \A d \in Caller \ {c} : CallOK(d)'
<1> SUFFICES ASSUME NEW d \in Caller \ {c} PROVE CallOK(d)'
  OBVIOUS
<1>1. CallOK(d)
  BY DEF DeliveryInv, Delivery, Calls
<1>2. /\ accepted' = accepted /\ Handled' = Handled /\ (Settled' <=> Settled)
      /\ (Saved(d)' <=> Saved(d)) /\ (Served(d)' <=> Served(d))
  BY DEF accepted, Handled, Settled, Exhausted, Saved, Served, CallerStep, Elsewhere
<1>3. OnItsWay(d) => OnItsWay(d)'
  BY <1>2 DEF OnItsWay, Replied, CallerStep, Elsewhere
<1>4. /\ cpc'[d] = cpc[d] /\ call'[d] = call[d] /\ passes'[d] = passes[d]
      /\ before'[d] = before[d] /\ asked'[d] = asked[d]
      /\ queued' = queued /\ inflight' = inflight /\ main' = main
  BY DEF Elsewhere, CallerStep
<1> QED
  BY <1>1, <1>2, <1>3, <1>4 DEF CallOK

\* A caller asks while the worker can be reached.
LEMMA AskDelivers ==
    ASSUME DeliveryInv, NEW c \in Caller, NEW type \in Call, Ask(c, type), CallerStep,
           UNCHANGED <<ready, respawn, worker, outbox, staged, saved, state>>, Reachable,
           type = "close" => Settled /\ state # "open",
           \A d \in Caller \ {c} :
              call'[d] = call[d] /\ passes'[d] = passes[d] /\ before'[d] = before[d]
    PROVE  /\ BodyKept' /\ Threads' /\ Placed' /\ Requests'
           /\ \A d \in Caller \ {c} : CallOK(d)'
           /\ state # "closed"
           /\ \A a \in Members(outbox) : a.type \in {"flushed", "pruned", "closed"} =>
                 a.id # requestSeq
           /\ \A m \in Members(inbox) : m.type # "job" => m.id # requestSeq
<1>1. BodyKept /\ Threads /\ Placed /\ Requests /\ Calls
  BY DEF DeliveryInv, Delivery
<1>2. /\ requestSeq' = requestSeq + 1 /\ requestSeq \in Nat
      /\ cpc' = [cpc EXCEPT ![c] = "asked"]
      /\ asked'[c].type = type /\ asked'[c].id = requestSeq
      /\ \A d \in Caller : d # c => asked'[d] = asked[d]
      /\ asked'[c] \in WriterRequest /\ type # "job"
      /\ \A m \in Members(inbox') : m \in Members(inbox) \/ m = asked'[c]
      /\ \A r : worker # "dead" /\ InLine(r, inbox) => InLine(r, inbox')
      /\ worker = "dead" => inbox' = inbox
      /\ worker # "dead" => inbox' = Append(inbox, asked'[c])
  BY AskMembers, DeliveryTypes DEF Call
<1>3. ready /\ worker \notin {"none", "booting"} /\ state # "closed"
  BY <1>1 DEF Reachable, Threads
<1>4. accepted' = accepted /\ (Settled' <=> Settled)
  BY DEF accepted, Settled, Exhausted, CallerStep
<1>5. BodyKept'
  BY <1>1, <1>2 DEF BodyKept, CallerStep
<1>6. Threads'
  BY <1>1, <1>2, <1>3, <1>4 DEF Threads, CallerStep
<1>7. Placed'
  <2>1. JobsOnce(inbox')
    <3>1. JobsOnce(inbox) /\ inbox \in Seq(WriterRequest)
      BY <1>1, DeliveryTypes DEF Placed
    <3> DEFINE msg == asked'[c]
    <3>2. msg \in WriterRequest /\ msg.type # "job"
      BY <1>2
    <3> HIDE DEF msg
    <3>3. JobsOnce(Append(inbox, msg))
      BY <3>1, <3>2, JobsOnceAppend
    <3> QED BY <1>2, <3>1, <3>3 DEF msg
  <2>2. ASSUME NEW m \in Members(inbox'), m.type = "job" PROVE m \in Members(inbox)
    BY <1>2, <2>2
  <2> QED BY <1>1, <1>4, <2>1, <2>2 DEF Placed, CallerStep
<1>8. Requests'
  <2>1. cpc \in [Caller -> CallState]
    BY DEF DeliveryInv, WriterInv, WriterTypeOK, CallState
  <2>2. \A d \in Caller : asked[d].id \in Nat
    BY DeliveryTypes
  <2>3. \A d \in Caller : asked'[d].id < requestSeq' /\ (cpc'[d] = "asked" => asked'[d].id # 0)
    BY <1>1, <1>2, <2>1, <2>2 DEF Requests
  <2>4. \A d, e \in Caller : asked'[d].id = asked'[e].id => d = e \/ asked'[d].id = 0
    BY <1>1, <1>2, <2>2 DEF Requests
  <2>5. \A m \in Members(inbox') : m.type # "job" => m.id < requestSeq'
    <3>1. \A m \in Members(inbox) : m.type # "job" => m.id \in Nat
      BY DeliveryTypes DEF WriterRequest, JobMessage, ControlRequest
    <3> QED BY <1>1, <1>2, <3>1 DEF Requests
  <2>6. \A a \in Members(outbox') : a.type \in {"flushed", "pruned", "closed"} => a.id < requestSeq'
    <3>1. \A a \in Members(outbox) : a.id \in Nat
      BY DeliveryTypes DEF WriterResponse
    <3> QED BY <1>1, <1>2, <3>1 DEF Requests
  <2>7. requestSeq' >= 1
    BY <1>2
  <2> QED BY <2>3, <2>4, <2>5, <2>6, <2>7 DEF Requests
<1>9. \A d \in Caller \ {c} : CallOK(d)'
  <2>1. cpc \in [Caller -> CallState]
    BY DEF DeliveryInv, WriterInv, WriterTypeOK, CallState
  <2>2. Elsewhere(c)
    BY <1>2, <2>1 DEF Elsewhere
  <2> QED BY <1>2, <2>2, ElsewhereKept
<1>10. /\ \A a \in Members(outbox) : a.type \in {"flushed", "pruned", "closed"} =>
             a.id # requestSeq
       /\ \A m \in Members(inbox) : m.type # "job" => m.id # requestSeq
  BY <1>1, <1>2 DEF Requests
<1> QED
  BY <1>3, <1>5, <1>6, <1>7, <1>8, <1>9, <1>10

\* A caller goes on without the worker: it drains or returns.
LEMMA GoesDelivers ==
    ASSUME DeliveryInv, NEW c \in Caller, CallerStep, Elsewhere(c),
           UNCHANGED <<ready, respawn, worker, outbox, staged, saved, asked, requestSeq, inbox>>,
           state' = state \/ (state = "open" /\ state' = "closing"),
           cpc'[c] # "asked"
    PROVE  /\ BodyKept' /\ Threads' /\ Placed' /\ Requests'
           /\ \A d \in Caller \ {c} : CallOK(d)'
<1>1. BodyKept /\ Threads /\ Placed /\ Requests /\ Calls
  BY DEF DeliveryInv, Delivery
<1>2. accepted' = accepted /\ (Settled' <=> Settled)
  BY DEF accepted, Settled, Exhausted, CallerStep
<1>3. BodyKept'
  BY <1>1 DEF BodyKept, CallerStep
<1>4. Threads'
  BY <1>1, <1>2 DEF Threads, CallerStep
<1>5. Placed'
  BY <1>1, <1>2 DEF Placed, CallerStep
<1>6. Requests'
  BY RequestsKept DEF Elsewhere
<1> QED
  BY <1>3, <1>4, <1>5, <1>6, ElsewhereKept

LEMMA InvokeDelivers ==
    ASSUME DeliveryInv, NEW c \in Caller, NEW what \in CallsOf[c], Invoke(c, what)
    PROVE  Delivery'
<1>1. /\ MainFree /\ cpc[c] = "idle" /\ CallerStep /\ what \in Call
      /\ call' = [call EXCEPT ![c] = what] /\ before' = [before EXCEPT ![c] = accepted]
      /\ UNCHANGED <<ready, respawn, worker, outbox, staged, saved, passes>>
      /\ state' = state \/ (state = "open" /\ state' = "closing")
  BY WriterAssumption DEF Invoke, CallerStep, diskVars, historyVars
<1>2. /\ cpc \in [Caller -> CallState] /\ call \in [Caller -> Call \cup {"none"}]
      /\ before \in [Caller -> SUBSET Job]
      /\ Threads /\ Calls /\ Placed /\ Requests
  BY DEF DeliveryInv, Delivery, WriterInv, WriterTypeOK, CallState
<1>3. /\ call'[c] = what /\ before'[c] = accepted /\ passes'[c] = passes[c]
      /\ \A d \in Caller \ {c} :
           call'[d] = call[d] /\ passes'[d] = passes[d] /\ before'[d] = before[d]
      /\ accepted' = accepted /\ (Settled' <=> Settled) /\ Handled' = Handled
  BY <1>1, <1>2 DEF accepted, Settled, Exhausted, CallerStep, Handled
<1>4. /\ passes[c] = 0 /\ passes[c] < MaxPasses
      /\ asked[c].type = "close" => Settled /\ state # "open"
  BY <1>1, <1>2 DEF Calls, CallOK
<1>5. Handled >= 0
  BY <1>2, DeliveryTypes DEF Handled, Threads
<1>6. CASE Ask(c, "prune") /\ what = "prune" /\ Reachable /\ UNCHANGED state
  <2>1. /\ BodyKept' /\ Threads' /\ Placed' /\ Requests'
        /\ \A d \in Caller \ {c} : CallOK(d)'
        /\ state # "closed"
    BY <1>1, <1>3, <1>6, AskDelivers DEF Call
  <2>2. cpc'[c] = "asked" /\ asked'[c].type = "prune"
    BY <1>2, <1>6, AskMembers DEF Call
  <2>3. CallOK(c)'
    BY <1>3, <1>4, <1>6, <2>1, <2>2 DEF CallOK
  <2> QED BY <2>1, <2>3 DEF Delivery, Calls
<1>7. ASSUME UNCHANGED <<asked, requestSeq, inbox>>, NEW pc \in CallState \ {"asked"},
             cpc' = [cpc EXCEPT ![c] = pc]
      PROVE  /\ BodyKept' /\ Threads' /\ Placed' /\ Requests'
             /\ \A d \in Caller \ {c} : CallOK(d)'
             /\ cpc'[c] = pc
  <2>1. Elsewhere(c) /\ cpc'[c] = pc
    BY <1>2, <1>3, <1>7 DEF Elsewhere
  <2> QED BY <1>1, <1>7, <2>1, GoesDelivers
<1>8. CASE /\ \/ what = "flush" /\ state # "closed"
              \/ what = "close" /\ state = "open"
           /\ state' = IF what = "close" THEN "closing" ELSE state
           /\ Drain(c)
           /\ UNCHANGED <<asked, requestSeq, inbox>>
  <2> DEFINE pc == IF queued = {} /\ inflight = {} THEN "drained" ELSE "draining"
  <2>1. cpc' = [cpc EXCEPT ![c] = pc] /\ pc \in CallState \ {"asked"}
    BY <1>8 DEF Drain, CallState
  <2>2. /\ BodyKept' /\ Threads' /\ Placed' /\ Requests'
        /\ \A d \in Caller \ {c} : CallOK(d)'
        /\ cpc'[c] = pc
    BY <1>7, <1>8, <2>1
  <2>3. CallOK(c)'
    <3>1. cpc'[c] = "drained" => queued' = {} /\ inflight' = {} /\ main' = "loop"
      BY <1>1, <2>2 DEF CallerStep, MainFree
    <3>2. cpc'[c] \in {"drained", "draining"} /\ asked' = asked
      BY <1>8, <2>2
    <3> QED BY <1>3, <1>4, <1>5, <1>8, <3>1, <3>2 DEF CallOK
  <2> QED BY <2>2, <2>3 DEF Delivery, Calls
<1>9. CASE /\ \/ what = "flush" /\ state = "closed"
              \/ what = "close" /\ state # "open"
              \/ what = "prune" /\ ~(state = "open" /\ Reachable)
           /\ Return(c)
           /\ UNCHANGED <<state, asked, requestSeq, inbox>>
  <2>1. cpc' = [cpc EXCEPT ![c] = "returned"] /\ "returned" \in CallState \ {"asked"}
    BY <1>9 DEF Return, CallState
  <2>2. /\ BodyKept' /\ Threads' /\ Placed' /\ Requests'
        /\ \A d \in Caller \ {c} : CallOK(d)'
        /\ cpc'[c] = "returned"
    BY <1>7, <1>9, <2>1
  <2>3. state = "closed" => Saved(c)'
    BY <1>1, <1>2, <1>3 DEF Threads, Settled, Saved, Exhausted, CallerStep
  <2>4. state' \in {"open", "closing", "closed"}
    BY <1>9 DEF DeliveryInv, WriterInv, WriterTypeOK
  <2>5. CallOK(c)'
    BY <1>3, <1>4, <1>9, <2>2, <2>3, <2>4 DEF CallOK
  <2> QED BY <2>2, <2>5 DEF Delivery, Calls
<1> QED
  BY <1>6, <1>8, <1>9 DEF Invoke

\* close() has ended: nothing is left to lose.
LEMMA CloseDoneDelivers ==
    ASSUME DeliveryInv, NEW c \in Caller, CloseDone(c), CallerStep, Settled, main = "loop",
           UNCHANGED <<call, before>>
    PROVE  Delivery'
<1> DEFINE released == [d \in Caller |-> IF d = c THEN "returned"
                                        ELSE IF cpc[d] = "asked" THEN "answered"
                                        ELSE cpc[d]]
<1>1. /\ state' = "closed" /\ ready' = FALSE /\ respawn' = FALSE /\ worker' = "none"
      /\ inbox' = <<>> /\ outbox' = <<>> /\ staged' = {} /\ saved' = {}
      /\ UNCHANGED <<asked, requestSeq, passes>>
      /\ cpc' = CheckDrained(released, queued, inflight)
  BY DEF CloseDone, DisposeWorker
<1>2. BodyKept /\ Threads /\ Placed /\ Requests /\ Calls
  BY DEF DeliveryInv, Delivery
<1>3. Members(<<>>) = {} /\ JobsOnce(<<>>)
  BY MembersEmpty, EmptySeq DEF JobsOnce
<1>4. accepted' = accepted /\ Settled' /\ Handled' = crashes /\ Handled' >= Handled
      /\ Handled \in Int /\ crashes \in Nat
  BY <1>1, DeliveryTypes DEF accepted, Settled, Exhausted, CallerStep, Handled
<1>5. BodyKept'
  BY <1>1, <1>2, <1>3 DEF BodyKept, CallerStep
<1>6. Threads'
  BY <1>1, <1>3, <1>4 DEF Threads, CallerStep
<1>7. Placed'
  BY <1>1, <1>2, <1>3, <1>4 DEF Placed, CallerStep
<1>8. ASSUME NEW d \in Caller
      PROVE  \/ d = c /\ cpc'[d] = "returned"
             \/ d # c /\ cpc[d] = "asked" /\ cpc'[d] = "answered"
             \/ d # c /\ cpc[d] # "asked" /\ cpc'[d] = cpc[d]
             \/ /\ d # c /\ cpc[d] = "draining" /\ cpc'[d] = "drained"
                /\ queued = {} /\ inflight = {}
  BY <1>1 DEF CheckDrained
<1> HIDE DEF released
<1>9. Requests'
  <2>1. \A d \in Caller : cpc'[d] = "asked" => cpc[d] = "asked"
    BY <1>8
  <2> QED BY <1>1, <1>3, <2>1, RequestsKept
<1>10. Calls'
  <2> SUFFICES ASSUME NEW d \in Caller PROVE CallOK(d)'
    BY DEF Calls
  <2>1. CallOK(d)
    BY <1>2 DEF Calls
  <2>2. Saved(d)' /\ Served(d)'
    BY <1>4, <2>1 DEF Settled, Saved, Served, CallOK, CallerStep, Exhausted
  <2>3. /\ queued' = queued /\ inflight' = inflight /\ main' = "loop"
        /\ call' = call /\ before' = before
    BY DEF CallerStep
  <2> QED BY <1>1, <1>4, <1>8, <2>1, <2>2, <2>3 DEF CallOK
<1> QED
  BY <1>5, <1>6, <1>7, <1>9, <1>10 DEF Delivery

\* flush() is over for c: its jobs are durable, or too many workers died.
LEMMA FlushDoneDelivers ==
    ASSUME DeliveryInv, NEW c \in Caller, FlushDone(c), CallerStep, Saved(c), main = "loop",
           UNCHANGED <<call, before>>, call[c] \in {"flush", "close"}
    PROVE  Delivery'
<1>1. /\ Threads /\ Calls /\ CallOK(c) /\ cpc \in [Caller -> CallState]
  BY DEF DeliveryInv, Delivery, Calls, WriterInv, WriterTypeOK, CallState
<1>2. accepted' = accepted /\ (Saved(c)' <=> Saved(c)) /\ (Settled' <=> Settled)
  BY DEF accepted, Saved, Settled, Exhausted, CallerStep
<1>3. CASE /\ call[c] = "flush" /\ Return(c)
           /\ UNCHANGED <<state, ready, respawn, asked, requestSeq, passes, worker, inbox,
                          outbox, staged, saved>>
  <2>1. cpc'[c] = "returned" /\ Elsewhere(c)
    BY <1>1, <1>3 DEF Return, Elsewhere
  <2>2. /\ BodyKept' /\ Threads' /\ Placed' /\ Requests'
        /\ \A d \in Caller \ {c} : CallOK(d)'
    BY <1>3, <2>1, GoesDelivers
  <2>3. CallOK(c)'
    BY <1>1, <1>2, <1>3, <2>1 DEF CallOK
  <2> QED BY <2>2, <2>3 DEF Delivery, Calls
<1>4. call[c] = "close" => Settled /\ state # "open"
  BY <1>1 DEF CallOK, Saved, Settled
<1>5. CASE /\ call[c] = "close" /\ Reachable /\ Ask(c, "close")
           /\ UNCHANGED <<state, ready, respawn, passes, worker, outbox, staged, saved>>
  <2>1. /\ BodyKept' /\ Threads' /\ Placed' /\ Requests'
        /\ \A d \in Caller \ {c} : CallOK(d)' /\ state # "closed"
    BY <1>4, <1>5, AskDelivers DEF Call
  <2>2. cpc'[c] = "asked" /\ asked'[c].type = "close"
    BY <1>1, <1>5, AskMembers DEF Call
  <2>3. state # "closed"
    BY <1>1, <1>5 DEF Threads, Reachable
  <2>4. CallOK(c)'
    BY <1>1, <1>2, <1>4, <1>5, <2>2, <2>3 DEF CallOK
  <2> QED BY <2>1, <2>4 DEF Delivery, Calls
<1>6. CASE call[c] = "close" /\ CloseDone(c)
  BY <1>4, <1>6, CloseDoneDelivers
<1> QED
  BY <1>3, <1>5, <1>6 DEF FlushDone

\* A caller has drained: nothing is queued or in the window.
LEMMA AfterDrainDelivers ==
    ASSUME DeliveryInv, NEW c \in Caller, AfterDrain(c), CallerStep, main = "loop",
           UNCHANGED <<call, before>>
    PROVE  Delivery'
<1>1. /\ cpc[c] = "drained" /\ CallOK(c) /\ Threads /\ Placed /\ Requests
      /\ cpc \in [Caller -> CallState] /\ NoJobForgotten /\ uncommitted \subseteq accepted
  BY DEF AfterDrain, DeliveryInv, Delivery, Calls, WriterInv, WriterTypeOK, CallState, Accounted
<1>2. /\ queued = {} /\ inflight = {} /\ call[c] \in {"flush", "close"}
      /\ before[c] \subseteq accepted /\ (Saved(c) \/ Handled >= passes[c])
  BY <1>1 DEF CallOK
<1>3. CASE (uncommitted = {} \/ ~Reachable) /\ FlushDone(c)
  <2>1. state = "closed" \/ uncommitted = {}
    BY <1>1, <1>2, <1>3 DEF Placed, Threads, Reachable
  <2>2. Saved(c)
    BY <1>1, <1>2, <2>1 DEF NoJobForgotten, Threads, Settled, Saved
  <2> QED BY <1>2, <1>3, <2>2, FlushDoneDelivers
<1>4. CASE /\ uncommitted # {} /\ Reachable /\ Ask(c, "flush")
           /\ UNCHANGED <<state, ready, respawn, passes, worker, outbox, staged, saved>>
  <2>1. /\ BodyKept' /\ Threads' /\ Placed' /\ Requests'
        /\ \A d \in Caller \ {c} : CallOK(d)'
        /\ state # "closed"
        /\ \A a \in Members(outbox) : a.type \in {"flushed", "pruned", "closed"} =>
              a.id # requestSeq
        /\ \A m \in Members(inbox) : m.type # "job" => m.id # requestSeq
    BY <1>4, AskDelivers DEF Call
  <2>2. /\ cpc'[c] = "asked" /\ asked'[c].type = "flush" /\ asked'[c].id = requestSeq
        /\ worker # "dead" => inbox' = Append(inbox, asked'[c])
        /\ asked'[c] \in WriterRequest
    BY <1>1, <1>4, AskMembers DEF Call
  <2>3. /\ accepted' = accepted /\ Handled' = Handled
        /\ (Saved(c)' <=> Saved(c)) /\ (Served(c)' <=> Served(c))
    BY <1>4 DEF accepted, Handled, Exhausted, Saved, Served, CallerStep
  <2>4. ASSUME ~Saved(c) PROVE OnItsWay(c)'
    <3>1. Handled >= passes[c] /\ passes' = passes
      BY <1>2, <1>4, <2>4
    <3>2. ~Replied(c)'
      <4>1. \A a \in Members(outbox) : a.type = "error" => a.id = 0
        BY <1>1, <1>2 DEF Placed
      <4>2. requestSeq # 0
        BY <1>1, DeliveryTypes DEF Requests
      <4> QED BY <1>4, <2>1, <2>2, <4>1, <4>2 DEF Replied, Reply
    <3>3. ready /\ worker \in {"up", "dead"}
      <4>1. worker \in {"none", "booting", "up", "coreless", "dead"}
        BY DEF DeliveryInv, WriterInv, WriterTypeOK
      <4>2. ~Settled
        BY <1>2, <2>4 DEF Settled, Saved
      <4> QED BY <1>1, <1>4, <4>1, <4>2 DEF Threads, Reachable
    <3>4. CASE worker = "up"
      <4>1. before'[c] \subseteq durable' \cup staged'
        BY <1>1, <1>2, <1>4, <2>1, <3>4 DEF Placed, NoJobForgotten, CallerStep
      <4>2. \A m \in Members(inbox) : m.type # "job" /\ m.id # asked'[c].id
        BY <1>1, <1>2, <2>1, <2>2 DEF Placed
      <4>3. InLine(asked'[c], Append(inbox, asked'[c]))
        <5> DEFINE msg == asked'[c]
        <5>1. \A m \in Members(inbox) : m.type # "job" /\ m.id # msg.id
          BY <4>2
        <5>2. msg \in WriterRequest
          BY <2>2
        <5> HIDE DEF msg
        <5>3. InLine(msg, Append(inbox, msg))
          BY <5>1, <5>2, InLineAppend, DeliveryTypes
        <5> QED BY <5>3 DEF msg
      <4>4. worker' = "up" /\ inbox' = Append(inbox, asked'[c])
        BY <1>4, <2>2, <3>4
      <4> QED BY <2>3, <3>1, <3>2, <4>1, <4>3, <4>4 DEF OnItsWay
    <3>5. CASE worker = "dead"
      BY <1>4, <2>3, <3>1, <3>2, <3>5 DEF OnItsWay
    <3> QED BY <3>3, <3>4, <3>5
  <2>5. CallOK(c)'
    BY <1>1, <1>2, <1>4, <2>1, <2>2, <2>3, <2>4 DEF CallOK, Served
  <2> QED BY <2>1, <2>5 DEF Delivery, Calls
<1> QED
  BY <1>3, <1>4 DEF AfterDrain

LEMMA AfterReplyDelivers ==
    ASSUME DeliveryInv, NEW c \in Caller, AfterReply(c), CallerStep, main = "loop",
           UNCHANGED <<call, before>>
    PROVE  Delivery'
<1>1. /\ cpc[c] = "answered" /\ CallOK(c)
      /\ cpc \in [Caller -> CallState] /\ passes \in [Caller -> Nat]
  BY DEF AfterReply, DeliveryInv, Delivery, Calls, WriterInv, WriterTypeOK, CallState
<1>2. CASE /\ asked[c].type = "flush" /\ AnotherPass(c)
           /\ passes' = [passes EXCEPT ![c] = @ + 1] /\ Drain(c)
           /\ UNCHANGED <<state, ready, respawn, asked, requestSeq, worker, inbox, outbox,
                          staged, saved>>
  <2>1. /\ cpc'[c] = IF queued = {} /\ inflight = {} THEN "drained" ELSE "draining"
        /\ passes'[c] = passes[c] + 1 /\ passes[c] + 1 < MaxPasses
        /\ Elsewhere(c)
    BY <1>1, <1>2 DEF Drain, Elsewhere, AnotherPass
  <2>2. /\ BodyKept' /\ Threads' /\ Placed' /\ Requests'
        /\ \A d \in Caller \ {c} : CallOK(d)'
    BY <1>2, <2>1, GoesDelivers
  <2>3. Served(c) /\ call[c] \in {"flush", "close"}
    BY <1>1, <1>2 DEF CallOK
  <2>4. Saved(c)' \/ Handled' >= passes'[c]
    BY <1>2, <2>1, <2>3 DEF Served, Saved, Exhausted, Handled, CallerStep
  <2>5. cpc'[c] = "drained" => queued' = {} /\ inflight' = {} /\ main' = "loop"
    BY <2>1 DEF CallerStep
  <2>6. accepted' = accepted /\ cpc'[c] \in {"drained", "draining"} /\ (Settled' <=> Settled)
    BY <2>1 DEF accepted, CallerStep, Settled, Exhausted
  <2>7. CallOK(c)'
    BY <1>1, <1>2, <2>1, <2>3, <2>4, <2>5, <2>6 DEF CallOK
  <2> QED BY <2>2, <2>7 DEF Delivery, Calls
<1>3. CASE asked[c].type = "flush" /\ ~AnotherPass(c) /\ FlushDone(c)
  <2>1. Served(c) /\ call[c] \in {"flush", "close"}
    BY <1>1, <1>3 DEF CallOK
  <2>2. Saved(c)
    BY <1>1, <1>3, <2>1, DeliveryTypes DEF Served, Saved, AnotherPass, Exhausted
  <2> QED BY <1>3, <2>1, <2>2, FlushDoneDelivers
<1>4. CASE asked[c].type = "close" /\ CloseDone(c)
  <2>1. Settled
    BY <1>1, <1>4 DEF CallOK
  <2> QED BY <1>4, <2>1, CloseDoneDelivers
<1>5. CASE /\ asked[c].type = "prune" /\ Return(c)
           /\ UNCHANGED <<state, ready, respawn, asked, requestSeq, passes, worker, inbox,
                          outbox, staged, saved>>
  <2>1. cpc'[c] = "returned" /\ Elsewhere(c)
    BY <1>1, <1>5 DEF Return, Elsewhere
  <2>2. /\ BodyKept' /\ Threads' /\ Placed' /\ Requests'
        /\ \A d \in Caller \ {c} : CallOK(d)'
    BY <1>5, <2>1, GoesDelivers
  <2>3. call[c] = "prune" /\ accepted' = accepted
    BY <1>1, <1>5 DEF CallOK, accepted, CallerStep
  <2>4. CallOK(c)'
    BY <1>1, <1>5, <2>1, <2>3 DEF CallOK
  <2> QED BY <2>2, <2>4 DEF Delivery, Calls
<1> QED
  BY <1>2, <1>3, <1>4, <1>5 DEF AfterReply

LEMMA ResumeDelivers ==
    ASSUME DeliveryInv, NEW c \in Caller, Resume(c)
    PROVE  Delivery'
<1>1. CallerStep /\ main = "loop" /\ UNCHANGED <<call, before>>
  BY DEF Resume, CallerStep, diskVars, historyVars
<1> QED
  BY <1>1, AfterDrainDelivers, AfterReplyDelivers DEF Resume

------------------------------------------------------------------------------
LEMMA WriterInitDelivers == WriterInit => Delivery
<1> SUFFICES ASSUME WriterInit PROVE Delivery
  OBVIOUS
<1>1. Members(<<>>) = {} /\ JobsOnce(<<>>)
  BY MembersEmpty, EmptySeq DEF JobsOnce
<1>2. accepted = {}
  BY DEF WriterInit, accepted
<1>3. BodyKept /\ Threads /\ Placed /\ Requests
  BY <1>1, <1>2 DEF WriterInit, BodyKept, Threads, Placed, Requests, Request
<1>4. Calls
  BY <1>2, WriterAssumption DEF WriterInit, Calls, CallOK, Request
<1> QED
  BY <1>3, <1>4 DEF Delivery

LEMMA StepDelivers == DeliveryInv /\ [WriterNext]_writerVars => DeliveryInv'
<1> SUFFICES ASSUME DeliveryInv, [WriterNext]_writerVars PROVE DeliveryInv'
  OBVIOUS
<1>1. WriterInv'
  BY WriterStepInv DEF DeliveryInv
<1>2. CASE UNCHANGED writerVars
  <2>1. /\ UNCHANGED mainVars /\ UNCHANGED callVars /\ UNCHANGED workerVars
        /\ UNCHANGED historyVars
    BY <1>2 DEF writerVars
  <2>2. /\ accepted' = accepted /\ Handled' = Handled /\ (Settled' <=> Settled)
    BY <2>1 DEF accepted, Handled, Settled, Exhausted, mainVars, workerVars, historyVars
  <2>3. BodyKept' /\ Threads' /\ Placed' /\ Requests'
    BY <2>1, <2>2 DEF DeliveryInv, Delivery, BodyKept, Threads, Placed, Requests, mainVars,
                      callVars, workerVars, historyVars
  <2>4. Calls'
    <3> SUFFICES ASSUME NEW c \in Caller PROVE CallOK(c)'
      BY DEF Calls
    <3>1. /\ Saved(c)' <=> Saved(c)
          /\ Served(c)' <=> Served(c)
          /\ OnItsWay(c)' <=> OnItsWay(c)
      BY <2>1, <2>2 DEF Saved, Served, OnItsWay, Replied, Exhausted, callVars, workerVars,
                        historyVars
    <3> QED BY <2>1, <2>2, <3>1 DEF DeliveryInv, Delivery, Calls, CallOK, mainVars, callVars
  <2> QED BY <1>1, <2>3, <2>4 DEF DeliveryInv, Delivery
<1>3. CASE \E j \in Job : \E k \in KindsOf[j] : Write(j, k)
  BY <1>1, <1>3, WriteDelivers DEF DeliveryInv
<1>4. CASE \E c \in Caller : \E what \in CallsOf[c] : Invoke(c, what)
  BY <1>1, <1>4, InvokeDelivers DEF DeliveryInv
<1>5. CASE MainStep
  BY <1>1, <1>5, PumpDelivers, RepostDelivers, ResumeDelivers, OnReadyDelivers,
     OnWrittenDelivers, OnCommittedDelivers, OnReplyDelivers, OnCrashDelivers,
     RespawnDelivers DEF MainStep, DeliveryInv
<1>6. CASE WorkerStep
  BY <1>1, <1>6, WorkerInitDelivers, ApplyDelivers, ApplyThrowsDelivers, AnswerDelivers,
     CommitDelivers DEF WorkerStep, DeliveryInv
<1>7. CASE FlushTimer \/ Die
  BY <1>1, <1>7, CommitDelivers, DieDelivers DEF DeliveryInv
<1> QED
  BY <1>2, <1>3, <1>4, <1>5, <1>6, <1>7 DEF WriterNext

\* The delivery invariant of both threads: what is queued, posted, staged and
\* reported accounts for every job and every request.
THEOREM WriterDelivers == WriterSpec => []DeliveryInv
<1>1. WriterInit => DeliveryInv
  BY WriterInitInv, WriterInitDelivers DEF DeliveryInv
<1> QED
  BY <1>1, StepDelivers, PTL DEF WriterSpec

\* What flush() and close() owe their callers, and what the writer owes the
\* bodies it accepted, through any number of worker deaths and faults.
THEOREM WriterKeepsWhatItOwes == WriterSpec => []OwedKept
<1>1. DeliveryInv => OwedKept
  <2> SUFFICES ASSUME DeliveryInv PROVE OwedKept
    OBVIOUS
  <2>1. BodyOwed
    BY DEF DeliveryInv, Delivery, BodyKept, BodyOwed
  <2>2. FlushDurable
    BY DEF DeliveryInv, Delivery, Calls, CallOK, Saved, FlushDurable
  <2> QED BY <2>1, <2>2 DEF OwedKept
<1> QED
  BY <1>1, WriterDelivers, PTL

------------------------------------------------------------------------------
(* The writer implements DurableLog.                                       *)

\* A step that accepts nothing and kills nobody saves, closes or stutters.
QuietStep ==
    /\ kind' = kind /\ crashes' = crashes /\ durable \subseteq durable'
    /\ state' = state \/ durable' = durable
    /\ state = "closed" => state' = "closed"

LEMMA QuietStepRefines ==
    ASSUME DeliveryInv, DeliveryInv', QuietStep
    PROVE  [Log!LogNext]_Log!logVars
<1>1. accepted' = accepted /\ (Exhausted' <=> Exhausted)
  BY DEF QuietStep, accepted, Exhausted
<1>2. durable' \subseteq accepted
  BY <1>1 DEF DeliveryInv, Delivery, Placed
<1>3. CASE state' = state
  <2>1. durable' \in SUBSET accepted /\ durable' = durable \cup durable'
    BY <1>2 DEF QuietStep
  <2>2. Log!Save(durable')
    BY <1>1, <1>3, <2>1 DEF Log!Save
  <2> QED BY <2>1, <2>2 DEF Log!LogNext
<1>4. CASE state' # state /\ durable' = durable
  <2>1. CASE state' = "closed"
    <3>1. Settled
      BY <1>1, <1>4, <2>1 DEF DeliveryInv, Delivery, Threads, Settled
    <3>2. Log!Close
      BY <1>1, <1>4, <2>1, <3>1 DEF Log!Close, Settled
    <3> QED BY <3>2 DEF Log!LogNext
  <2>2. CASE state' # "closed"
    BY <1>1, <1>4, <2>2 DEF Log!logVars, QuietStep
  <2> QED BY <2>1, <2>2
<1> QED
  BY <1>3, <1>4 DEF QuietStep

LEMMA WriterStepRefines ==
    ASSUME DeliveryInv, DeliveryInv', [WriterNext]_writerVars
    PROVE  [Log!LogNext]_Log!logVars
<1>1. CASE UNCHANGED writerVars
  <2>1. QuietStep
    BY <1>1 DEF QuietStep, writerVars, mainVars, workerVars, historyVars
  <2> QED BY <2>1, QuietStepRefines
<1>2. ASSUME NEW j \in Job, NEW k \in KindsOf[j], Write(j, k)
      PROVE  Log!LogNext
  <2>1. /\ kind[j] = "none" /\ kind' = [kind EXCEPT ![j] = k] /\ state = "open"
        /\ UNCHANGED <<state, durable, crashes>>
        /\ kind \in [Job -> Kind \cup {"none"}] /\ k # "none"
    BY <1>2, WriterAssumption DEF Write, Accepting, workerVars, DeliveryInv, WriterInv,
                                  WriterTypeOK, Kind
  <2>2. accepted' = accepted \cup {j} /\ j \notin accepted
    BY <2>1 DEF accepted
  <2>3. Log!Accept(j)
    BY <2>1, <2>2 DEF Log!Accept, Exhausted
  <2> QED BY <2>3 DEF Log!LogNext
<1>3. ASSUME NEW c \in Caller, NEW what \in CallsOf[c], Invoke(c, what)
      PROVE  [Log!LogNext]_Log!logVars
  <2>1. QuietStep
    BY <1>3 DEF QuietStep, Invoke, diskVars, historyVars
  <2> QED BY <2>1, QuietStepRefines
<1>4. CASE MainStep
  <2>1. ASSUME NEW c \in Caller, Resume(c) PROVE QuietStep
    <3>1. kind' = kind /\ crashes' = crashes /\ durable' = durable
      BY <2>1 DEF Resume, diskVars, historyVars
    <3>2. state' = state \/ state' = "closed"
      <4>1. FlushDone(c) => state' = state \/ state' = "closed"
        BY DEF FlushDone, CloseDone
      <4> QED BY <2>1, <4>1 DEF Resume, AfterDrain, AfterReply, CloseDone
    <3> QED BY <3>1, <3>2 DEF QuietStep
  <2>2. ASSUME Pump \/ Repost \/ OnReady \/ OnWritten PROVE QuietStep
    BY <2>2 DEF QuietStep, Pump, Repost, OnReady, OnWritten, diskVars, historyVars
  <2>3. ASSUME OnCommitted \/ OnReply \/ OnCrash \/ Respawn PROVE QuietStep
    BY <2>3 DEF QuietStep, OnCommitted, OnReply, OnCrash, Respawn, mainVars, diskVars,
                historyVars
  <2>4. QuietStep
    BY <1>4, <2>1, <2>2, <2>3 DEF MainStep
  <2> QED BY <2>4, QuietStepRefines
<1>5. CASE WorkerStep \/ FlushTimer
  <2>1. \A batch, bodies, out : FlushBatch(batch, bodies, out) => durable \subseteq durable'
    BY DEF FlushBatch
  <2>2. durable \subseteq durable'
    BY <1>5, <2>1 DEF WorkerStep, WorkerInit, Apply, ApplyThrows, JobBeforeInit, WorkerFlush,
       WorkerPrune, WorkerClose, AnswerCoreless, FlushTimer, diskVars
  <2>3. kind' = kind /\ crashes' = crashes /\ state' = state
    BY <1>5 DEF WorkerStep, WorkerInit, Apply, ApplyThrows, JobBeforeInit, WorkerFlush,
       WorkerPrune, WorkerClose, AnswerCoreless, FlushTimer, mainVars, historyVars
  <2>4. QuietStep
    BY <2>2, <2>3 DEF QuietStep
  <2> QED BY <2>4, QuietStepRefines
<1>6. CASE Die
  <2>1. kind' = kind /\ state' = state /\ durable' = durable /\ crashes' = crashes + 1
    BY <1>6 DEF Die, mainVars, diskVars
  <2>2. accepted' = accepted
    BY <2>1 DEF accepted
  <2>3. Exhausted \in BOOLEAN /\ Exhausted' \in BOOLEAN /\ (Exhausted => Exhausted')
    BY <2>1, DeliveryTypes DEF Exhausted
  <2>4. CASE Exhausted'
    <3>1. Log!Exhaust
      BY <2>1, <2>2, <2>3, <2>4 DEF Log!Exhaust
    <3> QED BY <3>1 DEF Log!LogNext
  <2>5. CASE ~Exhausted'
    BY <2>1, <2>2, <2>3, <2>5 DEF Log!logVars
  <2> QED BY <2>4, <2>5
<1> QED
  BY <1>1, <1>2, <1>3, <1>4, <1>5, <1>6 DEF WriterNext

\* The writer implements the log it promises: a job becomes durable
\* only once it was accepted, nothing durable is lost, and close() ends only
\* when every accepted job is durable or the worker died too often.
THEOREM WriterImplementsLog == WriterSpec => LogSpec
<1>1. WriterInit => Log!LogInit
  BY WriterAssumption DEF WriterInit, Log!LogInit, accepted, Exhausted
<1>2. DeliveryInv /\ DeliveryInv' /\ [WriterNext]_writerVars => [Log!LogNext]_Log!logVars
  BY WriterStepRefines
<1> QED
  BY <1>1, <1>2, WriterDelivers, PTL DEF WriterSpec, LogSpec, Log!LogSpec
==============================================================================
