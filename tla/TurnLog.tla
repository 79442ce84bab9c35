-------------------------------- MODULE TurnLog --------------------------------
(***************************************************************************)
(* The turn log: the stores of src/src/logging/log-store.ts, which number  *)
(* the turns of each session, and the index of src/src/logging/index-db.ts, *)
(* with its session rollup and the spool of batches that could not be      *)
(* committed.                                                              *)
(*                                                                         *)
(* A process opens one store at boot and another at each hot reload of     *)
(* src/src/server.ts; the old one finishes in the background, so two       *)
(* writers may use one index and one spool.  Between a store and its index *)
(* stands the writer of module TurnWriter, of which this module keeps what *)
(* it promises: rows are committed in the order they were handed over, and *)
(* those not reported are handed over again when the worker dies.          *)
(***************************************************************************)
EXTENDS Integers, FiniteSets, SequencesExt

CONSTANTS
    Session,
    MaxTurns,      \* bound of the model: turns recorded
    MaxStores,     \* bound of the model: stores opened
    MaxSeqEntries, \* MAX_SEQ_ENTRIES
    MaxBatch,      \* DEFAULT_MAX_BATCH_TURNS
    MaxFailures,   \* bound of the model: operations on the disk that fail
    MaxDeaths,     \* bound of the model: workers that die
    MaxCrashes     \* bound of the model: processes that end

Turn == 1..MaxTurns
Store == 1..MaxStores

ASSUME TurnLogAssumption ==
    /\ IsFiniteSet(Session)
    /\ MaxTurns \in Nat /\ MaxStores \in Nat /\ MaxFailures \in Nat
    /\ MaxDeaths \in Nat /\ MaxCrashes \in Nat
    /\ MaxSeqEntries \in Nat \ {0} /\ MaxBatch \in Nat \ {0}

VARIABLES
    \* the stores of the process
    phase,     \* "unopened", "candidate", "current", "stopping", "idle", "closed", "gone"
    seq,       \* per store and session, the last number given, 0 for no entry
    place,     \* where that entry stands in the order of the map
    \* their writers
    handed,    \* the rows each writer was given
    committed, \* how many of them its worker has committed
    reports,   \* those counts, on their way to the main thread
    retired,   \* how many the main thread knows to be committed
    worker,    \* "none", "booting", "replaying", "up"
    replay,    \* the spool as the worker read it, how far it got, what failed
    \* the disk
    rows,      \* table turns
    turns,     \* table sessions: the turn count of each
    spool,     \* batches to be applied at the next open
    \* bounds and history
    recorded,  \* the row of each turn, in the order they were recorded
    lost,      \* turns that a process took with it
    exposed,   \* sessions with a turn the numbering or the spool could not see
    failures, deaths, crashes

storeVars == <<phase, seq, place>>
writerVars == <<handed, committed, reports, retired, worker, replay>>
diskVars == <<rows, turns, spool>>
boundVars == <<failures, deaths, crashes>>
turnLogVars == <<storeVars, writerVars, diskVars, recorded, lost, exposed, boundVars>>

Row == [session : Session, seq : Nat, turn : Turn]
Batch == Seq(Row)
Replay == [entries : Seq(Batch), next : Nat \ {0}, failed : Seq(Batch)]
NoEntries == [s \in Store |-> [x \in Session |-> 0]]
NoReplay == [entries |-> <<>>, next |-> 1, failed |-> <<>>]

TurnLogTypeOK ==
    /\ phase \in [Store -> {"unopened", "candidate", "current", "stopping", "idle",
                            "closed", "gone"}]
    /\ seq \in [Store -> [Session -> Nat]]
    /\ place \in [Store -> [Session -> Nat]]
    /\ handed \in [Store -> Batch] /\ reports \in [Store -> Seq(Nat)]
    /\ committed \in [Store -> Nat] /\ retired \in [Store -> Nat]
    /\ worker \in [Store -> {"none", "booting", "replaying", "up"}]
    /\ replay \in [Store -> Replay]
    /\ rows \subseteq Row /\ turns \in [Session -> Nat] /\ spool \in Seq(Batch)
    /\ recorded \in Batch /\ lost \subseteq Turn /\ exposed \subseteq Session
    /\ failures \in Nat /\ deaths \in Nat /\ crashes \in Nat

------------------------------------------------------------------------------
(* Helpers.                                                                *)

\* The stores whose phase is one of these.
In(phases) == {s \in Store : phase[s] \in phases}

RowsIn(batches) == UNION {ToSet(batches[i]) : i \in DOMAIN batches}
TurnsOf(R) == {r.turn : r \in R}
RowsOf(R, x) == {r \in R : r.session = x}

\* What store s has handed over and not heard of again.
Held(s) == {handed[s][i] : i \in {j \in DOMAIN handed[s] : j > retired[s]}}

\* Every row that exists somewhere.
Kept == rows \cup RowsIn(spool) \cup UNION {Held(s) : s \in Store}

\* Something on the disk fails, at most MaxFailures times.
DiskFails == failures < MaxFailures /\ failures' = failures + 1
DiskWorks == UNCHANGED failures

------------------------------------------------------------------------------
(* The index.                                                              *)

\* The rows of a batch whose number is free: INSERT OR IGNORE drops the others.
SameNumber(r, q) == r.session = q.session /\ r.seq = q.seq
Inserted(batch) ==
    {batch[i] : i \in {j \in DOMAIN batch :
        /\ \A r \in rows : ~SameNumber(r, batch[j])
        /\ \A k \in DOMAIN batch : k < j => ~SameNumber(batch[k], batch[j])}}

\* The rollup moves by what was inserted; mutant: by the size of the batch.
CountBatch(batch, x) == Cardinality(RowsOf(ToSet(batch), x))
CountInserted(batch, x) == Cardinality(RowsOf(Inserted(batch), x))

\* #commitTurnsInner() in its transaction.
CommitTurns(batch) ==
    /\ rows' = rows \cup Inserted(batch)
    /\ turns' = [x \in Session |-> turns[x] + CountInserted(batch, x)]

\* upsertSessions(): the rollup of these sessions from their rows.
Rederive(sessions) ==
    turns' = [x \in Session |-> IF x \in sessions /\ RowsOf(rows, x) # {}
                               THEN Cardinality(RowsOf(rows, x)) ELSE turns[x]]

------------------------------------------------------------------------------
(* The store on the main thread.                                           *)

\* listSessions() lists the newest activity first.
Newer(x, y) ==
    \E t \in TurnsOf(RowsOf(rows, x)) : \A u \in TurnsOf(RowsOf(rows, y)) : u < t
PlaceInListing(x) == Cardinality({y \in Session : Newer(y, x)})

\* seedSeq(): the numbering goes on after the count of the rollup; mutant: one
\* further.
SeedPastCount(x) == IF turns[x] > 0 THEN turns[x] + 1 ELSE 0
SeedOf(x) == turns[x]

\* Sessions that have a turn which no reader of the index can see.
Unseen == {x \in Session : \E t \in DOMAIN recorded :
              recorded[t].session = x /\ t \notin lost \cup TurnsOf(rows)}

\* The constructor, at boot or in a reload that is under way: the numbering is
\* seeded before the worker has replayed the spool.
OpenStore(s) ==
    /\ phase[s] = "unopened" /\ \A u \in Store : u < s => phase[u] # "unopened"
    /\ In({"candidate"}) = {}
    /\ phase' = [phase EXCEPT ![s] =
                    IF In({"current"}) = {} THEN "current" ELSE "candidate"]
    /\ \/ /\ DiskWorks
          /\ seq' = [seq EXCEPT ![s] = [x \in Session |-> SeedOf(x)]]
          /\ place' = [place EXCEPT ![s] = [x \in Session |-> PlaceInListing(x)]]
          /\ exposed' = exposed \cup Unseen
       \/ /\ DiskFails
          /\ exposed' = exposed \cup Unseen \cup {x \in Session : turns[x] > 0}
          /\ UNCHANGED <<seq, place>>
    /\ worker' = [worker EXCEPT ![s] = "booting"]
    /\ UNCHANGED <<handed, committed, reports, retired, replay, diskVars, recorded, lost,
                   deaths, crashes>>

\* bumpSeq(): x moves to the end of the map, which drops its oldest entry beyond
\* the bound.
LastPlace == Cardinality(Session) + Len(recorded)
Evicted(s, x) ==
    LET others == {y \in Session \ {x} : seq[s][y] > 0}
    IN {y \in others : /\ Cardinality(others) + 1 > MaxSeqEntries
                       /\ \A z \in others : place[s][y] <= place[s][z]}

\* recordTurn() of a finished request.  Only the current store is asked, and a
\* turn that ends after the store was stopped is not recorded at all.
Record(x) ==
    \E s \in In({"current"}) :
       LET n == seq[s][x] + 1
           row == [session |-> x, seq |-> n, turn |-> Len(recorded) + 1]
       IN /\ Len(recorded) < MaxTurns
          /\ recorded' = Append(recorded, row)
          /\ seq' = [seq EXCEPT ![s] = [y \in Session |-> IF y \in Evicted(s, x) THEN 0
                                                         ELSE IF y = x THEN n ELSE @[y]]]
          /\ place' = [place EXCEPT ![s][x] = LastPlace]
          /\ handed' = [handed EXCEPT ![s] = Append(@, row)]
          /\ exposed' = exposed \cup Evicted(s, x)
                        \cup (IF In({"candidate"}) = {} THEN {} ELSE {x})
    /\ UNCHANGED <<phase, committed, reports, retired, worker, replay, diskVars, lost,
                   boundVars>>

\* saveConfig() has succeeded: the new runtime takes over, the old store stops.
Swap ==
    /\ In({"candidate"}) # {}
    /\ phase' = [s \in Store |-> CASE phase[s] = "candidate" -> "current"
                                   [] phase[s] = "current" -> "stopping"
                                   [] OTHER -> phase[s]]
    /\ UNCHANGED <<seq, place, writerVars, diskVars, recorded, lost, exposed, boundVars>>

\* saveConfig() has failed: the new runtime is dropped, its store is not stopped.
SaveFails ==
    /\ In({"candidate"}) # {} /\ DiskFails
    /\ phase' = [s \in Store |-> IF phase[s] = "candidate" THEN "idle" ELSE phase[s]]
    /\ UNCHANGED <<seq, place, writerVars, diskVars, recorded, lost, exposed, deaths,
                   crashes>>

\* close() of a stopped store, once its writer has nothing left.
CloseStore(s) ==
    /\ phase[s] = "stopping" /\ worker[s] = "up" /\ Held(s) = {}
    /\ phase' = [phase EXCEPT ![s] = "closed"]
    /\ worker' = [worker EXCEPT ![s] = "none"]
    /\ UNCHANGED <<seq, place, handed, committed, reports, retired, replay, diskVars,
                   recorded, lost, exposed, boundVars>>

\* A "committed" report arrives.
Retire(s) ==
    /\ reports[s] # <<>>
    /\ retired' = [retired EXCEPT ![s] = Head(reports[s])]
    /\ reports' = [reports EXCEPT ![s] = Tail(@)]
    /\ UNCHANGED <<storeVars, handed, committed, worker, replay, diskVars, recorded, lost,
                   exposed, boundVars>>

------------------------------------------------------------------------------
(* The writer's thread.                                                    *)

\* The index is opened: replaySpool() reads the spool, or defers it.
OpenIndex(s) ==
    /\ worker[s] = "booting"
    /\ \/ /\ DiskWorks
          /\ worker' = [worker EXCEPT ![s] = IF spool = <<>> THEN "up" ELSE "replaying"]
          /\ replay' = [replay EXCEPT ![s].entries = spool]
       \/ /\ DiskFails /\ spool # <<>>
          /\ worker' = [worker EXCEPT ![s] = "up"]
          /\ UNCHANGED replay
    /\ UNCHANGED <<storeVars, handed, committed, reports, retired, diskVars, recorded, lost,
                   exposed, deaths, crashes>>

\* The next entry of the spool as read, in a transaction of its own.
ReplayEntry(s) ==
    LET entry == replay[s].entries[replay[s].next]
    IN /\ worker[s] = "replaying" /\ replay[s].next <= Len(replay[s].entries)
       /\ \/ /\ DiskWorks
             /\ CommitTurns(entry)
             /\ replay' = [replay EXCEPT ![s].next = @ + 1]
          \/ /\ DiskFails
             /\ replay' = [replay EXCEPT ![s].next = @ + 1, ![s].failed = Append(@, entry)]
             /\ UNCHANGED <<rows, turns>>
       /\ UNCHANGED <<storeVars, handed, committed, reports, retired, worker, spool, recorded,
                      lost, exposed, deaths, crashes>>

\* What is left in the spool after a replay; mutant: nothing, whatever failed.
LeftNothing(failed) == <<>>
LeftInSpool(failed) == failed

\* The end of replaySpool(): the rollup is derived again and the spool cleared,
\* or written again with the entries that failed.  Either write may fail, and
\* then the spool stays as it is.
EndReplay(s) ==
    /\ worker[s] = "replaying" /\ replay[s].next > Len(replay[s].entries)
    /\ IF replay[s].failed = <<>>
       THEN Rederive({r.session : r \in RowsIn(replay[s].entries)})
       ELSE UNCHANGED turns
    /\ \/ DiskWorks /\ spool' = LeftInSpool(replay[s].failed)
       \/ DiskFails /\ UNCHANGED spool
    /\ worker' = [worker EXCEPT ![s] = "up"]
    /\ replay' = [replay EXCEPT ![s] = NoReplay]
    /\ UNCHANGED <<storeVars, handed, committed, reports, retired, rows, recorded, lost,
                   exposed, deaths, crashes>>

\* flushBatch(): the oldest rows in one transaction, or in the spool; they are
\* reported committed in either case.
Commit(s) ==
    /\ worker[s] = "up"
    /\ \E n \in 1..MaxBatch :
          LET last == committed[s] + n
              batch == SubSeq(handed[s], committed[s] + 1, last)
          IN /\ last <= Len(handed[s])
             /\ committed' = [committed EXCEPT ![s] = last]
             /\ reports' = [reports EXCEPT ![s] = Append(@, last)]
             /\ \/ /\ DiskWorks
                   /\ CommitTurns(batch)
                   /\ UNCHANGED <<spool, exposed>>
                \/ /\ DiskFails
                   /\ spool' = Append(spool, batch)
                   /\ exposed' = exposed \cup
                         IF \E u \in Store : worker[u] = "replaying"
                         THEN {r.session : r \in ToSet(batch)} ELSE {}
                   /\ UNCHANGED <<rows, turns>>
    /\ UNCHANGED <<storeVars, handed, retired, worker, replay, recorded, lost, deaths,
                   crashes>>

\* The worker dies and is replaced: what it did not report is handed over again,
\* in its place before the rest.
WorkerDies(s) ==
    /\ worker[s] # "none" /\ deaths < MaxDeaths
    /\ deaths' = deaths + 1
    /\ worker' = [worker EXCEPT ![s] = "booting"]
    /\ replay' = [replay EXCEPT ![s] = NoReplay]
    /\ committed' = [committed EXCEPT ![s] = retired[s]]
    /\ reports' = [reports EXCEPT ![s] = <<>>]
    /\ UNCHANGED <<storeVars, handed, retired, diskVars, recorded, lost, exposed,
                   failures, crashes>>

\* The process ends, with every store it has and all they still hold.
ProcessEnds ==
    /\ In({"current"}) # {} /\ crashes < MaxCrashes
    /\ crashes' = crashes + 1
    /\ phase' = [s \in Store |->
                    IF phase[s] \in {"unopened", "closed"} THEN phase[s] ELSE "gone"]
    /\ lost' = lost \cup (TurnsOf(UNION {Held(s) : s \in Store})
                          \ TurnsOf(rows \cup RowsIn(spool)))
    /\ seq' = NoEntries /\ place' = NoEntries
    /\ handed' = [s \in Store |-> <<>>] /\ reports' = [s \in Store |-> <<>>]
    /\ committed' = [s \in Store |-> 0] /\ retired' = [s \in Store |-> 0]
    /\ worker' = [s \in Store |-> "none"] /\ replay' = [s \in Store |-> NoReplay]
    /\ UNCHANGED <<diskVars, recorded, exposed, failures, deaths>>

------------------------------------------------------------------------------
TurnLogInit ==
    /\ phase = [s \in Store |-> "unopened"]
    /\ seq = NoEntries /\ place = NoEntries
    /\ handed = [s \in Store |-> <<>>] /\ reports = [s \in Store |-> <<>>]
    /\ committed = [s \in Store |-> 0] /\ retired = [s \in Store |-> 0]
    /\ worker = [s \in Store |-> "none"] /\ replay = [s \in Store |-> NoReplay]
    /\ rows = {} /\ turns = [x \in Session |-> 0] /\ spool = <<>>
    /\ recorded = <<>> /\ lost = {} /\ exposed = {}
    /\ failures = 0 /\ deaths = 0 /\ crashes = 0

TurnLogNext ==
    \/ \E s \in Store :
          \/ OpenStore(s) \/ CloseStore(s) \/ Retire(s)
          \/ OpenIndex(s) \/ ReplayEntry(s) \/ EndReplay(s) \/ Commit(s) \/ WorkerDies(s)
    \/ \E x \in Session : Record(x)
    \/ Swap \/ SaveFails \/ ProcessEnds

TurnLogSpec == TurnLogInit /\ [][TurnLogNext]_turnLogVars

------------------------------------------------------------------------------
(* Properties.                                                             *)

\* listSessions() counts what listTurns() lists: the rollup is advanced row by
\* row and never recounted in the normal course, over repeated rows, replayed
\* batches and two writers at once.
RollupExact == \A x \in Session : turns[x] = Cardinality(RowsOf(rows, x))

\* "Metadata is never lost": a recorded turn is in the index, in the spool or
\* with a living writer, unless the process ended first, through failed commits,
\* failed and interrupted replays, dead workers and restarts.  The sessions
\* excepted are those whose numbering or whose spooled batch a second store
\* could not see, or that fell out of the map.
TurnsKept ==
    \A t \in DOMAIN recorded : recorded[t].session \notin exposed =>
        t \in lost \cup TurnsOf(Kept)

\* The same sessions are numbered in the order their turns were recorded, from
\* one and without a gap, so that the count of the rollup is the highest number,
\* which is what seedSeq() relies on.
NumberedInOrder ==
    \A r \in Kept : r.session \notin exposed =>
        r.seq = Cardinality({q \in RowsOf(Kept, r.session) : q.turn <= r.turn})

\* No turn is dropped, whatever a second store could see.
NoTurnDropped == DOMAIN recorded \subseteq lost \cup TurnsOf(Kept)
==============================================================================
