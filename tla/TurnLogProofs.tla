----------------------------- MODULE TurnLogProofs -----------------------------
(***************************************************************************)
(* Proofs about TurnLog, for any sessions, bounds, failures, deaths,       *)
(* restarts and reloads: types, the rollup counts exactly the rows, and a  *)
(* session that no second store overlapped keeps its turns and their       *)
(* order.                                                                  *)
(*                                                                         *)
(* A session is safe when it is not exposed.  The argument for a safe      *)
(* session: its rows are settled (in the index or in the spool) in the     *)
(* order they were recorded, what is not settled is still with the current *)
(* store, and the number last given is the number of its rows; so numbers  *)
(* never collide and INSERT OR IGNORE drops only rows that are there.      *)
(***************************************************************************)
EXTENDS TurnLog, FiniteSetTheorems, WellFoundedInduction, TLAPS

------------------------------------------------------------------------------
(* Sequences of rows and of batches.                                       *)

\* A set of naturals has a least member.
LEMMA LeastMember ==
    ASSUME NEW S \in SUBSET Nat, S # {}
    PROVE  \E n \in S : \A m \in S : n <= m
<1>1. PICK n \in S : \A m \in S : ~(<<m, n>> \in OpToRel(<, Nat))
  BY WFMin, NatLessThanWellFounded
<1>2. \A m \in S : ~(m < n)
  BY <1>1 DEF OpToRel
<1> QED BY <1>2

\* The rows of a batch are rows, finitely many.
LEMMA BatchRows ==
    ASSUME NEW batch \in Batch
    PROVE  ToSet(batch) \subseteq Row /\ IsFiniteSet(ToSet(batch))
<1>1. DOMAIN batch = 1..Len(batch) /\ Len(batch) \in Nat
  BY DEF Batch
<1>2. IsFiniteSet(1..Len(batch))
  BY <1>1, FS_Interval
<1>3. batch \in Surjection(1..Len(batch), ToSet(batch))
  BY <1>1 DEF ToSet, Surjection, Batch
<1>4. IsFiniteSet(ToSet(batch))
  BY <1>2, <1>3, FS_Surjection
<1> QED BY <1>4 DEF ToSet, Batch

\* What INSERT OR IGNORE adds is new and of the batch, and a number that the
\* batch asks for is taken afterwards.
LEMMA InsertedRows ==
    ASSUME NEW batch \in Batch, TurnLogTypeOK
    PROVE  /\ Inserted(batch) \subseteq ToSet(batch)
           /\ Inserted(batch) \subseteq Row /\ IsFiniteSet(Inserted(batch))
           /\ Inserted(batch) \cap rows = {}
           /\ \A r \in ToSet(batch) : \E q \in rows \cup Inserted(batch) : SameNumber(q, r)
<1>1. Inserted(batch) \subseteq ToSet(batch)
  BY DEF Inserted, ToSet
<1>2. Inserted(batch) \subseteq Row /\ IsFiniteSet(Inserted(batch))
  BY <1>1, BatchRows, FS_Subset
<1>3. Inserted(batch) \cap rows = {}
  BY DEF Inserted, SameNumber
<1>4. ASSUME NEW r \in ToSet(batch)
      PROVE  \E q \in rows \cup Inserted(batch) : SameNumber(q, r)
  <2> DEFINE same == {j \in DOMAIN batch : SameNumber(batch[j], r)}
  <2>1. same \in SUBSET Nat /\ same # {}
    BY DEF Batch, ToSet, SameNumber
  <2>2. PICK k \in same : \A j \in same : k <= j
    BY <2>1, LeastMember
  <2>3. CASE \E q \in rows : SameNumber(q, batch[k])
    BY <2>2, <2>3 DEF SameNumber
  <2>4. CASE \A q \in rows : ~SameNumber(q, batch[k])
    <3>1. ASSUME NEW j \in DOMAIN batch, j < k
          PROVE  ~SameNumber(batch[j], batch[k])
      <4>1. j \notin same
        BY <2>1, <2>2, <3>1 DEF Batch
      <4> QED BY <4>1, <2>2 DEF SameNumber
    <3>2. batch[k] \in Inserted(batch)
      BY <2>2, <2>4, <3>1 DEF Inserted
    <3> QED BY <3>2, <2>2
  <2> QED BY <2>3, <2>4
<1> QED BY <1>1, <1>2, <1>3, <1>4

------------------------------------------------------------------------------
(* Types and the rollup.                                                   *)

LogTypes == TurnLogTypeOK /\ IsFiniteSet(rows) /\ RollupExact

\* A commit moves the rollup by exactly the rows that it adds.
LEMMA CommitKeepsTypes ==
    ASSUME NEW batch \in Batch, LogTypes, CommitTurns(batch)
    PROVE  /\ rows' \subseteq Row /\ IsFiniteSet(rows')
           /\ turns' \in [Session -> Nat] /\ RollupExact'
<1> DEFINE new == Inserted(batch)
<1>1. /\ new \subseteq Row /\ IsFiniteSet(new) /\ new \cap rows = {}
      /\ rows' = rows \cup new /\ IsFiniteSet(rows) /\ rows \subseteq Row
  BY InsertedRows DEF LogTypes, CommitTurns, TurnLogTypeOK
<1>2. rows' \subseteq Row /\ IsFiniteSet(rows')
  BY <1>1, FS_Union
<1>3. ASSUME NEW x \in Session
      PROVE  /\ Cardinality(RowsOf(new, x)) \in Nat
             /\ Cardinality(RowsOf(rows', x))
                  = Cardinality(RowsOf(rows, x)) + Cardinality(RowsOf(new, x))
  <2>1. /\ IsFiniteSet(RowsOf(rows, x)) /\ IsFiniteSet(RowsOf(new, x))
    <3>1. RowsOf(rows, x) \in SUBSET rows /\ RowsOf(new, x) \in SUBSET new
      BY DEF RowsOf
    <3> QED BY <3>1, <1>1, FS_Subset
  <2>2. RowsOf(rows', x) = RowsOf(rows, x) \cup RowsOf(new, x)
    BY <1>1 DEF RowsOf
  <2>3. RowsOf(rows, x) \cap RowsOf(new, x) = {}
    BY <1>1 DEF RowsOf
  <2>4. /\ Cardinality(RowsOf(rows, x)) \in Nat /\ Cardinality(RowsOf(new, x)) \in Nat
    BY <2>1, FS_CardinalityType
  <2>5. Cardinality(RowsOf(rows, x) \cup RowsOf(new, x))
          = Cardinality(RowsOf(rows, x)) + Cardinality(RowsOf(new, x)) - 0
    BY <2>1, <2>3, FS_Union, FS_EmptySet
  <2> QED BY <2>2, <2>4, <2>5
<1>4. \A x \in Session : turns'[x] = turns[x] + Cardinality(RowsOf(new, x))
  BY DEF CommitTurns, CountInserted
<1>5. turns' \in [Session -> Nat]
  BY <1>3 DEF CommitTurns, CountInserted, LogTypes, TurnLogTypeOK
<1>6. RollupExact'
  BY <1>3, <1>4 DEF RollupExact, LogTypes
<1> QED BY <1>2, <1>5, <1>6

\* Deriving the rollup from the rows does not change it.
LEMMA RederiveKeepsRollup ==
    ASSUME NEW sessions, LogTypes, Rederive(sessions), rows' = rows
    PROVE  turns' = turns
<1>1. \A x \in Session : turns[x] = Cardinality(RowsOf(rows, x))
  BY DEF LogTypes, RollupExact
<1> QED BY <1>1 DEF Rederive, LogTypes, TurnLogTypeOK

LEMMA NoReplayType == NoReplay \in Replay
  BY DEF NoReplay, Replay, Batch

LEMMA OpenStoreTypes ==
    ASSUME LogTypes, NEW s \in Store, OpenStore(s)
    PROVE  LogTypes'
<1>1. \A x \in Session : PlaceInListing(x) \in Nat
  <2> SUFFICES ASSUME NEW x \in Session PROVE PlaceInListing(x) \in Nat
    OBVIOUS
  <2>1. IsFiniteSet({y \in Session : Newer(y, x)})
    BY TurnLogAssumption, FS_Subset
  <2> QED BY <2>1, FS_CardinalityType DEF PlaceInListing
<1>2. seq' \in [Store -> [Session -> Nat]] /\ place' \in [Store -> [Session -> Nat]]
  <2> DEFINE seeds == [x \in Session |-> SeedOf(x)]
             places == [x \in Session |-> PlaceInListing(x)]
  <2>1. seeds \in [Session -> Nat] /\ places \in [Session -> Nat]
    BY <1>1 DEF LogTypes, TurnLogTypeOK, SeedOf
  <2>2. /\ seq' = [seq EXCEPT ![s] = seeds] \/ seq' = seq
        /\ place' = [place EXCEPT ![s] = places] \/ place' = place
    BY DEF OpenStore
  <2> HIDE DEF seeds, places
  <2> QED BY <2>1, <2>2 DEF LogTypes, TurnLogTypeOK
<1>3. /\ phase' \in [Store -> {"unopened", "candidate", "current", "stopping", "idle",
                               "closed", "gone"}]
      /\ worker' \in [Store -> {"none", "booting", "replaying", "up"}]
  BY DEF OpenStore, LogTypes, TurnLogTypeOK
<1>4. exposed' \subseteq Session /\ failures' \in Nat
  BY DEF OpenStore, LogTypes, TurnLogTypeOK, Unseen, DiskWorks, DiskFails
<1> QED BY <1>2, <1>3, <1>4
    DEF OpenStore, LogTypes, TurnLogTypeOK, RollupExact, RowsOf, diskVars

LEMMA RecordTypes ==
    ASSUME LogTypes, NEW x \in Session, Record(x)
    PROVE  LogTypes'
<1>1. PICK s \in In({"current"}) :
         LET n == seq[s][x] + 1
             row == [session |-> x, seq |-> n, turn |-> Len(recorded) + 1]
         IN /\ Len(recorded) < MaxTurns
            /\ recorded' = Append(recorded, row)
            /\ seq' = [seq EXCEPT ![s] = [y \in Session |->
                          IF y \in Evicted(s, x) THEN 0 ELSE IF y = x THEN n ELSE @[y]]]
            /\ place' = [place EXCEPT ![s][x] = LastPlace]
            /\ handed' = [handed EXCEPT ![s] = Append(@, row)]
            /\ exposed' = exposed \cup Evicted(s, x)
                          \cup (IF In({"candidate"}) = {} THEN {} ELSE {x})
  BY DEF Record
<1> DEFINE row == [session |-> x, seq |-> seq[s][x] + 1, turn |-> Len(recorded) + 1]
<1>2. s \in Store /\ row \in Row
  <2>1. s \in Store /\ seq[s][x] + 1 \in Nat
    BY DEF In, LogTypes, TurnLogTypeOK
  <2>2. Len(recorded) + 1 \in Turn
    BY <1>1, TurnLogAssumption DEF Turn, LogTypes, TurnLogTypeOK, Batch
  <2> QED BY <2>1, <2>2 DEF Row
<1>3. recorded' \in Batch /\ handed' \in [Store -> Batch]
  <2> USE <1>2 DEF LogTypes, TurnLogTypeOK, Batch
  <2> HIDE DEF row
  <2>1. recorded' = Append(recorded, row) /\ handed' = [handed EXCEPT ![s] = Append(@, row)]
    BY <1>1 DEF row
  <2> QED BY <2>1
<1>4. seq' \in [Store -> [Session -> Nat]]
  BY <1>1, <1>2 DEF LogTypes, TurnLogTypeOK
<1>5. place' \in [Store -> [Session -> Nat]]
  <2>1. LastPlace \in Nat
    BY TurnLogAssumption, FS_CardinalityType DEF LastPlace, LogTypes, TurnLogTypeOK, Batch
  <2> QED BY <1>1, <1>2, <2>1 DEF LogTypes, TurnLogTypeOK
<1>6. exposed' \subseteq Session
  BY <1>1, <1>2 DEF Evicted, LogTypes, TurnLogTypeOK
<1> QED BY <1>3, <1>4, <1>5, <1>6
    DEF Record, LogTypes, TurnLogTypeOK, RollupExact, RowsOf, diskVars, boundVars

LEMMA ReplayTypes ==
    ASSUME LogTypes, NEW s \in Store, OpenIndex(s) \/ ReplayEntry(s) \/ EndReplay(s)
    PROVE  LogTypes'
<1>1. replay[s] \in Replay /\ spool \in Seq(Batch)
  BY DEF LogTypes, TurnLogTypeOK
<1>2. CASE OpenIndex(s)
  <2>1. [replay[s] EXCEPT !.entries = spool] \in Replay
    BY <1>1 DEF Replay
  <2>2. replay' \in [Store -> Replay]
    BY <1>2, <2>1 DEF OpenIndex, LogTypes, TurnLogTypeOK
  <2>3. worker' \in [Store -> {"none", "booting", "replaying", "up"}]
    BY <1>2 DEF OpenIndex, LogTypes, TurnLogTypeOK
  <2>4. failures' \in Nat
    BY <1>2 DEF OpenIndex, LogTypes, TurnLogTypeOK, DiskWorks, DiskFails
  <2> QED BY <1>2, <2>2, <2>3, <2>4 DEF OpenIndex, LogTypes, TurnLogTypeOK, RollupExact,
        RowsOf, diskVars, storeVars
<1>3. CASE ReplayEntry(s)
  <2> DEFINE entry == replay[s].entries[replay[s].next]
  <2>1. entry \in Batch
    BY <1>1, <1>3 DEF ReplayEntry, Replay
  <2>2. /\ [replay[s] EXCEPT !.next = @ + 1] \in Replay
        /\ [replay[s] EXCEPT !.next = @ + 1, !.failed = Append(@, entry)] \in Replay
    <3> DEFINE failed == Append(replay[s].failed, entry)
    <3>1. failed \in Seq(Batch)
      <4>1. replay[s].failed \in Seq(Batch)
        BY <1>1 DEF Replay
      <4> HIDE DEF entry
      <4> QED BY <2>1, <4>1
    <3>2. replay[s].next + 1 \in Nat \ {0}
      BY <1>1 DEF Replay
    <3> HIDE DEF entry, failed
    <3>3. [replay[s] EXCEPT !.next = @ + 1] \in Replay
      BY <1>1, <3>2 DEF Replay
    <3>4. [replay[s] EXCEPT !.next = @ + 1, !.failed = failed] \in Replay
      BY <1>1, <3>1, <3>2 DEF Replay
    <3> QED BY <3>3, <3>4 DEF failed
  <2>3. replay' \in [Store -> Replay]
    BY <1>3, <2>2 DEF ReplayEntry, LogTypes, TurnLogTypeOK
  <2>4. /\ rows' \subseteq Row /\ IsFiniteSet(rows')
        /\ turns' \in [Session -> Nat] /\ RollupExact'
    <3>1. CommitTurns(entry) \/ UNCHANGED <<rows, turns>>
      BY <1>3 DEF ReplayEntry
    <3> QED BY <2>1, <3>1, CommitKeepsTypes DEF LogTypes, TurnLogTypeOK, RollupExact, RowsOf
  <2> QED BY <1>3, <2>3, <2>4 DEF ReplayEntry, LogTypes, TurnLogTypeOK,
        storeVars, DiskWorks, DiskFails
<1>4. CASE EndReplay(s)
  <2>1. turns' = turns
    BY <1>4, RederiveKeepsRollup DEF EndReplay
  <2>2. spool' \in Seq(Batch)
    BY <1>1, <1>4 DEF EndReplay, LeftInSpool, Replay
  <2> QED BY <1>4, <2>1, <2>2, NoReplayType DEF EndReplay, LogTypes, TurnLogTypeOK,
        RollupExact, RowsOf, storeVars, DiskWorks, DiskFails
<1> QED BY <1>2, <1>3, <1>4

LEMMA CommitTypes ==
    ASSUME LogTypes, NEW s \in Store, Commit(s)
    PROVE  LogTypes'
<1>1. PICK n \in 1..MaxBatch :
         LET last == committed[s] + n
             batch == SubSeq(handed[s], committed[s] + 1, last)
         IN /\ last <= Len(handed[s])
            /\ committed' = [committed EXCEPT ![s] = last]
            /\ reports' = [reports EXCEPT ![s] = Append(@, last)]
            /\ \/ /\ CommitTurns(batch)
                  /\ UNCHANGED <<spool, exposed>>
               \/ /\ spool' = Append(spool, batch)
                  /\ exposed' = exposed \cup
                        IF \E u \in Store : worker[u] = "replaying"
                        THEN {r.session : r \in ToSet(batch)} ELSE {}
                  /\ UNCHANGED <<rows, turns>>
  BY DEF Commit
<1> DEFINE last == committed[s] + n
           batch == SubSeq(handed[s], committed[s] + 1, last)
<1>2. last \in Nat /\ committed[s] \in Nat /\ handed[s] \in Seq(Row)
  BY TurnLogAssumption DEF LogTypes, TurnLogTypeOK, Batch
<1>3. batch \in Batch
  BY <1>1, <1>2 DEF Batch
<1>4. committed' \in [Store -> Nat] /\ reports' \in [Store -> Seq(Nat)]
  BY <1>1, <1>2 DEF LogTypes, TurnLogTypeOK
<1>5. spool' \in Seq(Batch)
  <2>1. spool' = spool \/ spool' = Append(spool, batch)
    BY <1>1
  <2>2. spool \in Seq(Batch)
    BY DEF LogTypes, TurnLogTypeOK
  <2> HIDE DEF batch
  <2> QED BY <1>3, <2>1, <2>2
<1>6. exposed' \subseteq Session
  <2>1. {r.session : r \in ToSet(batch)} \subseteq Session
    BY <1>3, BatchRows DEF Row
  <2> QED BY <1>1, <2>1 DEF LogTypes, TurnLogTypeOK
<1>7. /\ rows' \subseteq Row /\ IsFiniteSet(rows')
      /\ turns' \in [Session -> Nat] /\ RollupExact'
  BY <1>1, <1>3, CommitKeepsTypes DEF LogTypes, TurnLogTypeOK, RollupExact, RowsOf
<1>8. failures' \in Nat
  BY DEF Commit, LogTypes, TurnLogTypeOK, DiskWorks, DiskFails
<1> QED BY <1>4, <1>5, <1>6, <1>7, <1>8 DEF Commit, LogTypes, TurnLogTypeOK, storeVars

\* The steps that leave the index and its rows alone.
LEMMA QuietTypes ==
    ASSUME LogTypes,
           \/ \E s \in Store : CloseStore(s) \/ Retire(s) \/ WorkerDies(s)
           \/ Swap \/ SaveFails \/ ProcessEnds \/ UNCHANGED turnLogVars
    PROVE  LogTypes'
<1> USE DEF LogTypes, TurnLogTypeOK, RollupExact, RowsOf
<1>1. ASSUME NEW s \in Store, CloseStore(s) PROVE LogTypes'
  BY <1>1 DEF CloseStore, diskVars, boundVars
<1>2. ASSUME NEW s \in Store, Retire(s) PROVE LogTypes'
  BY <1>2 DEF Retire, storeVars, diskVars, boundVars
<1>3. ASSUME NEW s \in Store, WorkerDies(s) PROVE LogTypes'
  BY <1>3, NoReplayType DEF WorkerDies, storeVars, diskVars
<1>4. CASE Swap
  BY <1>4 DEF Swap, writerVars, diskVars, boundVars
<1>5. CASE SaveFails
  BY <1>5 DEF SaveFails, writerVars, diskVars, DiskFails
<1>6. CASE ProcessEnds
  <2>1. \A s \in Store : handed[s] \in Seq(Row)
    BY DEF Batch
  <2>2. TurnsOf(UNION {Held(s) : s \in Store}) \subseteq Turn
    <3>1. \A s \in Store : Held(s) \subseteq Row
      BY <2>1 DEF Held
    <3> QED BY <3>1 DEF TurnsOf, Row
  <2>3. /\ phase' \in [Store -> {"unopened", "candidate", "current", "stopping", "idle",
                                 "closed", "gone"}]
        /\ lost' \subseteq Turn /\ crashes' \in Nat
    BY <1>6, <2>2 DEF ProcessEnds, TurnsOf
  <2>4. /\ seq' \in [Store -> [Session -> Nat]] /\ place' \in [Store -> [Session -> Nat]]
        /\ committed' \in [Store -> Nat] /\ retired' \in [Store -> Nat]
    BY <1>6 DEF ProcessEnds, NoEntries
  <2>5. /\ worker' \in [Store -> {"none", "booting", "replaying", "up"}]
        /\ replay' \in [Store -> Replay]
    BY <1>6, NoReplayType DEF ProcessEnds
  <2>6. handed' \in [Store -> Batch] /\ reports' \in [Store -> Seq(Nat)]
    BY <1>6 DEF ProcessEnds, Batch
  <2> QED BY <1>6, <2>3, <2>4, <2>5, <2>6 DEF ProcessEnds, diskVars
<1>7. CASE UNCHANGED turnLogVars
  BY <1>7 DEF turnLogVars, storeVars, writerVars, diskVars, boundVars
<1> QED BY <1>1, <1>2, <1>3, <1>4, <1>5, <1>6, <1>7

LEMMA InitTypes == TurnLogInit => LogTypes
<1> SUFFICES ASSUME TurnLogInit PROVE LogTypes
  OBVIOUS
<1>1. \A x \in Session : RowsOf(rows, x) = {}
  BY DEF TurnLogInit, RowsOf
<1>2. IsFiniteSet({}) /\ Cardinality({}) = 0
  BY FS_EmptySet
<1>3. RollupExact
  BY <1>1, <1>2 DEF TurnLogInit, RollupExact
<1> QED BY <1>2, <1>3, NoReplayType
    DEF TurnLogInit, LogTypes, TurnLogTypeOK, NoEntries, Batch

LEMMA NextTypes == LogTypes /\ [TurnLogNext]_turnLogVars => LogTypes'
  BY OpenStoreTypes, RecordTypes, ReplayTypes, CommitTypes, QuietTypes DEF TurnLogNext

\* Type correctness, and the rollup over every commit, replay, repetition and
\* restart.
THEOREM TurnLogTypes == TurnLogSpec => []LogTypes
<1> QED BY InitTypes, NextTypes, PTL DEF TurnLogSpec

\* TurnLogTypeOK in every reachable state.
THEOREM TurnLogTypeCorrect == TurnLogSpec => []TurnLogTypeOK
<1>1. LogTypes => TurnLogTypeOK
  BY DEF LogTypes
<1> QED BY TurnLogTypes, <1>1, PTL

\* RollupExact in every reachable state: listSessions() counts what listTurns()
\* lists.
THEOREM TurnLogRollupExact == TurnLogSpec => []RollupExact
<1>1. LogTypes => RollupExact
  BY DEF LogTypes
<1> QED BY TurnLogTypes, <1>1, PTL

------------------------------------------------------------------------------
(* The invariant.                                                          *)

\* The rows of the turns that no process took with it.
Live == {r \in ToSet(recorded) : r.turn \notin lost}
Settled == rows \cup RowsIn(spool)
Safe(x) == x \notin exposed
SafeRows(R) == {r \in R : Safe(r.session)}

\* Every row anywhere is the row of the turn it names, and a lost turn has none.
RealRows ==
    /\ \A t \in DOMAIN recorded : recorded[t].turn = t
    /\ lost \subseteq DOMAIN recorded
    /\ Settled \subseteq Live
    /\ \A s \in Store : /\ ToSet(handed[s]) \subseteq Live
                        /\ RowsIn(replay[s].entries) \subseteq Live
                        /\ RowsIn(replay[s].failed) \subseteq RowsIn(replay[s].entries)

\* A writer is given its rows in order and no row is given to two of them.
HandedInOrder ==
    /\ \A s \in Store : \A i, j \in DOMAIN handed[s] :
          i < j => handed[s][i].turn < handed[s][j].turn
    /\ \A s, u \in Store : ToSet(handed[s]) \cap ToSet(handed[u]) # {} => s = u
    /\ \A s \in Store : /\ retired[s] <= committed[s] /\ committed[s] <= Len(handed[s])
                        /\ \A n \in DOMAIN reports[s] : reports[s][n] <= committed[s]

\* What a worker has committed is settled.
CommittedSettled ==
    \A s \in Store : \A i \in DOMAIN handed[s] :
        i <= committed[s] /\ Safe(handed[s][i].session) => handed[s][i] \in Settled

\* One store at a time takes turns, and one at most is about to.
PhasesSound ==
    /\ \A s, u \in Store : phase[s] = "current" /\ phase[u] = "current" => s = u
    /\ \A s, u \in Store : phase[s] = "candidate" /\ phase[u] = "candidate" => s = u
    /\ \A s \in Store : phase[s] = "unopened" =>
          worker[s] = "none" /\ \A x \in Session : seq[s][x] = 0

\* What is not settled is with the current store, and nothing is unsettled when
\* another store is about to replace it.
UnsettledWithCurrent ==
    \A r \in Live \ Settled : Safe(r.session) =>
        /\ In({"candidate"}) = {}
        /\ \E s \in In({"current"}) : r \in ToSet(handed[s])

\* Rows are settled in the order of their turns.
SettledInOrder ==
    \A q, r \in Live : /\ q.turn < r.turn /\ q.session = r.session /\ Safe(r.session)
                       /\ r \in Settled
                       => q \in Settled

\* The live rows of a session up to turn t.
UpTo(x, t) == {q \in RowsOf(Live, x) : q.turn <= t}

\* The number of a row is its place among the rows of its session, and the
\* number last given is how many there are.
Numbered == \A r \in Live : Safe(r.session) => r.seq = Cardinality(UpTo(r.session, r.turn))
SeqCounts ==
    \A s \in In({"current", "candidate"}), x \in Session :
        Safe(x) => seq[s][x] = Cardinality(RowsOf(Live, x))

\* A replay leaves nothing out: what it read is still settled, the spool holds
\* nothing that it did not read, and what it has passed is in the index or will
\* be spooled again.
NothingLeftOut(s) ==
    /\ SafeRows(RowsIn(replay[s].entries)) \subseteq Settled
    /\ SafeRows(RowsIn(spool)) \subseteq rows \cup RowsIn(replay[s].entries)
    /\ \A i \in DOMAIN replay[s].entries : i < replay[s].next =>
          SafeRows(ToSet(replay[s].entries[i])) \subseteq rows \cup RowsIn(replay[s].failed)
ReplaySound ==
    \A s \in Store :
        IF worker[s] = "replaying" THEN NothingLeftOut(s) ELSE replay[s] = NoReplay

\* The parts that speak of rows and of the order they settle in, then all.
Order == SettledInOrder /\ Numbered
LogInv ==
    /\ LogTypes /\ RealRows /\ HandedInOrder /\ CommittedSettled /\ PhasesSound
    /\ UnsettledWithCurrent /\ Order /\ SeqCounts /\ ReplaySound

------------------------------------------------------------------------------
(* What the invariant says of rows.                                        *)

\* A turn has one live row.
LEMMA LiveRows ==
    ASSUME LogTypes, RealRows
    PROVE  /\ Live \subseteq Row /\ IsFiniteSet(Live)
           /\ \A r \in Live : r.turn \in DOMAIN recorded /\ recorded[r.turn] = r
           /\ \A t \in DOMAIN recorded \ lost : recorded[t] \in Live
           /\ \A x \in Session : /\ IsFiniteSet(RowsOf(Live, x))
                                 /\ Cardinality(RowsOf(Live, x)) \in Nat
<1>1. recorded \in Batch
  BY DEF LogTypes, TurnLogTypeOK
<1>2. Live \subseteq Row /\ IsFiniteSet(Live)
  BY <1>1, BatchRows, FS_Subset DEF Live
<1>3. \A r \in Live : r.turn \in DOMAIN recorded /\ recorded[r.turn] = r
  BY DEF Live, RealRows, ToSet
<1>4. \A t \in DOMAIN recorded \ lost : recorded[t] \in Live
  BY DEF Live, RealRows, ToSet
<1>5. ASSUME NEW x \in Session
      PROVE  IsFiniteSet(RowsOf(Live, x)) /\ Cardinality(RowsOf(Live, x)) \in Nat
  <2>1. RowsOf(Live, x) \in SUBSET Live
    BY DEF RowsOf
  <2> QED BY <2>1, <1>2, FS_Subset, FS_CardinalityType
<1> QED BY <1>2, <1>3, <1>4, <1>5

\* Two live rows of a safe session have different numbers: the rows up to the
\* earlier one are fewer.
LEMMA NumbersDiffer ==
    ASSUME LogTypes, RealRows, Numbered,
           NEW q \in Live, NEW r \in Live, Safe(r.session), SameNumber(q, r)
    PROVE  q = r
<1>1. /\ q.session = r.session /\ q.seq = r.seq
      /\ q.seq = Cardinality(UpTo(r.session, q.turn))
      /\ r.seq = Cardinality(UpTo(r.session, r.turn))
  BY DEF SameNumber, Numbered
<1>2. q \in Row /\ r \in Row
  BY LiveRows
<1>3. q.turn \in Int /\ r.turn \in Int /\ r.session \in Session
  BY <1>2 DEF Row, Turn
<1>4. ASSUME NEW a \in Live, NEW b \in Live, a.turn < b.turn,
             a.session = r.session, b.session = r.session,
             a.turn \in Int, b.turn \in Int
      PROVE  Cardinality(UpTo(r.session, a.turn)) # Cardinality(UpTo(r.session, b.turn))
  <2> DEFINE A == UpTo(r.session, a.turn)
             B == UpTo(r.session, b.turn)
  <2>1. A \subseteq B
    <3> SUFFICES ASSUME NEW p \in A PROVE p \in B
      OBVIOUS
    <3>1. p \in RowsOf(Live, r.session) /\ p.turn <= a.turn /\ p \in Live
      BY DEF UpTo, RowsOf
    <3>2. p.turn \in Int
      BY <3>1, LiveRows DEF Row, Turn
    <3>3. p.turn <= b.turn
      BY <1>4, <3>1, <3>2
    <3> QED BY <3>1, <3>3 DEF UpTo
  <2>2. b \in B /\ b \notin A
    BY <1>4 DEF UpTo, RowsOf
  <2>3. IsFiniteSet(B)
    BY <1>3, LiveRows, FS_Subset DEF UpTo
  <2>4. A \in SUBSET B /\ A # B
    BY <2>1, <2>2
  <2>5. IsFiniteSet(A) /\ Cardinality(A) <= Cardinality(B)
    BY <2>3, <2>4, FS_Subset
  <2> HIDE DEF A, B
  <2>6. Cardinality(A) # Cardinality(B)
    BY <2>3, <2>4, FS_Subset
  <2> QED BY <2>6 DEF A, B
<1>5. ~(q.turn < r.turn)
  BY <1>1, <1>3, <1>4
<1>6. ~(r.turn < q.turn)
  BY <1>1, <1>3, <1>4
<1>7. q.turn = r.turn
  BY <1>3, <1>5, <1>6
<1> QED BY <1>7, LiveRows

\* INSERT OR IGNORE leaves every safe row of a batch in the index.
LEMMA CommitSettles ==
    ASSUME LogTypes, RealRows, Numbered,
           NEW batch \in Batch, ToSet(batch) \subseteq Live, CommitTurns(batch)
    PROVE  /\ rows \subseteq rows' /\ rows' \subseteq rows \cup ToSet(batch)
           /\ SafeRows(ToSet(batch)) \subseteq rows'
<1>1. /\ rows' = rows \cup Inserted(batch)
      /\ Inserted(batch) \subseteq ToSet(batch)
      /\ \A r \in ToSet(batch) : \E q \in rows \cup Inserted(batch) : SameNumber(q, r)
  BY InsertedRows DEF CommitTurns, LogTypes
<1>2. rows \subseteq Live
  BY DEF RealRows, Settled
<1>3. ASSUME NEW r \in ToSet(batch), Safe(r.session)
      PROVE  r \in rows'
  <2>1. PICK q \in rows \cup Inserted(batch) : SameNumber(q, r)
    BY <1>1
  <2>2. q \in Live /\ r \in Live
    BY <1>1, <1>2
  <2>3. q = r
    BY <2>1, <2>2, <1>3, NumbersDiffer
  <2> QED BY <2>1, <2>3, <1>1
<1> QED BY <1>1, <1>3 DEF SafeRows

\* The rows that a set of batches holds.
LEMMA RowsInMember ==
    ASSUME NEW batches \in Seq(Batch)
    PROVE  /\ \A i \in DOMAIN batches : ToSet(batches[i]) \subseteq RowsIn(batches)
           /\ \A b \in Batch : RowsIn(Append(batches, b)) = RowsIn(batches) \cup ToSet(b)
<1>1. \A i \in DOMAIN batches : ToSet(batches[i]) \subseteq RowsIn(batches)
  BY DEF RowsIn
<1>2. ASSUME NEW b \in Batch
      PROVE  RowsIn(Append(batches, b)) = RowsIn(batches) \cup ToSet(b)
  <2> DEFINE more == Append(batches, b)
  <2>1. /\ DOMAIN more = DOMAIN batches \cup {Len(batches) + 1}
        /\ \A i \in DOMAIN batches : more[i] = batches[i]
        /\ more[Len(batches) + 1] = b
    OBVIOUS
  <2> HIDE DEF more
  <2>2. \A i \in DOMAIN more : ToSet(more[i]) \subseteq RowsIn(batches) \cup ToSet(b)
    BY <2>1 DEF RowsIn
  <2>3. RowsIn(batches) \cup ToSet(b) \subseteq RowsIn(more)
    BY <2>1 DEF RowsIn
  <2> QED BY <2>2, <2>3 DEF RowsIn, more
<1> QED BY <1>1, <1>2

\* The parts of the invariant that a step leaves alone when it records nothing,
\* exposes or loses no turn but the exposed ones', and settles nothing new.
Steady ==
    /\ UNCHANGED <<recorded, lost, handed>>
    /\ exposed \subseteq exposed'
    /\ Settled' \subseteq Live
    /\ \A r \in Live : Safe(r.session)' => (r \in Settled' <=> r \in Settled)

LEMMA SteadyKeepsOrder ==
    ASSUME LogInv, Steady
    PROVE  /\ Live' = Live /\ \A x \in Session : Safe(x)' => Safe(x)
           /\ Order'
<1>1. Live' = Live
  BY DEF Steady, Live
<1>2. \A x \in Session : Safe(x)' => Safe(x)
  BY DEF Steady, Safe
<1>3. \A r \in Live : r.session \in Session
  BY LiveRows DEF LogInv, Row
<1>4. SettledInOrder'
  BY <1>1, <1>2, <1>3 DEF SettledInOrder, LogInv, Order, Steady, Safe
<1>5. \A x, t : UpTo(x, t)' = UpTo(x, t)
  BY <1>1 DEF UpTo
<1>6. Numbered'
  BY <1>1, <1>2, <1>3, <1>5 DEF Numbered, LogInv, Order
<1> QED BY <1>1, <1>2, <1>4, <1>6 DEF Order

LEMMA SteadyKeepsCommitted ==
    ASSUME LogInv, Steady, \A s \in Store : committed'[s] <= committed[s],
           committed' \in [Store -> Nat]
    PROVE  CommittedSettled'
<1>1. SUFFICES ASSUME NEW s \in Store, NEW i \in DOMAIN handed'[s],
                      i <= committed'[s], Safe(handed[s][i].session)'
               PROVE  handed'[s][i] \in Settled'
  BY DEF CommittedSettled, Safe
<1> DEFINE r == handed[s][i]
<1>2. handed' = handed /\ i \in DOMAIN handed[s] /\ i \in Nat
  BY <1>1 DEF Steady, LogInv, LogTypes, TurnLogTypeOK, Batch
<1>3. r \in Live /\ r.session \in Session
  <2>1. r \in ToSet(handed[s])
    BY <1>2 DEF ToSet
  <2>2. r \in Live
    BY <2>1 DEF LogInv, RealRows
  <2> QED BY <2>2, LiveRows DEF LogInv, Row
<1>4. Safe(r.session)' /\ Safe(r.session)
  <2>1. Safe(r.session)'
    BY <1>1, <1>2 DEF Safe
  <2>2. r.session \notin exposed
    BY <2>1, <1>2 DEF Safe, Steady
  <2> QED BY <2>1, <2>2 DEF Safe
<1>5. i <= committed[s]
  BY <1>1, <1>2 DEF LogInv, LogTypes, TurnLogTypeOK
<1>6. r \in Settled
  BY <1>2, <1>4, <1>5 DEF LogInv, CommittedSettled
<1> QED BY <1>2, <1>3, <1>4, <1>6 DEF Steady

LEMMA SteadyKeepsUnsettled ==
    ASSUME LogInv, Steady,
           In({"current"}) \subseteq In({"current"})', In({"candidate"})' \subseteq In({"candidate"})
    PROVE  UnsettledWithCurrent'
<1>1. \A r \in Live : r.session \in Session
  BY LiveRows DEF LogInv, Row
<1>2. /\ Live' = Live /\ \A x \in Session : Safe(x)' => Safe(x)
      /\ handed' = handed
  BY SteadyKeepsOrder DEF Steady
<1>3. UnsettledWithCurrent
  BY DEF LogInv
<1> SUFFICES ASSUME NEW r \in Live, r \notin Settled', Safe(r.session)'
             PROVE  /\ In({"candidate"})' = {}
                    /\ \E s \in In({"current"})' : r \in ToSet(handed[s])
  BY <1>2 DEF UnsettledWithCurrent, Safe
<1>4. r \notin Settled /\ Safe(r.session)
  BY <1>1, <1>2 DEF Steady
<1>5. /\ In({"candidate"}) = {}
      /\ \E s \in In({"current"}) : r \in ToSet(handed[s])
  BY <1>3, <1>4 DEF UnsettledWithCurrent
<1> QED BY <1>5

LEMMA SteadyKeepsCounts ==
    ASSUME LogInv, Steady, seq' = seq,
           In({"current", "candidate"})' \subseteq In({"current", "candidate"})
    PROVE  SeqCounts'
<1>1. Live' = Live /\ \A x \in Session : Safe(x)' => Safe(x)
  BY SteadyKeepsOrder
<1> QED BY <1>1 DEF SeqCounts, LogInv

------------------------------------------------------------------------------
(* The steps that settle nothing.                                          *)

\* They leave the disk, the recorded turns and what the writers hold.
Quiet == UNCHANGED <<rows, spool, recorded, lost, handed>> /\ exposed \subseteq exposed'

LEMMA QuietIsSteady ==
    ASSUME LogInv, Quiet
    PROVE  /\ Steady /\ Order' /\ Live' = Live /\ Settled' = Settled
           /\ \A R : SafeRows(R)' \subseteq SafeRows(R)
<1>1. Settled' = Settled
  BY DEF Quiet, Settled, RowsIn
<1>2. Steady
  BY <1>1 DEF Quiet, Steady, LogInv, RealRows
<1>3. \A R : {r \in R : r.session \notin exposed'} \subseteq {r \in R : r.session \notin exposed}
  BY DEF Quiet
<1>4. \A R : SafeRows(R)' \subseteq SafeRows(R)
  BY <1>3 DEF SafeRows, Safe
<1> QED BY <1>1, <1>2, <1>4, SteadyKeepsOrder

\* A replay that such a step leaves alone.
LEMMA QuietReplay ==
    ASSUME LogInv, Quiet, NEW u \in Store, worker[u] = "replaying", replay'[u] = replay[u]
    PROVE  NothingLeftOut(u)'
<1>1. NothingLeftOut(u)
  BY DEF LogInv, ReplaySound
<1>2. /\ Settled' = Settled /\ rows' = rows /\ spool' = spool
      /\ RowsIn(spool)' = RowsIn(spool)
      /\ \A R : SafeRows(R)' \subseteq SafeRows(R)
  BY QuietIsSteady DEF Quiet, RowsIn
<1>3. /\ RowsIn(replay[u].entries)' = RowsIn(replay[u].entries)
      /\ RowsIn(replay[u].failed)' = RowsIn(replay[u].failed)
      /\ replay'[u].next = replay[u].next /\ replay'[u].entries = replay[u].entries
  BY DEF RowsIn
<1>4. SafeRows(RowsIn(replay[u].entries))' \subseteq Settled'
  BY <1>1, <1>2, <1>3 DEF NothingLeftOut, SafeRows
<1>5. SafeRows(RowsIn(spool))' \subseteq (rows \cup RowsIn(replay[u].entries))'
  BY <1>1, <1>2, <1>3 DEF NothingLeftOut, SafeRows
<1>6. ASSUME NEW i \in DOMAIN replay[u].entries, i < replay[u].next
      PROVE  SafeRows(ToSet(replay[u].entries[i]))' \subseteq (rows \cup RowsIn(replay[u].failed))'
  <2>1. SafeRows(ToSet(replay[u].entries[i])) \subseteq rows \cup RowsIn(replay[u].failed)
    BY <1>1, <1>6 DEF NothingLeftOut
  <2>2. (ToSet(replay[u].entries[i]))' = ToSet(replay[u].entries[i])
    BY DEF ToSet
  <2> QED BY <1>2, <1>3, <2>1, <2>2 DEF SafeRows
<1> QED BY <1>3, <1>4, <1>5, <1>6 DEF NothingLeftOut

\* What such a step preserves of the rows, given what it does to the replays.
LEMMA QuietRows ==
    ASSUME LogInv, Quiet,
           \A s \in Store : replay'[s] = replay[s] \/ replay'[s] = NoReplay
    PROVE  RealRows'
<1>1. Live' = Live /\ Settled' = Settled /\ RealRows
  BY QuietIsSteady DEF LogInv
<1>2. RowsIn(<<>>) = {}
  BY DEF RowsIn
<1>3. ASSUME NEW s \in Store
      PROVE  /\ ToSet(handed[s])' \subseteq Live
             /\ RowsIn(replay[s].entries)' \subseteq Live
             /\ RowsIn(replay[s].failed)' \subseteq RowsIn(replay[s].entries)'
  <2>1. ToSet(handed[s])' \subseteq Live
    BY DEF Quiet, RealRows, LogInv, ToSet
  <2>2. CASE replay'[s] = replay[s]
    BY <2>1, <2>2, <1>1 DEF RealRows, RowsIn
  <2>3. CASE replay'[s] = NoReplay
    BY <2>1, <2>3, <1>2 DEF NoReplay, RowsIn
  <2> QED BY <2>2, <2>3
<1> QED BY <1>1, <1>3 DEF RealRows, Quiet

\* What the writers hold stays in order.
LEMMA SameHanded ==
    ASSUME HandedInOrder, handed' = handed,
           \A s \in Store : /\ retired'[s] <= committed'[s] /\ committed'[s] <= Len(handed[s])
                            /\ \A n \in DOMAIN reports'[s] : reports'[s][n] <= committed'[s]
    PROVE  HandedInOrder'
<1>1. \A s \in Store : \A i, j \in DOMAIN handed'[s] :
          i < j => handed'[s][i].turn < handed'[s][j].turn
  BY DEF HandedInOrder
<1>2. \A s \in Store : ToSet(handed[s])' = ToSet(handed[s])
  BY DEF ToSet
<1>3. \A s, u \in Store : ToSet(handed[s])' \cap ToSet(handed[u])' # {} => s = u
  BY <1>2 DEF HandedInOrder
<1> QED BY <1>1, <1>3 DEF HandedInOrder

\* A report arrives.
LEMMA RetireInv ==
    ASSUME LogInv, NEW s \in Store, Retire(s)
    PROVE  LogInv'
<1>1. Quiet /\ UNCHANGED <<phase, seq, worker, replay, committed, exposed>>
  BY DEF Retire, Quiet, storeVars, diskVars
<1>2. LogTypes'
  BY NextTypes DEF LogInv, TurnLogNext
<1>3. RealRows'
  BY <1>1, QuietRows
<1>4. HandedInOrder'
  <2>1. HandedInOrder /\ reports[s] \in Seq(Nat) /\ reports[s] # <<>>
    BY DEF LogInv, LogTypes, TurnLogTypeOK, Retire
  <2>2. /\ Head(reports[s]) <= committed[s]
        /\ \A n \in DOMAIN Tail(reports[s]) : Tail(reports[s])[n] <= committed[s]
    BY <2>1 DEF HandedInOrder
  <2>3. \A u \in Store : /\ retired'[u] <= committed[u] /\ committed[u] <= Len(handed[u])
                         /\ \A n \in DOMAIN reports'[u] : reports'[u][n] <= committed[u]
    BY <2>1, <2>2 DEF Retire, HandedInOrder, LogInv, LogTypes, TurnLogTypeOK
  <2> QED BY <1>1, <2>1, <2>3, SameHanded DEF Quiet
<1>5. Steady /\ Order'
  BY <1>1, QuietIsSteady
<1>6. CommittedSettled'
  BY <1>1, <1>5, SteadyKeepsCommitted DEF LogInv, LogTypes, TurnLogTypeOK
<1>7. UnsettledWithCurrent' /\ SeqCounts' /\ PhasesSound'
  <2>1. \A P : In(P)' = In(P)
    BY <1>1 DEF In
  <2> QED BY <1>1, <1>5, <2>1, SteadyKeepsUnsettled, SteadyKeepsCounts
        DEF PhasesSound, LogInv
<1>8. ReplaySound'
  BY <1>1, QuietReplay DEF ReplaySound, LogInv
<1> QED BY <1>2, <1>3, <1>4, <1>5, <1>6, <1>7, <1>8 DEF LogInv

\* A stopped store closes.
LEMMA CloseStoreInv ==
    ASSUME LogInv, NEW s \in Store, CloseStore(s)
    PROVE  LogInv'
<1>1. Quiet /\ UNCHANGED <<seq, replay, committed, retired, reports, exposed>>
  BY DEF CloseStore, Quiet, diskVars
<1>2. LogTypes'
  BY NextTypes DEF LogInv, TurnLogNext
<1>3. RealRows'
  BY <1>1, QuietRows
<1>4. HandedInOrder'
  BY <1>1, SameHanded DEF LogInv, HandedInOrder, Quiet
<1>5. Steady /\ Order'
  BY <1>1, QuietIsSteady
<1>6. CommittedSettled'
  BY <1>1, <1>5, SteadyKeepsCommitted DEF LogInv, LogTypes, TurnLogTypeOK
<1>7. UnsettledWithCurrent' /\ SeqCounts' /\ PhasesSound'
  <2>1. /\ phase[s] = "stopping" /\ phase'[s] = "closed"
        /\ \A u \in Store \ {s} : phase'[u] = phase[u]
    BY DEF CloseStore, LogInv, LogTypes, TurnLogTypeOK
  <2>2. /\ In({"candidate"})' = In({"candidate"}) /\ In({"current"})' = In({"current"})
        /\ In({"current", "candidate"})' = In({"current", "candidate"})
    BY <2>1 DEF In
  <2>3. PhasesSound'
    <3>1. \A u \in Store : worker'[u] = IF u = s THEN "none" ELSE worker[u]
      BY DEF CloseStore, LogInv, LogTypes, TurnLogTypeOK
    <3> QED BY <1>1, <2>1, <3>1 DEF PhasesSound, LogInv
  <2> QED BY <1>1, <1>5, <2>2, <2>3, SteadyKeepsUnsettled, SteadyKeepsCounts
<1>8. ReplaySound'
  <2>1. /\ worker[s] = "up" /\ worker'[s] = "none"
        /\ \A u \in Store \ {s} : worker'[u] = worker[u]
    BY DEF CloseStore, LogInv, LogTypes, TurnLogTypeOK
  <2> QED BY <1>1, <2>1, QuietReplay DEF ReplaySound, LogInv
<1> QED BY <1>2, <1>3, <1>4, <1>5, <1>6, <1>7, <1>8 DEF LogInv

\* A worker dies: what it had not reported counts as not committed again.
LEMMA WorkerDiesInv ==
    ASSUME LogInv, NEW s \in Store, WorkerDies(s)
    PROVE  LogInv'
<1>1. Quiet /\ UNCHANGED <<phase, seq, retired, exposed>>
  BY DEF WorkerDies, Quiet, diskVars, storeVars
<1>2. LogTypes'
  BY NextTypes DEF LogInv, TurnLogNext
<1>3. RealRows'
  <2>1. \A u \in Store : replay'[u] = replay[u] \/ replay'[u] = NoReplay
    BY DEF WorkerDies, LogInv, LogTypes, TurnLogTypeOK
  <2> QED BY <1>1, <2>1, QuietRows
<1> USE DEF LogInv, LogTypes, TurnLogTypeOK
<1>4. \A u \in Store : /\ retired[u] <= committed'[u] /\ committed'[u] <= committed[u]
                       /\ committed'[u] <= Len(handed[u])
                       /\ \A n \in DOMAIN reports'[u] : reports'[u][n] <= committed'[u]
  <2>1. \A u \in Store : Len(handed[u]) \in Nat
    BY DEF Batch
  <2> QED BY <2>1 DEF WorkerDies, HandedInOrder
<1>5. HandedInOrder'
  BY <1>1, <1>4, SameHanded DEF Quiet
<1>6. Steady /\ Order'
  BY <1>1, QuietIsSteady
<1>7. CommittedSettled'
  BY <1>2, <1>4, <1>6, SteadyKeepsCommitted
<1>8. UnsettledWithCurrent' /\ SeqCounts' /\ PhasesSound'
  <2>1. \A P : In(P)' = In(P)
    BY <1>1 DEF In
  <2>2. worker[s] # "none" /\ \A u \in Store \ {s} : worker'[u] = worker[u]
    BY DEF WorkerDies
  <2>3. PhasesSound'
    BY <1>1, <2>2 DEF PhasesSound
  <2> QED BY <1>1, <1>6, <2>1, <2>3, SteadyKeepsUnsettled, SteadyKeepsCounts
<1>9. ReplaySound'
  BY <1>1, QuietReplay DEF WorkerDies, ReplaySound
<1> QED BY <1>2, <1>3, <1>5, <1>6, <1>7, <1>8, <1>9

\* The worker reads the spool, or defers it.
LEMMA OpenIndexInv ==
    ASSUME LogInv, NEW s \in Store, OpenIndex(s)
    PROVE  LogInv'
<1>1. Quiet /\ UNCHANGED <<phase, seq, retired, reports, committed, exposed>>
  BY DEF OpenIndex, Quiet, diskVars, storeVars
<1>2. LogTypes'
  BY NextTypes DEF LogInv, TurnLogNext
<1>3. /\ replay[s] = NoReplay
      /\ \A u \in Store \ {s} : replay'[u] = replay[u] /\ worker'[u] = worker[u]
      /\ \/ replay'[s] = [NoReplay EXCEPT !.entries = spool] /\ worker'[s] = "replaying"
         \/ replay'[s] = NoReplay /\ worker'[s] = "up"
  <2>1. worker[s] = "booting" /\ replay[s] = NoReplay
    BY DEF OpenIndex, LogInv, ReplaySound
  <2>2. replay \in [Store -> Replay] /\ worker \in [Store -> {"none", "booting", "replaying", "up"}]
    BY DEF LogInv, LogTypes, TurnLogTypeOK
  <2>3. CASE replay' = [replay EXCEPT ![s].entries = spool] /\ spool # <<>>
    BY <2>1, <2>2, <2>3 DEF OpenIndex
  <2>4. CASE replay' = [replay EXCEPT ![s].entries = spool] /\ spool = <<>>
    <3>1. replay'[s] = [NoReplay EXCEPT !.entries = <<>>]
      BY <2>1, <2>2, <2>4
    <3>2. [NoReplay EXCEPT !.entries = <<>>] = NoReplay
      BY DEF NoReplay
    <3> QED BY <2>1, <2>2, <2>4, <3>1, <3>2 DEF OpenIndex
  <2>5. CASE UNCHANGED replay
    BY <2>1, <2>2, <2>5 DEF OpenIndex
  <2> QED BY <2>3, <2>4, <2>5 DEF OpenIndex
<1>4. RowsIn(<<>>) = {}
  BY DEF RowsIn
<1>5. Live' = Live /\ Settled' = Settled /\ Steady /\ Order'
  BY <1>1, QuietIsSteady
<1>6. RealRows'
  <2>1. ASSUME NEW u \in Store
        PROVE  /\ RowsIn(replay[u].entries)' \subseteq Live
               /\ RowsIn(replay[u].failed)' \subseteq RowsIn(replay[u].entries)'
    <3>1. CASE replay'[u] = replay[u]
      BY <3>1 DEF LogInv, RealRows, RowsIn
    <3>2. CASE replay'[u] = NoReplay
      BY <3>2, <1>4 DEF NoReplay, RowsIn
    <3>3. CASE replay'[u] = [NoReplay EXCEPT !.entries = spool]
      <4>1. replay'[u].entries = spool /\ replay'[u].failed = <<>>
        BY <3>3 DEF NoReplay
      <4>2. RowsIn(spool) \subseteq Live
        BY DEF LogInv, RealRows, Settled
      <4> QED BY <4>1, <4>2, <1>4 DEF RowsIn
    <3> QED BY <1>3, <3>1, <3>2, <3>3
  <2>2. \A u \in Store : ToSet(handed[u])' \subseteq Live
    BY <1>1 DEF Quiet, RealRows, LogInv, ToSet
  <2> QED BY <1>1, <1>5, <2>1, <2>2 DEF RealRows, LogInv, Quiet
<1>7. HandedInOrder'
  BY <1>1, SameHanded DEF LogInv, HandedInOrder, Quiet
<1>8. CommittedSettled'
  BY <1>1, <1>5, SteadyKeepsCommitted DEF LogInv, LogTypes, TurnLogTypeOK
<1>9. UnsettledWithCurrent' /\ SeqCounts' /\ PhasesSound'
  <2>1. \A P : In(P)' = In(P)
    BY <1>1 DEF In
  <2>2. worker[s] = "booting"
    BY DEF OpenIndex
  <2>3. PhasesSound'
    BY <1>1, <1>3, <2>2 DEF PhasesSound, LogInv
  <2> QED BY <1>1, <1>5, <2>1, <2>3, SteadyKeepsUnsettled, SteadyKeepsCounts
<1>10. ReplaySound'
  <2>1. CASE worker'[s] = "replaying" /\ replay'[s] = [NoReplay EXCEPT !.entries = spool]
    <3>1. replay'[s].entries = spool /\ replay'[s].next = 1
      BY <2>1 DEF NoReplay
    <3>2. SafeRows(RowsIn(replay[s].entries))' \subseteq Settled'
      BY <1>1, <3>1, <1>5 DEF SafeRows, Settled, RowsIn, Quiet
    <3>3. SafeRows(RowsIn(spool))' \subseteq (rows \cup RowsIn(replay[s].entries))'
      BY <1>1, <3>1 DEF SafeRows, RowsIn, Quiet
    <3>4. \A i \in DOMAIN replay'[s].entries : ~(i < replay'[s].next)
      BY <3>1 DEF LogInv, LogTypes, TurnLogTypeOK
    <3>5. NothingLeftOut(s)'
      BY <3>2, <3>3, <3>4 DEF NothingLeftOut
    <3> QED BY <1>1, <1>3, <2>1, <3>5, QuietReplay DEF ReplaySound, LogInv
  <2>2. CASE worker'[s] = "up" /\ replay'[s] = NoReplay
    BY <1>1, <1>3, <2>2, QuietReplay DEF ReplaySound, LogInv
  <2> QED BY <1>3, <2>1, <2>2
<1> QED BY <1>2, <1>5, <1>6, <1>7, <1>8, <1>9, <1>10 DEF LogInv

\* The new runtime takes over, or is dropped.  Nothing safe was unsettled.
LEMMA SwapInv ==
    ASSUME LogInv, Swap \/ SaveFails
    PROVE  LogInv'
<1>1. /\ Quiet
      /\ UNCHANGED <<seq, place, committed, reports, retired, worker, replay, exposed>>
      /\ In({"candidate"}) # {}
  BY DEF Swap, SaveFails, Quiet, diskVars, writerVars
<1>2. LogTypes'
  BY NextTypes DEF LogInv, TurnLogNext
<1>3. RealRows'
  BY <1>1, QuietRows
<1>4. HandedInOrder'
  BY <1>1, SameHanded DEF LogInv, HandedInOrder, Quiet
<1>5. Steady /\ Order' /\ Live' = Live /\ Settled' = Settled
  BY <1>1, QuietIsSteady
<1>6. CommittedSettled'
  BY <1>1, <1>5, SteadyKeepsCommitted DEF LogInv, LogTypes, TurnLogTypeOK
<1>7. UnsettledWithCurrent'
  BY <1>1, <1>5 DEF UnsettledWithCurrent, LogInv, Safe
<1>8. \A s \in Store : /\ phase'[s] = "current" => phase[s] \in {"current", "candidate"}
                       /\ phase'[s] = "candidate" => FALSE
                       /\ phase'[s] = "unopened" => phase[s] = "unopened"
  BY DEF Swap, SaveFails
<1>9. PhasesSound'
  <2>1. PhasesSound
    BY DEF LogInv
  <2>2. CASE Swap
    BY <1>1, <1>8, <2>1, <2>2 DEF PhasesSound, Swap
  <2>3. CASE SaveFails
    BY <1>1, <1>8, <2>1, <2>3 DEF PhasesSound, SaveFails
  <2> QED BY <2>2, <2>3
<1>10. SeqCounts'
  <2>1. In({"current", "candidate"})' \subseteq In({"current", "candidate"})
    BY <1>8 DEF In
  <2> QED BY <1>1, <1>5, <2>1, SteadyKeepsCounts
<1>11. ReplaySound'
  BY <1>1, QuietReplay DEF ReplaySound, LogInv
<1> QED BY <1>2, <1>3, <1>4, <1>5, <1>6, <1>7, <1>9, <1>10, <1>11 DEF LogInv

\* Nothing happens.
LEMMA StutterInv ==
    ASSUME LogInv, UNCHANGED turnLogVars
    PROVE  LogInv'
<1>1. /\ Quiet
      /\ UNCHANGED <<phase, seq, place, committed, reports, retired, worker, replay, exposed>>
  BY DEF turnLogVars, storeVars, writerVars, diskVars, Quiet
<1>2. LogTypes'
  BY NextTypes DEF LogInv
<1>3. RealRows'
  BY <1>1, QuietRows
<1>4. HandedInOrder'
  BY <1>1, SameHanded DEF LogInv, HandedInOrder, Quiet
<1>5. Steady /\ Order'
  BY <1>1, QuietIsSteady
<1>6. CommittedSettled'
  BY <1>1, <1>5, SteadyKeepsCommitted DEF LogInv, LogTypes, TurnLogTypeOK
<1>7. UnsettledWithCurrent' /\ SeqCounts' /\ PhasesSound'
  <2>1. \A P : In(P)' = In(P)
    BY <1>1 DEF In
  <2> QED BY <1>1, <1>5, <2>1, SteadyKeepsUnsettled, SteadyKeepsCounts
        DEF PhasesSound, LogInv
<1>8. ReplaySound'
  BY <1>1, QuietReplay DEF ReplaySound, LogInv
<1> QED BY <1>2, <1>3, <1>4, <1>5, <1>6, <1>7, <1>8 DEF LogInv

\* A store is opened.  The sessions it may not see in full become exposed, so for
\* the others the rollup, which seeds its numbering, is the number of live rows.
LEMMA OpenStoreSees ==
    ASSUME LogInv, NEW s \in Store, OpenStore(s), NEW x \in Session, Safe(x)'
    PROVE  /\ Safe(x) /\ RowsOf(Live, x) = RowsOf(rows, x)
           /\ seq'[s][x] = Cardinality(RowsOf(Live, x))
<1>1. x \notin exposed /\ x \notin Unseen
  BY DEF OpenStore, Safe
<1>2. /\ LogTypes /\ RealRows /\ rows \subseteq Live
      /\ recorded \in Batch /\ rows \subseteq Row
  BY DEF LogInv, LogTypes, TurnLogTypeOK, RealRows, Settled
<1>3. ASSUME NEW r \in Live, r.session = x
      PROVE  r \in rows
  <2>1. r.turn \in DOMAIN recorded /\ recorded[r.turn] = r /\ r.turn \notin lost
    BY <1>2, LiveRows DEF Live
  <2>2. r.turn \in TurnsOf(rows)
    BY <1>1, <1>3, <2>1 DEF Unseen
  <2>3. PICK q \in rows : q.turn = r.turn
    BY <2>2 DEF TurnsOf
  <2>4. q = r
    BY <1>2, <2>1, <2>3, LiveRows
  <2> QED BY <2>3, <2>4
<1>4. RowsOf(Live, x) = RowsOf(rows, x)
  BY <1>2, <1>3 DEF RowsOf
<1>5. turns[x] = Cardinality(RowsOf(Live, x))
  BY <1>2, <1>4 DEF LogTypes, RollupExact
<1>6. seq'[s][x] = turns[x]
  <2>1. seq \in [Store -> [Session -> Nat]] /\ turns \in [Session -> Nat]
    BY DEF LogInv, LogTypes, TurnLogTypeOK
  <2>2. CASE seq' = [seq EXCEPT ![s] = [y \in Session |-> SeedOf(y)]]
    BY <2>1, <2>2 DEF SeedOf
  <2>3. CASE seq' = seq /\ exposed' = exposed \cup Unseen \cup {y \in Session : turns[y] > 0}
    <3>1. turns[x] = 0
      BY <2>1, <2>3 DEF Safe
    <3>2. seq[s][x] = 0
      BY DEF OpenStore, LogInv, PhasesSound
    <3> QED BY <2>3, <3>1, <3>2
  <2> QED BY <2>2, <2>3 DEF OpenStore
<1> QED BY <1>1, <1>4, <1>5, <1>6 DEF Safe

LEMMA OpenStoreInv ==
    ASSUME LogInv, NEW s \in Store, OpenStore(s)
    PROVE  LogInv'
<1>1. Quiet /\ UNCHANGED <<committed, reports, retired, replay>>
  BY DEF OpenStore, Quiet, diskVars
<1>2. LogTypes'
  BY NextTypes DEF LogInv, TurnLogNext
<1>3. RealRows'
  BY <1>1, QuietRows
<1>4. HandedInOrder'
  BY <1>1, SameHanded DEF LogInv, HandedInOrder, Quiet
<1>5. Steady /\ Order' /\ Live' = Live /\ Settled' = Settled
  BY <1>1, QuietIsSteady
<1>6. CommittedSettled'
  BY <1>1, <1>5, SteadyKeepsCommitted DEF LogInv, LogTypes, TurnLogTypeOK
<1>7. UnsettledWithCurrent'
  <2>1. ASSUME NEW r \in Live, Safe(r.session)'
        PROVE  r \in Settled
    <3>1. r.session \in Session
      BY LiveRows DEF LogInv, Row
    <3> QED BY <2>1, <3>1, OpenStoreSees DEF RowsOf, Settled
  <2> QED BY <1>5, <2>1 DEF UnsettledWithCurrent, Safe
<1>8. /\ phase[s] = "unopened" /\ \A u \in Store \ {s} : phase'[u] = phase[u] /\ seq'[u] = seq[u]
      /\ \A u \in Store : phase[u] # "candidate"
      /\ \/ phase'[s] = "current" /\ \A u \in Store : phase[u] # "current"
         \/ phase'[s] = "candidate"
  <2>1. /\ phase \in [Store -> {"unopened", "candidate", "current", "stopping", "idle",
                                "closed", "gone"}]
        /\ seq \in [Store -> [Session -> Nat]]
    BY DEF LogInv, LogTypes, TurnLogTypeOK
  <2> QED BY <2>1 DEF OpenStore, In
<1>9. PhasesSound'
  <2>1. \A u \in Store \ {s} : worker'[u] = worker[u]
    BY DEF OpenStore, LogInv, LogTypes, TurnLogTypeOK
  <2> QED BY <1>8, <2>1 DEF PhasesSound, LogInv
<1>10. SeqCounts'
  <2> SUFFICES ASSUME NEW u \in In({"current", "candidate"})', NEW x \in Session, Safe(x)'
               PROVE  seq'[u][x] = Cardinality(RowsOf(Live, x))
    BY <1>5 DEF SeqCounts, Safe
  <2>1. CASE u = s
    BY <2>1, OpenStoreSees
  <2>2. CASE u # s
    <3>1. u \in Store /\ u \in In({"current", "candidate"}) /\ seq'[u] = seq[u]
      BY <1>8, <2>2 DEF In
    <3> QED BY <3>1, OpenStoreSees DEF SeqCounts, LogInv
  <2> QED BY <2>1, <2>2
<1>11. ReplaySound'
  <2>1. /\ worker'[s] = "booting" /\ \A u \in Store \ {s} : worker'[u] = worker[u]
    BY DEF OpenStore, LogInv, LogTypes, TurnLogTypeOK
  <2>2. worker[s] # "replaying"
    BY <1>8 DEF LogInv, PhasesSound
  <2> QED BY <1>1, <2>1, <2>2, QuietReplay DEF ReplaySound, LogInv
<1> QED BY <1>2, <1>3, <1>4, <1>5, <1>6, <1>7, <1>9, <1>10, <1>11 DEF LogInv

------------------------------------------------------------------------------
(* The steps of the writer's thread that settle rows.                      *)

\* A replay that such a step of another worker leaves alone.
LEMMA OtherReplay ==
    ASSUME LogInv, NEW u \in Store, worker[u] = "replaying", replay'[u] = replay[u],
           rows \subseteq rows', exposed \subseteq exposed',
           \A r \in Settled : Safe(r.session)' => r \in Settled',
           \A r \in RowsIn(spool)' : Safe(r.session)' => r \in rows' \cup RowsIn(replay[u].entries)
    PROVE  NothingLeftOut(u)'
<1>1. NothingLeftOut(u)
  BY DEF LogInv, ReplaySound
<1>2. /\ RowsIn(replay[u].entries)' = RowsIn(replay[u].entries)
      /\ RowsIn(replay[u].failed)' = RowsIn(replay[u].failed)
      /\ replay'[u].next = replay[u].next /\ replay'[u].entries = replay[u].entries
  BY DEF RowsIn
<1>3. \A R : SafeRows(R)' \subseteq SafeRows(R)
  BY DEF SafeRows, Safe
<1>4. SafeRows(RowsIn(replay[u].entries))' \subseteq Settled'
  BY <1>1, <1>2 DEF NothingLeftOut, SafeRows, Safe
<1>5. SafeRows(RowsIn(spool))' \subseteq (rows \cup RowsIn(replay[u].entries))'
  BY <1>2 DEF SafeRows, Safe
<1>6. ASSUME NEW i \in DOMAIN replay[u].entries, i < replay[u].next
      PROVE  SafeRows(ToSet(replay[u].entries[i]))' \subseteq (rows \cup RowsIn(replay[u].failed))'
  <2>1. SafeRows(ToSet(replay[u].entries[i])) \subseteq rows \cup RowsIn(replay[u].failed)
    BY <1>1, <1>6 DEF NothingLeftOut
  <2>2. (ToSet(replay[u].entries[i]))' = ToSet(replay[u].entries[i])
    BY DEF ToSet
  <2> QED BY <1>2, <1>3, <2>1, <2>2 DEF SafeRows
<1> QED BY <1>2, <1>4, <1>5, <1>6 DEF NothingLeftOut

\* The next entry is applied, or kept to be spooled again.
LEMMA ReplayEntryFacts ==
    ASSUME LogInv, NEW s \in Store, ReplayEntry(s)
    PROVE  LET entry == replay[s].entries[replay[s].next] IN
           /\ replay[s] \in Replay /\ replay[s].next \in DOMAIN replay[s].entries
           /\ worker[s] = "replaying" /\ worker' = worker /\ NothingLeftOut(s)
           /\ entry \in Batch /\ ToSet(entry) \subseteq RowsIn(replay[s].entries)
           /\ RowsIn(replay[s].entries) \subseteq Live
           /\ \A u \in Store \ {s} : replay'[u] = replay[u]
           /\ replay'[s].entries = replay[s].entries /\ replay'[s].next = replay[s].next + 1
           /\ rows \subseteq rows' /\ rows' \subseteq rows \cup ToSet(entry)
           /\ \/ replay'[s].failed = replay[s].failed /\ SafeRows(ToSet(entry)) \subseteq rows'
              \/ RowsIn(replay[s].failed)' = RowsIn(replay[s].failed) \cup ToSet(entry)
<1> DEFINE entry == replay[s].entries[replay[s].next]
<1>1. /\ replay \in [Store -> Replay] /\ replay[s] \in Replay
      /\ replay[s].entries \in Seq(Batch) /\ replay[s].failed \in Seq(Batch)
      /\ replay[s].next \in Nat \ {0}
  BY DEF LogInv, LogTypes, TurnLogTypeOK, Replay
<1>2. /\ worker[s] = "replaying" /\ worker' = worker /\ NothingLeftOut(s)
      /\ replay[s].next \in DOMAIN replay[s].entries
  BY <1>1 DEF ReplayEntry, LogInv, ReplaySound
<1>3. entry \in Batch /\ ToSet(entry) \subseteq RowsIn(replay[s].entries)
  BY <1>1, <1>2 DEF RowsIn
<1>4. RowsIn(replay[s].entries) \subseteq Live
  BY DEF LogInv, RealRows
<1>5. ToSet(entry) \subseteq Live
  BY <1>3, <1>4
<1>6. \/ CommitTurns(entry) /\ replay' = [replay EXCEPT ![s].next = @ + 1]
      \/ /\ replay' = [replay EXCEPT ![s].next = @ + 1, ![s].failed = Append(@, entry)]
         /\ rows' = rows
  BY DEF ReplayEntry
<1> HIDE DEF entry
<1>7. /\ \A u \in Store \ {s} : replay'[u] = replay[u]
      /\ replay'[s].entries = replay[s].entries /\ replay'[s].next = replay[s].next + 1
  BY <1>1, <1>6 DEF Replay
<1>8. /\ rows \subseteq rows' /\ rows' \subseteq rows \cup ToSet(entry)
      /\ \/ replay'[s].failed = replay[s].failed /\ SafeRows(ToSet(entry)) \subseteq rows'
         \/ RowsIn(replay[s].failed)' = RowsIn(replay[s].failed) \cup ToSet(entry)
  <2>1. CASE CommitTurns(entry) /\ replay' = [replay EXCEPT ![s].next = @ + 1]
    <3>1. replay'[s].failed = replay[s].failed
      BY <1>1, <2>1 DEF Replay
    <3> QED BY <1>3, <1>5, <2>1, <3>1, CommitSettles DEF LogInv, Order
  <2>2. CASE /\ replay' = [replay EXCEPT ![s].next = @ + 1, ![s].failed = Append(@, entry)]
             /\ rows' = rows
    <3>1. replay'[s].failed = Append(replay[s].failed, entry)
      BY <1>1, <2>2 DEF Replay
    <3>2. RowsIn(replay[s].failed)' = RowsIn(Append(replay[s].failed, entry))
      BY <3>1 DEF RowsIn
    <3> QED BY <1>1, <1>3, <2>2, <3>2, RowsInMember
  <2> QED BY <1>6, <2>1, <2>2
<1> QED BY <1>1, <1>2, <1>3, <1>4, <1>7, <1>8 DEF entry

LEMMA ReplayEntryInv ==
    ASSUME LogInv, NEW s \in Store, ReplayEntry(s)
    PROVE  LogInv'
<1> DEFINE entry == replay[s].entries[replay[s].next]
<1>1. /\ UNCHANGED <<phase, seq, handed, committed, reports, retired, worker, spool,
                     recorded, lost, exposed>>
  BY DEF ReplayEntry, storeVars
<1>2. /\ replay[s] \in Replay /\ replay[s].next \in DOMAIN replay[s].entries
      /\ worker[s] = "replaying" /\ worker' = worker /\ NothingLeftOut(s)
      /\ entry \in Batch /\ ToSet(entry) \subseteq RowsIn(replay[s].entries)
      /\ RowsIn(replay[s].entries) \subseteq Live
      /\ \A u \in Store \ {s} : replay'[u] = replay[u]
      /\ replay'[s].entries = replay[s].entries /\ replay'[s].next = replay[s].next + 1
      /\ rows \subseteq rows' /\ rows' \subseteq rows \cup ToSet(entry)
  BY ReplayEntryFacts
<1>3. \/ replay'[s].failed = replay[s].failed /\ SafeRows(ToSet(entry)) \subseteq rows'
      \/ RowsIn(replay[s].failed)' = RowsIn(replay[s].failed) \cup ToSet(entry)
  BY ReplayEntryFacts
<1>4. LogTypes'
  BY NextTypes DEF LogInv, TurnLogNext
<1> HIDE DEF entry
<1>5. /\ RowsIn(spool)' = RowsIn(spool) /\ Settled \subseteq Settled'
      /\ Settled' \subseteq Settled \cup ToSet(entry)
      /\ \A R : SafeRows(R)' = SafeRows(R) /\ \A x : Safe(x)' <=> Safe(x)
  BY <1>1, <1>2 DEF Settled, RowsIn, SafeRows, Safe
<1>6. Steady
  <2>1. Settled' \subseteq Live
    BY <1>2, <1>5 DEF LogInv, RealRows
  <2>2. ASSUME NEW r \in ToSet(entry), Safe(r.session)'
        PROVE  r \in Settled
    BY <1>1, <1>2, <2>2 DEF NothingLeftOut, SafeRows, Safe
  <2> QED BY <1>1, <1>5, <2>1, <2>2 DEF Steady
<1>7. Live' = Live /\ Order'
  BY <1>6, SteadyKeepsOrder
<1>8. RealRows'
  <2>1. ASSUME NEW u \in Store
        PROVE  /\ RowsIn(replay[u].entries)' \subseteq Live
               /\ RowsIn(replay[u].failed)' \subseteq RowsIn(replay[u].entries)'
    <3>1. RowsIn(replay[u].failed) \subseteq RowsIn(replay[u].entries)
      BY DEF LogInv, RealRows
    <3>2. CASE u = s
      <4>1. RowsIn(replay[s].entries)' = RowsIn(replay[s].entries)
        BY <1>2 DEF RowsIn
      <4>2. \/ RowsIn(replay[s].failed)' = RowsIn(replay[s].failed)
            \/ RowsIn(replay[s].failed)' = RowsIn(replay[s].failed) \cup ToSet(entry)
        BY <1>3 DEF RowsIn
      <4> QED BY <1>2, <3>1, <3>2, <4>1, <4>2
    <3>3. CASE u # s
      <4>1. replay'[u] = replay[u]
        BY <1>2, <3>3
      <4> QED BY <3>1, <4>1 DEF LogInv, RealRows, RowsIn
    <3> QED BY <3>2, <3>3
  <2>2. \A u \in Store : ToSet(handed[u])' \subseteq Live
    BY <1>1 DEF RealRows, LogInv, ToSet
  <2> QED BY <1>1, <1>6, <1>7, <2>1, <2>2 DEF RealRows, LogInv, Steady
<1>9. HandedInOrder'
  BY <1>1, SameHanded DEF LogInv, HandedInOrder
<1>10. CommittedSettled'
  BY <1>1, <1>6, SteadyKeepsCommitted DEF LogInv, LogTypes, TurnLogTypeOK
<1>11. UnsettledWithCurrent' /\ SeqCounts' /\ PhasesSound'
  <2>1. \A P : In(P)' = In(P)
    BY <1>1 DEF In
  <2> QED BY <1>1, <1>6, <2>1, SteadyKeepsUnsettled, SteadyKeepsCounts DEF PhasesSound, LogInv
<1>12. ReplaySound'
  <2>1. NothingLeftOut(s)'
    <3>1. RowsIn(replay[s].entries)' = RowsIn(replay[s].entries)
      BY <1>2 DEF RowsIn
    <3>2. RowsIn(replay[s].failed) \subseteq RowsIn(replay[s].failed)'
      BY <1>3 DEF RowsIn
    <3>3. ASSUME NEW i \in DOMAIN replay[s].entries, i < replay[s].next + 1
          PROVE  SafeRows(ToSet(replay[s].entries[i])) \subseteq rows' \cup RowsIn(replay[s].failed)'
      <4>1. CASE i < replay[s].next
        BY <1>2, <3>2, <4>1 DEF NothingLeftOut
      <4>2. CASE i = replay[s].next
        <5>1. SafeRows(ToSet(entry)) \subseteq ToSet(entry)
          BY DEF SafeRows
        <5> QED BY <1>3, <4>2, <5>1 DEF entry
      <4>3. i \in Int /\ replay[s].next \in Int
        BY <1>2 DEF Replay
      <4> QED BY <3>3, <4>1, <4>2, <4>3
    <3>4. ASSUME NEW i \in DOMAIN replay'[s].entries, i < replay'[s].next
          PROVE  SafeRows(ToSet(replay[s].entries[i]))' \subseteq (rows \cup RowsIn(replay[s].failed))'
      <4>1. ToSet(replay[s].entries[i])' = ToSet(replay[s].entries[i])
        BY <1>2 DEF ToSet
      <4> QED BY <1>2, <1>5, <3>3, <3>4, <4>1 DEF SafeRows
    <3>5. SafeRows(RowsIn(replay[s].entries))' \subseteq Settled'
      BY <1>2, <1>5, <3>1 DEF NothingLeftOut, SafeRows
    <3>6. SafeRows(RowsIn(spool))' \subseteq (rows \cup RowsIn(replay[s].entries))'
      BY <1>2, <1>5, <3>1 DEF NothingLeftOut, SafeRows
    <3> QED BY <3>4, <3>5, <3>6 DEF NothingLeftOut
  <2>2. ASSUME NEW u \in Store, u # s, worker[u] = "replaying"
        PROVE  NothingLeftOut(u)'
    <3>1. replay'[u] = replay[u]
      BY <1>2, <2>2
    <3>2. \A r \in RowsIn(spool)' : Safe(r.session)' => r \in rows' \cup RowsIn(replay[u].entries)
      BY <1>2, <1>5, <2>2 DEF NothingLeftOut, ReplaySound, LogInv, SafeRows
    <3> QED BY <1>1, <1>2, <1>5, <2>2, <3>1, <3>2, OtherReplay
  <2>3. \A u \in Store \ {s} : replay'[u] = replay[u]
    BY <1>2
  <2> QED BY <1>2, <2>1, <2>2, <2>3 DEF ReplaySound, LogInv
<1> QED BY <1>4, <1>7, <1>8, <1>9, <1>10, <1>11, <1>12 DEF LogInv

\* A replay ends: the spool is cleared of what was applied.
LEMMA EndReplayInv ==
    ASSUME LogInv, NEW s \in Store, EndReplay(s)
    PROVE  LogInv'
<1> DEFINE failed == replay[s].failed
<1>1. /\ UNCHANGED <<phase, seq, handed, committed, reports, retired, rows, recorded,
                     lost, exposed>>
      /\ spool' = failed \/ spool' = spool
  BY DEF EndReplay, storeVars, LeftInSpool
<1>2. LogTypes'
  BY NextTypes DEF LogInv, TurnLogNext
<1>3. /\ worker[s] = "replaying" /\ worker'[s] = "up" /\ replay'[s] = NoReplay
      /\ \A u \in Store \ {s} : worker'[u] = worker[u] /\ replay'[u] = replay[u]
      /\ NothingLeftOut(s) /\ replay[s] \in Replay
  BY DEF EndReplay, LogInv, ReplaySound, LogTypes, TurnLogTypeOK
<1>4. \A r \in RowsIn(replay[s].entries) : Safe(r.session) => r \in rows \cup RowsIn(failed)
  <2> SUFFICES ASSUME NEW r \in RowsIn(replay[s].entries), Safe(r.session)
               PROVE  r \in rows \cup RowsIn(failed)
    OBVIOUS
  <2>1. PICK i \in DOMAIN replay[s].entries : r \in ToSet(replay[s].entries[i])
    BY DEF RowsIn
  <2>2. i < replay[s].next
    BY <1>3, <2>1 DEF EndReplay, Replay
  <2> QED BY <1>3, <2>1, <2>2 DEF NothingLeftOut, SafeRows
<1>5. /\ RowsIn(failed) \subseteq RowsIn(replay[s].entries)
      /\ RowsIn(replay[s].entries) \subseteq Live
  BY DEF LogInv, RealRows
<1>6. /\ RowsIn(spool)' = RowsIn(failed) \/ RowsIn(spool)' = RowsIn(spool)
      /\ \A x : Safe(x)' <=> Safe(x)
  BY <1>1 DEF RowsIn, Safe
<1> HIDE DEF failed
<1>7. /\ Settled' \subseteq Live
      /\ \A r \in Live : Safe(r.session) => (r \in Settled' <=> r \in Settled)
  <2>1. Settled' = rows \cup RowsIn(spool)'
    BY <1>1 DEF Settled
  <2>2. Settled \subseteq Live /\ Settled = rows \cup RowsIn(spool)
    BY DEF LogInv, RealRows, Settled
  <2>3. CASE RowsIn(spool)' = RowsIn(spool)
    BY <2>1, <2>2, <2>3
  <2>4. CASE RowsIn(spool)' = RowsIn(failed)
    <3>1. Settled' \subseteq Live
      BY <1>5, <2>1, <2>2, <2>4
    <3>2. ASSUME NEW r \in Live, Safe(r.session), r \in Settled' PROVE r \in Settled
      BY <1>3, <1>5, <2>1, <2>2, <2>4, <3>2 DEF NothingLeftOut, SafeRows
    <3>3. ASSUME NEW r \in Live, Safe(r.session), r \in Settled PROVE r \in Settled'
      BY <1>3, <1>4, <2>1, <2>2, <2>4, <3>3 DEF NothingLeftOut, SafeRows
    <3> QED BY <3>1, <3>2, <3>3
  <2> QED BY <1>6, <2>3, <2>4
<1>8. Steady
  BY <1>1, <1>6, <1>7 DEF Steady
<1>9. Live' = Live /\ Order'
  BY <1>8, SteadyKeepsOrder
<1>10. RealRows'
  <2>1. RowsIn(<<>>) = {}
    BY DEF RowsIn
  <2>2. ASSUME NEW u \in Store
        PROVE  /\ RowsIn(replay[u].entries)' \subseteq Live
               /\ RowsIn(replay[u].failed)' \subseteq RowsIn(replay[u].entries)'
    <3>1. CASE u = s
      BY <1>3, <2>1, <3>1 DEF NoReplay, RowsIn
    <3>2. CASE u # s
      BY <1>3, <3>2 DEF LogInv, RealRows, RowsIn
    <3> QED BY <3>1, <3>2
  <2>3. \A u \in Store : ToSet(handed[u])' \subseteq Live
    BY <1>1 DEF RealRows, LogInv, ToSet
  <2> QED BY <1>1, <1>7, <1>9, <2>2, <2>3 DEF RealRows, LogInv
<1>11. HandedInOrder'
  BY <1>1, SameHanded DEF LogInv, HandedInOrder
<1>12. CommittedSettled'
  BY <1>1, <1>8, SteadyKeepsCommitted DEF LogInv, LogTypes, TurnLogTypeOK
<1>13. UnsettledWithCurrent' /\ SeqCounts' /\ PhasesSound'
  <2>1. \A P : In(P)' = In(P)
    BY <1>1 DEF In
  <2>2. PhasesSound'
    BY <1>1, <1>3 DEF PhasesSound, LogInv
  <2> QED BY <1>1, <1>8, <2>1, <2>2, SteadyKeepsUnsettled, SteadyKeepsCounts
<1>14. ReplaySound'
  <2>1. ASSUME NEW u \in Store, u # s, worker[u] = "replaying"
        PROVE  NothingLeftOut(u)'
    <3>1. NothingLeftOut(u)
      BY <2>1 DEF LogInv, ReplaySound
    <3>2. \A r \in RowsIn(spool) : Safe(r.session) => r \in rows \cup RowsIn(replay[u].entries)
      BY <3>1 DEF NothingLeftOut, SafeRows
    <3>3. \A r \in RowsIn(failed) : Safe(r.session) => r \in rows \cup RowsIn(spool)
      BY <1>3, <1>5 DEF NothingLeftOut, SafeRows, Settled
    <3>4. \A r \in RowsIn(spool)' : Safe(r.session)' => r \in rows' \cup RowsIn(replay[u].entries)
      BY <1>1, <1>6, <3>2, <3>3
    <3>5. \A r \in Settled : Safe(r.session)' => r \in Settled'
      BY <1>6, <1>7 DEF LogInv, RealRows
    <3> QED BY <1>1, <1>3, <2>1, <3>4, <3>5, OtherReplay
  <2> QED BY <1>3, <2>1 DEF ReplaySound, LogInv
<1> QED BY <1>2, <1>9, <1>10, <1>11, <1>12, <1>13, <1>14 DEF LogInv

\* A batch of what the writer holds is settled, in the index or in the spool.
CommitStep(s, n, batch) ==
    /\ batch = SubSeq(handed[s], committed[s] + 1, committed[s] + n)
    /\ n \in Nat \ {0} /\ committed[s] + n <= Len(handed[s]) /\ worker[s] = "up"
    /\ committed' = [committed EXCEPT ![s] = committed[s] + n]
    /\ reports' = [reports EXCEPT ![s] = Append(@, committed[s] + n)]
    /\ \/ CommitTurns(batch) /\ UNCHANGED <<spool, exposed>>
       \/ /\ spool' = Append(spool, batch) /\ UNCHANGED rows
          /\ exposed' = exposed \cup IF \E u \in Store : worker[u] = "replaying"
                                     THEN {r.session : r \in ToSet(batch)} ELSE {}
    /\ UNCHANGED <<phase, seq, handed, retired, worker, replay, recorded, lost>>

LEMMA CommitFacts ==
    ASSUME LogInv, NEW s \in Store, NEW n, NEW batch, CommitStep(s, n, batch)
    PROVE  /\ ToSet(batch) = {handed[s][j] : j \in committed[s] + 1 .. committed[s] + n}
           /\ ToSet(batch) \subseteq ToSet(handed[s]) /\ ToSet(batch) \subseteq Live
           /\ rows \subseteq rows' /\ exposed \subseteq exposed'
           /\ Settled \subseteq Settled' /\ Settled' \subseteq Settled \cup ToSet(batch)
           /\ \A r \in ToSet(batch) : Safe(r.session)' => r \in Settled'
           /\ \/ RowsIn(spool)' = RowsIn(spool)
              \/ /\ RowsIn(spool)' = RowsIn(spool) \cup ToSet(batch)
                 /\ (\E u \in Store : worker[u] = "replaying") =>
                       \A r \in ToSet(batch) : ~Safe(r.session)'
<1>1. /\ handed[s] \in Seq(Row) /\ committed[s] \in Nat /\ spool \in Seq(Batch)
      /\ ToSet(handed[s]) \subseteq Live
  BY DEF LogInv, LogTypes, TurnLogTypeOK, Batch, RealRows
<1>2. n \in Nat \ {0} /\ committed[s] + n <= Len(handed[s])
  BY DEF CommitStep
<1>3. /\ batch \in Seq(Row) /\ Len(batch) = n /\ DOMAIN batch = 1..n
      /\ \A k \in 1..n : batch[k] = handed[s][committed[s] + k]
  <2> DEFINE h == handed[s]
             c == committed[s]
  <2>1. /\ h \in Seq(Row) /\ c \in Nat /\ n \in Nat \ {0} /\ c + n <= Len(h)
        /\ batch = SubSeq(h, c + 1, c + n)
    BY <1>1, <1>2 DEF CommitStep
  <2> HIDE DEF h, c
  <2>2. /\ Len(batch) = n /\ DOMAIN batch = 1..n
        /\ \A k \in 1..n : batch[k] = h[c + k]
    BY <2>1
  <2>3. batch \in Seq(Row)
    BY <2>1
  <2> QED BY <2>2, <2>3 DEF h, c
<1>4. ToSet(batch) = {handed[s][j] : j \in committed[s] + 1 .. committed[s] + n}
  <2>1. ASSUME NEW j \in committed[s] + 1 .. committed[s] + n
        PROVE  handed[s][j] \in ToSet(batch)
    <3>1. j - committed[s] \in 1..n /\ committed[s] + (j - committed[s]) = j
      BY <1>1, <1>2
    <3>2. batch[j - committed[s]] = handed[s][j]
      BY <1>3, <3>1
    <3> QED BY <1>3, <3>1, <3>2 DEF ToSet
  <2>2. ASSUME NEW k \in 1..n
        PROVE  /\ committed[s] + k \in committed[s] + 1 .. committed[s] + n
               /\ batch[k] = handed[s][committed[s] + k]
    BY <1>1, <1>2, <1>3
  <2> QED BY <1>3, <2>1, <2>2 DEF ToSet
<1>5. ToSet(batch) \subseteq ToSet(handed[s]) /\ ToSet(batch) \subseteq Live
  <2>1. \A j \in committed[s] + 1 .. committed[s] + n : j \in DOMAIN handed[s]
    BY <1>1, <1>2
  <2> QED BY <1>1, <1>4, <2>1 DEF ToSet
<1>6. batch \in Batch
  BY <1>3 DEF Batch
<1>7. \A r \in Live : r \in Row
  BY LiveRows DEF LogInv
<1>8. CASE CommitTurns(batch) /\ UNCHANGED <<spool, exposed>>
  <2>1. /\ rows \subseteq rows' /\ rows' \subseteq rows \cup ToSet(batch)
        /\ SafeRows(ToSet(batch)) \subseteq rows'
    BY <1>5, <1>6, <1>8, CommitSettles DEF LogInv, Order
  <2>2. RowsIn(spool)' = RowsIn(spool) /\ \A x : Safe(x)' <=> Safe(x)
    BY <1>8 DEF RowsIn, Safe
  <2>3. Settled' = rows' \cup RowsIn(spool)
    BY <2>2 DEF Settled
  <2>4. \A r \in ToSet(batch) : Safe(r.session)' => r \in Settled'
    BY <2>1, <2>2, <2>3 DEF SafeRows
  <2> QED BY <1>4, <1>5, <1>8, <2>1, <2>2, <2>3, <2>4 DEF Settled
<1>9. CASE /\ spool' = Append(spool, batch) /\ UNCHANGED rows
           /\ exposed' = exposed \cup IF \E u \in Store : worker[u] = "replaying"
                                      THEN {r.session : r \in ToSet(batch)} ELSE {}
  <2>1. RowsIn(spool)' = RowsIn(spool) \cup ToSet(batch)
    <3>1. RowsIn(spool)' = RowsIn(Append(spool, batch))
      BY <1>9 DEF RowsIn
    <3> QED BY <1>1, <1>6, <3>1, RowsInMember
  <2>2. Settled' = Settled \cup ToSet(batch)
    BY <1>9, <2>1 DEF Settled
  <2>3. exposed \subseteq exposed'
    BY <1>9
  <2>4. (\E u \in Store : worker[u] = "replaying") => \A r \in ToSet(batch) : ~Safe(r.session)'
    BY <1>9 DEF Safe
  <2> QED BY <1>4, <1>5, <1>9, <2>1, <2>2, <2>3, <2>4
<1> QED BY <1>8, <1>9 DEF CommitStep

LEMMA CommitInv ==
    ASSUME LogInv, NEW s \in Store, Commit(s)
    PROVE  LogInv'
<1>1. PICK n \in 1..MaxBatch :
         CommitStep(s, n, SubSeq(handed[s], committed[s] + 1, committed[s] + n))
  <2>1. \A n \in 1..MaxBatch : n \in Nat \ {0}
    BY TurnLogAssumption
  <2>2. PICK n \in 1..MaxBatch :
           LET last == committed[s] + n
               batch == SubSeq(handed[s], committed[s] + 1, last)
           IN /\ last <= Len(handed[s])
              /\ committed' = [committed EXCEPT ![s] = last]
              /\ reports' = [reports EXCEPT ![s] = Append(@, last)]
              /\ \/ /\ CommitTurns(batch)
                    /\ UNCHANGED <<spool, exposed>>
                 \/ /\ spool' = Append(spool, batch)
                    /\ exposed' = exposed \cup
                          IF \E u \in Store : worker[u] = "replaying"
                          THEN {r.session : r \in ToSet(batch)} ELSE {}
                    /\ UNCHANGED <<rows, turns>>
    BY DEF Commit
  <2>3. UNCHANGED <<phase, seq, handed, retired, worker, replay, recorded, lost>> /\ worker[s] = "up"
    BY DEF Commit, storeVars
  <2> QED BY <2>1, <2>2, <2>3 DEF CommitStep
<1> DEFINE batch == SubSeq(handed[s], committed[s] + 1, committed[s] + n)
<1>2. CommitStep(s, n, batch)
  BY <1>1
<1> HIDE DEF batch
<1>3. /\ UNCHANGED <<phase, seq, handed, retired, worker, replay, recorded, lost>>
      /\ n \in Nat \ {0} /\ committed[s] + n <= Len(handed[s]) /\ worker[s] = "up"
      /\ committed' = [committed EXCEPT ![s] = committed[s] + n]
      /\ reports' = [reports EXCEPT ![s] = Append(@, committed[s] + n)]
  BY <1>2 DEF CommitStep
<1>4. /\ ToSet(batch) = {handed[s][j] : j \in committed[s] + 1 .. committed[s] + n}
      /\ ToSet(batch) \subseteq ToSet(handed[s]) /\ ToSet(batch) \subseteq Live
      /\ rows \subseteq rows' /\ exposed \subseteq exposed'
      /\ Settled \subseteq Settled' /\ Settled' \subseteq Settled \cup ToSet(batch)
      /\ \A r \in ToSet(batch) : Safe(r.session)' => r \in Settled'
  BY <1>2, CommitFacts
<1>5. /\ handed \in [Store -> Seq(Row)] /\ committed \in [Store -> Nat]
      /\ reports \in [Store -> Seq(Nat)]
  BY DEF LogInv, LogTypes, TurnLogTypeOK, Batch
<1>6. LogTypes'
  BY NextTypes DEF LogInv, TurnLogNext
<1>7. /\ Live' = Live /\ \A x : Safe(x)' => Safe(x)
      /\ \A r \in Live : r.session \in Session
  BY <1>3, <1>4, LiveRows DEF Live, Safe, LogInv, Row
<1>8. RealRows'
  <2>1. \A u \in Store : /\ ToSet(handed[u])' \subseteq Live
                         /\ RowsIn(replay[u].entries)' \subseteq Live
                         /\ RowsIn(replay[u].failed)' \subseteq RowsIn(replay[u].entries)'
    <3>1. \A u \in Store : /\ ToSet(handed[u]) \subseteq Live
                           /\ RowsIn(replay[u].entries) \subseteq Live
                           /\ RowsIn(replay[u].failed) \subseteq RowsIn(replay[u].entries)
      BY DEF RealRows, LogInv
    <3>2. \A u \in Store : /\ ToSet(handed[u])' = ToSet(handed[u])
                           /\ RowsIn(replay[u].entries)' = RowsIn(replay[u].entries)
                           /\ RowsIn(replay[u].failed)' = RowsIn(replay[u].failed)
      BY <1>3 DEF ToSet, RowsIn
    <3> QED BY <3>1, <3>2
  <2>2. Settled' \subseteq Live
    BY <1>4 DEF RealRows, LogInv
  <2> QED BY <1>3, <1>7, <2>1, <2>2 DEF RealRows, LogInv
<1>9. HandedInOrder'
  <2>1. HandedInOrder
    BY DEF LogInv
  <2>2. ASSUME NEW u \in Store
        PROVE  /\ retired[u] <= committed'[u] /\ committed'[u] <= Len(handed[u])
               /\ \A m \in DOMAIN reports'[u] : reports'[u][m] <= committed'[u]
    <3>1. retired[u] \in Nat
      BY DEF LogInv, LogTypes, TurnLogTypeOK
    <3>2. CASE u # s
      BY <1>3, <1>5, <2>1, <3>2 DEF HandedInOrder
    <3>3. CASE u = s
      <4>1. /\ committed'[s] = committed[s] + n /\ retired[s] <= committed[s]
            /\ reports'[s] = Append(reports[s], committed[s] + n)
            /\ reports[s] \in Seq(Nat) /\ committed[s] \in Nat
            /\ \A m \in DOMAIN reports[s] : reports[s][m] <= committed[s]
        BY <1>3, <1>5, <2>1 DEF HandedInOrder
      <4>2. \A m \in DOMAIN reports[s] : reports[s][m] \in Nat
        BY <4>1
      <4>3. \A m \in DOMAIN reports'[s] : reports'[s][m] <= committed[s] + n
        BY <1>3, <4>1, <4>2
      <4> QED BY <1>3, <3>1, <3>3, <4>1, <4>3
    <3> QED BY <3>2, <3>3
  <2> QED BY <1>3, <2>1, <2>2, SameHanded
<1>10. CommittedSettled'
  <2> SUFFICES ASSUME NEW u \in Store, NEW i \in DOMAIN handed[u],
                      i <= committed'[u], Safe(handed[u][i].session)'
               PROVE  handed[u][i] \in Settled'
    BY <1>3 DEF CommittedSettled, Safe
  <2>1. Safe(handed[u][i].session) /\ i \in Nat
    <3>1. handed[u] \in Seq(Row)
      BY <1>5
    <3>2. i \in Nat
      BY <3>1
    <3>3. handed[u][i].session \notin exposed'
      BY <1>3 DEF Safe
    <3> QED BY <1>4, <3>2, <3>3 DEF Safe
  <2>2. CASE u # s \/ i <= committed[s]
    <3>1. i <= committed[u]
      BY <1>3, <1>5, <2>2
    <3>2. handed[u][i] \in Settled
      BY <2>1, <3>1 DEF CommittedSettled, LogInv
    <3> QED BY <1>4, <3>2
  <2>3. CASE u = s /\ ~(i <= committed[s])
    <3>1. i \in committed[s] + 1 .. committed[s] + n
      BY <1>3, <1>5, <2>1, <2>3
    <3>2. handed[u][i] \in ToSet(batch)
      BY <1>4, <2>3, <3>1
    <3>3. handed[u][i].session \notin exposed'
      BY <1>3 DEF Safe
    <3> QED BY <1>4, <3>2, <3>3 DEF Safe
  <2> QED BY <2>2, <2>3
<1>11. PhasesSound' /\ \A P : In(P)' = In(P)
  BY <1>3 DEF PhasesSound, LogInv, In
<1>12. UnsettledWithCurrent'
  <2> SUFFICES ASSUME NEW r \in Live, r \notin Settled', Safe(r.session)'
               PROVE  /\ In({"candidate"}) = {}
                      /\ \E u \in In({"current"}) : r \in ToSet(handed[u])
    <3>1. \A u \in Store : ToSet(handed[u])' = ToSet(handed[u])
      BY <1>3 DEF ToSet
    <3> QED BY <1>7, <1>11, <3>1 DEF UnsettledWithCurrent, Safe, In
  <2>1. r \notin Settled /\ Safe(r.session)
    BY <1>4 DEF Safe
  <2> QED BY <2>1 DEF UnsettledWithCurrent, LogInv
<1>13. SettledInOrder'
  <2> SUFFICES ASSUME NEW q \in Live, NEW r \in Live, q.turn < r.turn,
                      q.session = r.session, Safe(r.session)', r \in Settled'
               PROVE  q \in Settled'
    BY <1>7 DEF SettledInOrder, Safe
  <2>1. Safe(r.session) /\ Safe(q.session)
    BY <1>4 DEF Safe
  <2>2. CASE r \in Settled
    BY <1>4, <2>1, <2>2 DEF SettledInOrder, LogInv, Order
  <2>3. CASE q \in Settled
    BY <1>4, <2>3
  <2>4. CASE r \notin Settled /\ q \notin Settled
    <3>1. r \in ToSet(batch)
      BY <1>4, <2>4
    <3>2. PICK j \in committed[s] + 1 .. committed[s] + n : r = handed[s][j]
      BY <1>4, <3>1
    <3>3. PICK c \in In({"current"}) : q \in ToSet(handed[c])
      BY <2>1, <2>4 DEF UnsettledWithCurrent, LogInv
    <3>4. PICK d \in In({"current"}) : r \in ToSet(handed[d])
      BY <2>1, <2>4 DEF UnsettledWithCurrent, LogInv
    <3>5. c = s /\ d = s
      <4>1. r \in ToSet(handed[s]) /\ d \in Store /\ c \in Store
        BY <1>4, <3>1 DEF In
      <4>2. d = s
        BY <3>4, <4>1 DEF HandedInOrder, LogInv
      <4>3. c = d
        BY <3>3, <3>4, <4>1 DEF PhasesSound, LogInv, In
      <4> QED BY <4>2, <4>3
    <3>6. PICK i \in DOMAIN handed[s] : q = handed[s][i]
      BY <3>3, <3>5 DEF ToSet
    <3>7. i \in Nat /\ ~(i <= committed[s])
      BY <1>5, <2>1, <2>4, <3>6 DEF CommittedSettled, LogInv
    <3>8. j \in DOMAIN handed[s] /\ j \in Nat
      BY <1>3, <1>5, <3>2
    <3>9. ~(j < i)
      <4>1. q.turn \in Int /\ r.turn \in Int
        BY LiveRows DEF LogInv, Row, Turn
      <4>2. j < i => r.turn < q.turn
        BY <3>2, <3>6, <3>8 DEF HandedInOrder, LogInv
      <4> QED BY <4>1, <4>2
    <3>10. i \in committed[s] + 1 .. committed[s] + n
      BY <1>3, <1>5, <3>2, <3>7, <3>8, <3>9
    <3>11. q \in ToSet(batch) /\ Safe(q.session)'
      BY <1>4, <3>6, <3>10
    <3> QED BY <1>4, <3>11
  <2> QED BY <2>2, <2>3, <2>4
<1>14. Numbered' /\ SeqCounts'
  <2>1. \A x, t : UpTo(x, t)' = UpTo(x, t) /\ RowsOf(Live, x)' = RowsOf(Live, x)
    BY <1>7 DEF UpTo, RowsOf
  <2>2. Numbered'
    BY <1>7, <2>1 DEF Numbered, LogInv, Order
  <2>3. SeqCounts'
    BY <1>3, <1>7, <1>11, <2>1 DEF SeqCounts, LogInv
  <2> QED BY <2>2, <2>3
<1>15. ReplaySound'
  <2>1. ASSUME NEW u \in Store, worker[u] = "replaying"
        PROVE  NothingLeftOut(u)'
    <3>1. \A r \in RowsIn(spool) : Safe(r.session) => r \in rows \cup RowsIn(replay[u].entries)
      BY <2>1 DEF NothingLeftOut, ReplaySound, LogInv, SafeRows
    <3>2. \/ RowsIn(spool)' = RowsIn(spool)
          \/ /\ RowsIn(spool)' = RowsIn(spool) \cup ToSet(batch)
             /\ \A r \in ToSet(batch) : ~Safe(r.session)'
      BY <1>2, <2>1, CommitFacts
    <3>3. \A r \in RowsIn(spool)' : Safe(r.session)' => r \in rows' \cup RowsIn(replay[u].entries)
      BY <1>4, <1>7, <3>1, <3>2
    <3>4. replay'[u] = replay[u]
      BY <1>3
    <3> QED BY <1>4, <2>1, <3>3, <3>4, OtherReplay
  <2> QED BY <1>3, <2>1 DEF ReplaySound, LogInv
<1> QED BY <1>6, <1>8, <1>9, <1>10, <1>11, <1>12, <1>13, <1>14, <1>15 DEF LogInv, Order

------------------------------------------------------------------------------
(* A turn is recorded, and a process ends.                                 *)

\* What recording a turn of x adds.
RecordStep(s, x, row) ==
    /\ phase[s] = "current"
    /\ row = [session |-> x, seq |-> seq[s][x] + 1, turn |-> Len(recorded) + 1]
    /\ recorded' = Append(recorded, row)
    /\ handed' = [handed EXCEPT ![s] = Append(@, row)]
    /\ \A u \in Store \ {s} : seq'[u] = seq[u]
    /\ seq'[s][x] = seq[s][x] + 1
    /\ \A y \in Session \ {x} : Safe(y)' => seq'[s][y] = seq[s][y]
    /\ exposed \subseteq exposed'
    /\ Safe(x)' => In({"candidate"}) = {}
    /\ UNCHANGED <<phase, committed, reports, retired, worker, replay, rows, spool, lost>>

LEMMA RecordIsStep ==
    ASSUME LogInv, NEW x \in Session, Record(x)
    PROVE  \E s \in Store : \E row \in Row : RecordStep(s, x, row)
<1>1. PICK s \in In({"current"}) :
         LET n == seq[s][x] + 1
             row == [session |-> x, seq |-> n, turn |-> Len(recorded) + 1]
         IN /\ Len(recorded) < MaxTurns
            /\ recorded' = Append(recorded, row)
            /\ seq' = [seq EXCEPT ![s] = [y \in Session |->
                          IF y \in Evicted(s, x) THEN 0 ELSE IF y = x THEN n ELSE @[y]]]
            /\ place' = [place EXCEPT ![s][x] = LastPlace]
            /\ handed' = [handed EXCEPT ![s] = Append(@, row)]
            /\ exposed' = exposed \cup Evicted(s, x)
                          \cup (IF In({"candidate"}) = {} THEN {} ELSE {x})
  BY DEF Record
<1> DEFINE row == [session |-> x, seq |-> seq[s][x] + 1, turn |-> Len(recorded) + 1]
<1>2. s \in Store /\ phase[s] = "current" /\ seq \in [Store -> [Session -> Nat]]
  BY DEF In, LogInv, LogTypes, TurnLogTypeOK
<1>3. x \notin Evicted(s, x)
  BY DEF Evicted
<1>4. row \in Row
  <2>1. seq[s][x] + 1 \in Nat
    BY <1>2
  <2>2. Len(recorded) + 1 \in Turn
    BY <1>1, TurnLogAssumption DEF Turn, LogInv, LogTypes, TurnLogTypeOK, Batch
  <2> QED BY <2>1, <2>2 DEF Row
<1>5. recorded' = Append(recorded, row) /\ handed' = [handed EXCEPT ![s] = Append(@, row)]
  BY <1>1
<1>6. /\ \A u \in Store \ {s} : seq'[u] = seq[u]
      /\ seq'[s][x] = seq[s][x] + 1
      /\ \A y \in Session \ {x} : Safe(y)' => seq'[s][y] = seq[s][y]
  BY <1>1, <1>2, <1>3 DEF Safe
<1>7. /\ exposed \subseteq exposed'
      /\ Safe(x)' => In({"candidate"}) = {}
  BY <1>1 DEF Safe
<1>8. UNCHANGED <<phase, committed, reports, retired, worker, replay, rows, spool, lost>>
  BY DEF Record, diskVars
<1> QED BY <1>2, <1>4, <1>5, <1>6, <1>7, <1>8 DEF RecordStep

\* The row is new, and later than every other.
LEMMA RecordFacts ==
    ASSUME LogInv, NEW s \in Store, NEW x \in Session, NEW row \in Row, RecordStep(s, x, row)
    PROVE  /\ recorded \in Seq(Row) /\ Len(recorded) \in Nat /\ row.turn = Len(recorded) + 1
           /\ row \notin Live /\ Live' = Live \cup {row} /\ Settled' = Settled
           /\ \A q \in Live : q.turn \in Int /\ q.turn < row.turn /\ q.session \in Session
           /\ ToSet(handed[s])' = ToSet(handed[s]) \cup {row}
           /\ handed[s] \in Seq(Row) /\ handed'[s] = Append(handed[s], row)
           /\ \A u \in Store \ {s} : handed'[u] = handed[u]
           /\ \A u \in Store \ {s} : ToSet(handed[u])' = ToSet(handed[u])
           /\ \A y : Safe(y)' => Safe(y)
<1>1. /\ recorded \in Seq(Row) /\ row.turn = Len(recorded) + 1
      /\ recorded' = Append(recorded, row) /\ lost' = lost /\ rows' = rows /\ spool' = spool
      /\ lost \subseteq DOMAIN recorded
  BY DEF LogInv, LogTypes, TurnLogTypeOK, Batch, RecordStep, RealRows
<1>2. /\ handed \in [Store -> Seq(Row)] /\ handed' = [handed EXCEPT ![s] = Append(@, row)]
  BY DEF LogInv, LogTypes, TurnLogTypeOK, Batch, RecordStep
<1>3. Len(recorded) \in Nat /\ DOMAIN recorded = 1..Len(recorded)
  BY <1>1
<1>4. \A q \in Live : q.turn \in Int /\ q.turn < row.turn /\ q.session \in Session
  <2>1. \A q \in Live : q.turn \in DOMAIN recorded /\ q \in Row
    BY LiveRows DEF LogInv
  <2> QED BY <1>1, <1>3, <2>1 DEF Row
<1>5. row \notin Live
  BY <1>1, <1>3, <1>4
<1>6. ToSet(recorded)' = ToSet(recorded) \cup {row}
  <2>1. /\ DOMAIN recorded' = DOMAIN recorded \cup {Len(recorded) + 1}
        /\ \A i \in DOMAIN recorded : recorded'[i] = recorded[i]
        /\ recorded'[Len(recorded) + 1] = row
    BY <1>1
  <2> QED BY <2>1 DEF ToSet
<1>7. row.turn \notin lost
  BY <1>1, <1>3
<1>8. Live' = Live \cup {row}
  BY <1>1, <1>6, <1>7 DEF Live
<1>9. /\ handed[s] \in Seq(Row) /\ handed'[s] = Append(handed[s], row)
      /\ \A u \in Store \ {s} : handed'[u] = handed[u]
  BY <1>2
<1>10. ToSet(handed[s])' = ToSet(handed[s]) \cup {row}
  <2>1. /\ DOMAIN handed'[s] = DOMAIN handed[s] \cup {Len(handed[s]) + 1}
        /\ \A i \in DOMAIN handed[s] : handed'[s][i] = handed[s][i]
        /\ handed'[s][Len(handed[s]) + 1] = row
    BY <1>9
  <2> QED BY <2>1 DEF ToSet
<1>11. \A u \in Store \ {s} : ToSet(handed[u])' = ToSet(handed[u])
  BY <1>9 DEF ToSet
<1>12. Settled' = Settled /\ \A y : Safe(y)' => Safe(y)
  BY <1>1 DEF Settled, RowsIn, Safe, RecordStep
<1> QED BY <1>1, <1>3, <1>4, <1>5, <1>8, <1>9, <1>10, <1>11, <1>12

\* The number given is the number of rows the session now has.
LEMMA RecordNumbers ==
    ASSUME LogInv, NEW s \in Store, NEW x \in Session, NEW row \in Row, RecordStep(s, x, row)
    PROVE  Numbered' /\ SeqCounts'
<1>1. /\ row.turn = Len(recorded) + 1 /\ Len(recorded) \in Nat
      /\ row \notin Live /\ Live' = Live \cup {row}
      /\ \A q \in Live : q.turn \in Int /\ q.turn < row.turn /\ q.session \in Session
      /\ \A y : Safe(y)' => Safe(y)
  BY RecordFacts
<1>2. /\ row.session = x /\ row.seq = seq[s][x] + 1 /\ phase[s] = "current" /\ phase' = phase
      /\ \A u \in Store \ {s} : seq'[u] = seq[u]
      /\ seq'[s][x] = seq[s][x] + 1
      /\ \A y \in Session \ {x} : Safe(y)' => seq'[s][y] = seq[s][y]
      /\ Safe(x)' => In({"candidate"}) = {}
  BY DEF RecordStep
<1>3. /\ RowsOf(Live, x)' = RowsOf(Live, x) \cup {row} /\ row \notin RowsOf(Live, x)
      /\ \A y \in Session \ {x} : RowsOf(Live, y)' = RowsOf(Live, y)
  BY <1>1, <1>2 DEF RowsOf
<1>4. /\ Cardinality(RowsOf(Live, x)') = Cardinality(RowsOf(Live, x)) + 1
  BY <1>3, LiveRows, FS_AddElement DEF LogInv
<1>5. Safe(x) => seq[s][x] = Cardinality(RowsOf(Live, x))
  BY <1>2 DEF SeqCounts, LogInv, In
<1>6. Numbered'
  <2> SUFFICES ASSUME NEW r \in Live', Safe(r.session)'
               PROVE  r.seq = Cardinality(UpTo(r.session, r.turn)')
    BY DEF Numbered, UpTo, RowsOf, Safe
  <2>1. CASE r \in Live
    <3>1. UpTo(r.session, r.turn)' = UpTo(r.session, r.turn)
      <4>1. ~(row.turn <= r.turn)
        BY <1>1, <2>1
      <4>2. UpTo(r.session, r.turn)' = {q \in RowsOf(Live', r.session) : q.turn <= r.turn}
        BY DEF UpTo, RowsOf
      <4> QED BY <1>1, <4>1, <4>2 DEF UpTo, RowsOf
    <3> QED BY <1>1, <2>1, <3>1 DEF Numbered, LogInv, Order
  <2>2. CASE r = row
    <3>1. UpTo(r.session, r.turn)' = RowsOf(Live, x)'
      <4>1. UpTo(r.session, r.turn)' = {q \in RowsOf(Live', x) : q.turn <= row.turn}
        BY <1>2, <2>2 DEF UpTo, RowsOf
      <4>2. \A q \in Live' : q.turn <= row.turn
        BY <1>1
      <4> QED BY <4>1, <4>2 DEF RowsOf
    <3> QED BY <1>1, <1>2, <1>4, <1>5, <2>2, <3>1
  <2> QED BY <1>1, <2>1, <2>2
<1>7. SeqCounts'
  <2> SUFFICES ASSUME NEW u \in In({"current", "candidate"})', NEW y \in Session, Safe(y)'
               PROVE  seq'[u][y] = Cardinality(RowsOf(Live, y)')
    BY DEF SeqCounts, RowsOf, Safe
  <2>1. u \in Store /\ u \in In({"current", "candidate"}) /\ Safe(y)
    BY <1>1, <1>2 DEF In
  <2>2. seq[u][y] = Cardinality(RowsOf(Live, y))
    BY <2>1 DEF SeqCounts, LogInv
  <2>3. CASE y = x
    <3>1. u = s
      BY <1>2, <2>1, <2>3 DEF In, PhasesSound, LogInv
    <3> QED BY <1>2, <1>4, <2>2, <2>3, <3>1
  <2>4. CASE y # x
    BY <1>2, <1>3, <2>1, <2>2, <2>4
  <2> QED BY <2>3, <2>4
<1> QED BY <1>6, <1>7

LEMMA RecordInv ==
    ASSUME LogInv, NEW x \in Session, Record(x)
    PROVE  LogInv'
<1>1. PICK s \in Store, row \in Row : RecordStep(s, x, row)
  BY RecordIsStep
<1>2. LogTypes'
  BY NextTypes DEF LogInv, TurnLogNext
<1>3. /\ recorded \in Seq(Row) /\ Len(recorded) \in Nat /\ row.turn = Len(recorded) + 1
      /\ row \notin Live /\ Live' = Live \cup {row} /\ Settled' = Settled
      /\ \A q \in Live : q.turn \in Int /\ q.turn < row.turn /\ q.session \in Session
      /\ ToSet(handed[s])' = ToSet(handed[s]) \cup {row}
      /\ handed[s] \in Seq(Row) /\ handed'[s] = Append(handed[s], row)
      /\ \A u \in Store \ {s} : handed'[u] = handed[u]
      /\ \A u \in Store \ {s} : ToSet(handed[u])' = ToSet(handed[u])
      /\ \A y : Safe(y)' => Safe(y)
  BY <1>1, RecordFacts
<1>4. /\ phase[s] = "current" /\ recorded' = Append(recorded, row) /\ row.session = x
      /\ \A u \in Store \ {s} : seq'[u] = seq[u]
      /\ exposed \subseteq exposed'
      /\ Safe(x)' => In({"candidate"}) = {}
      /\ UNCHANGED <<phase, committed, reports, retired, worker, replay, rows, spool, lost>>
  BY <1>1 DEF RecordStep
<1>5. RealRows /\ \A u \in Store : ToSet(handed[u]) \subseteq Live
  BY DEF LogInv, RealRows
<1>6. RealRows'
  <2>1. \A t \in DOMAIN recorded' : recorded'[t].turn = t
    <3>1. \A t \in DOMAIN recorded' : t \in DOMAIN recorded \/ t = Len(recorded) + 1
      BY <1>3, <1>4
    <3> QED BY <1>3, <1>4, <1>5, <3>1 DEF RealRows
  <2>2. lost' \subseteq DOMAIN recorded'
    BY <1>3, <1>4, <1>5 DEF RealRows
  <2>3. ASSUME NEW u \in Store
        PROVE  /\ ToSet(handed[u])' \subseteq Live'
               /\ RowsIn(replay[u].entries)' \subseteq Live'
               /\ RowsIn(replay[u].failed)' \subseteq RowsIn(replay[u].entries)'
    <3>1. ToSet(handed[u])' \subseteq Live'
      BY <1>3, <1>5
    <3>2. /\ RowsIn(replay[u].entries)' = RowsIn(replay[u].entries)
          /\ RowsIn(replay[u].failed)' = RowsIn(replay[u].failed)
      BY <1>4 DEF RowsIn
    <3> QED BY <1>3, <1>5, <3>1, <3>2 DEF RealRows
  <2> QED BY <1>3, <1>5, <2>1, <2>2, <2>3 DEF RealRows
<1>7. HandedInOrder'
  <2>1. HandedInOrder
    BY DEF LogInv
  <2>2. ASSUME NEW u \in Store, NEW i \in DOMAIN handed'[u], NEW j \in DOMAIN handed'[u], i < j
        PROVE  handed'[u][i].turn < handed'[u][j].turn
    <3>1. CASE u # s
      BY <1>3, <2>1, <2>2, <3>1 DEF HandedInOrder
    <3>2. CASE u = s
      <4>1. /\ i \in DOMAIN handed[s] /\ handed'[s][i] = handed[s][i]
            /\ \/ j \in DOMAIN handed[s] /\ handed'[s][j] = handed[s][j]
               \/ handed'[s][j] = row
        BY <1>3, <2>2, <3>2
      <4>2. handed[s][i] \in Live
        BY <1>5, <4>1 DEF ToSet
      <4> QED BY <1>3, <2>1, <2>2, <3>2, <4>1, <4>2 DEF HandedInOrder
    <3> QED BY <3>1, <3>2
  <2>3. ASSUME NEW u \in Store, NEW v \in Store, ToSet(handed[u])' \cap ToSet(handed[v])' # {}
        PROVE  u = v
    <3>1. PICK r : r \in ToSet(handed[u])' /\ r \in ToSet(handed[v])'
      BY <2>3
    <3>2. CASE r = row
      <4>1. \A w \in Store \ {s} : r \notin ToSet(handed[w])'
        BY <1>3, <1>5, <3>2
      <4> QED BY <3>1, <4>1
    <3>3. CASE r # row
      <4>1. \A w \in Store : r \in ToSet(handed[w])' => r \in ToSet(handed[w])
        BY <1>3, <3>3
      <4>2. r \in ToSet(handed[u]) /\ r \in ToSet(handed[v])
        BY <3>1, <4>1
      <4> QED BY <2>1, <4>2 DEF HandedInOrder
    <3> QED BY <3>2, <3>3
  <2>4. ASSUME NEW u \in Store
        PROVE  /\ retired'[u] <= committed'[u] /\ committed'[u] <= Len(handed'[u])
               /\ \A n \in DOMAIN reports'[u] : reports'[u][n] <= committed'[u]
    <3>1. committed'[u] <= Len(handed'[u])
      <4>1. committed[u] <= Len(handed[u]) /\ committed[u] \in Nat
        BY <2>1 DEF HandedInOrder, LogInv, LogTypes, TurnLogTypeOK
      <4>2. u = s => Len(handed'[u]) = Len(handed[s]) + 1 /\ Len(handed[s]) \in Nat
        BY <1>3
      <4> QED BY <1>3, <1>4, <4>1, <4>2
    <3> QED BY <1>4, <2>1, <3>1 DEF HandedInOrder
  <2> QED BY <2>2, <2>3, <2>4 DEF HandedInOrder
<1>8. CommittedSettled'
  <2> SUFFICES ASSUME NEW u \in Store, NEW i \in DOMAIN handed'[u],
                      i <= committed[u], handed'[u][i].session \notin exposed'
               PROVE  handed'[u][i] \in Settled
    BY <1>3, <1>4 DEF CommittedSettled, Safe
  <2>1. i \in DOMAIN handed[u] /\ handed'[u][i] = handed[u][i]
    <3>1. committed[u] <= Len(handed[u]) /\ committed[u] \in Nat
      BY DEF HandedInOrder, LogInv, LogTypes, TurnLogTypeOK
    <3>2. CASE u = s
      BY <1>3, <3>1, <3>2
    <3>3. CASE u # s
      BY <1>3, <3>3
    <3> QED BY <3>2, <3>3
  <2> QED BY <1>4, <2>1 DEF CommittedSettled, LogInv, Safe
<1>9. PhasesSound'
  BY <1>4 DEF PhasesSound, LogInv
<1>10. UnsettledWithCurrent'
  <2> SUFFICES ASSUME NEW r \in Live', r \notin Settled, Safe(r.session)'
               PROVE  /\ In({"candidate"}) = {}
                      /\ \E u \in In({"current"}) : r \in ToSet(handed[u])'
    BY <1>3, <1>4 DEF UnsettledWithCurrent, Safe, In
  <2>1. CASE r = row
    BY <1>3, <1>4, <2>1 DEF In
  <2>2. CASE r \in Live
    <3>1. /\ In({"candidate"}) = {}
          /\ \E u \in In({"current"}) : r \in ToSet(handed[u])
      BY <1>3, <2>2 DEF UnsettledWithCurrent, LogInv
    <3> QED BY <1>3, <3>1 DEF In
  <2> QED BY <1>3, <2>1, <2>2
<1>11. SettledInOrder'
  <2> SUFFICES ASSUME NEW q \in Live', NEW r \in Live', q.turn < r.turn,
                      q.session = r.session, Safe(r.session)', r \in Settled
               PROVE  q \in Settled
    BY <1>3 DEF SettledInOrder, Safe
  <2>1. r \in Live
    BY <1>5 DEF RealRows
  <2>2. q # row
    BY <1>3, <2>1
  <2> QED BY <1>3, <2>1, <2>2 DEF SettledInOrder, LogInv, Order
<1>12. Numbered' /\ SeqCounts'
  BY <1>1, RecordNumbers
<1>13. ReplaySound'
  <2>1. ASSUME NEW u \in Store, worker[u] = "replaying"
        PROVE  NothingLeftOut(u)'
    <3>1. \A r \in RowsIn(spool)' : Safe(r.session)' => r \in rows' \cup RowsIn(replay[u].entries)
      <4>1. RowsIn(spool)' = RowsIn(spool)
        BY <1>4 DEF RowsIn
      <4> QED BY <1>3, <1>4, <2>1, <4>1 DEF NothingLeftOut, ReplaySound, LogInv, SafeRows
    <3> QED BY <1>3, <1>4, <2>1, <3>1, OtherReplay
  <2> QED BY <1>4, <2>1 DEF ReplaySound, LogInv
<1> QED BY <1>2, <1>6, <1>7, <1>8, <1>9, <1>10, <1>11, <1>12, <1>13 DEF LogInv, Order

\* A safe turn that is not settled is held by a writer that has not been told of it.
LEMMA UnsettledHeld ==
    ASSUME LogInv, NEW r \in Live, r \notin Settled, Safe(r.session)
    PROVE  \E s \in Store : r \in Held(s)
<1>1. PICK s \in In({"current"}) : r \in ToSet(handed[s])
  BY DEF UnsettledWithCurrent, LogInv
<1>2. s \in Store /\ handed[s] \in Seq(Row) /\ retired[s] \in Nat /\ committed[s] \in Nat
  BY DEF In, LogInv, LogTypes, TurnLogTypeOK, Batch
<1>3. PICK i \in DOMAIN handed[s] : handed[s][i] = r
  BY <1>1 DEF ToSet
<1>4. i \in Nat /\ ~(i <= committed[s]) /\ retired[s] <= committed[s]
  BY <1>2, <1>3 DEF CommittedSettled, HandedInOrder, LogInv
<1>5. i > retired[s]
  BY <1>2, <1>4
<1> QED BY <1>2, <1>3, <1>5 DEF Held

\* What a process takes with it when it ends is what it held and had not settled:
\* of a safe session, the rows that remain are settled, and they are the first.
LEMMA ProcessEndsInv ==
    ASSUME LogInv, ProcessEnds
    PROVE  LogInv'
<1>1. /\ UNCHANGED <<rows, spool, recorded, exposed>>
      /\ lost' = lost \cup (TurnsOf(UNION {Held(s) : s \in Store}) \ TurnsOf(Settled))
      /\ \A s \in Store : /\ phase'[s] \in {"unopened", "closed", "gone"}
                          /\ \A x \in Session : seq'[s][x] = 0
                          /\ handed'[s] = <<>> /\ reports'[s] = <<>>
                          /\ committed'[s] = 0 /\ retired'[s] = 0
                          /\ worker'[s] = "none" /\ replay'[s] = NoReplay
  BY DEF ProcessEnds, diskVars, NoEntries, Settled
<1>2. LogTypes'
  BY NextTypes DEF LogInv, TurnLogNext
<1>3. /\ LogTypes /\ RealRows
      /\ Settled' = Settled /\ \A x : Safe(x)' <=> Safe(x)
  BY <1>1 DEF Settled, RowsIn, Safe, LogInv
<1>4. Live' \subseteq Live /\ Settled \subseteq Live'
  <2>1. Live' = {r \in ToSet(recorded) : r.turn \notin lost'}
    BY <1>1 DEF Live, ToSet
  <2>2. \A r \in Settled : r \in ToSet(recorded) /\ r.turn \notin lost
    BY <1>3 DEF RealRows, Live
  <2>3. \A r \in Settled : r.turn \in TurnsOf(Settled)
    BY DEF TurnsOf
  <2> QED BY <1>1, <2>1, <2>2, <2>3 DEF Live
<1>5. ASSUME NEW r \in Live', Safe(r.session)
      PROVE  r \in Settled
  <2>1. SUFFICES ASSUME r \notin Settled PROVE FALSE
    OBVIOUS
  <2>2. PICK s \in Store : r \in Held(s)
    BY <1>4, <1>5, <2>1, UnsettledHeld
  <2>3. r.turn \in TurnsOf(UNION {Held(u) : u \in Store})
    BY <2>2 DEF TurnsOf
  <2>4. r.turn \notin lost'
    BY <1>5 DEF Live
  <2>5. PICK q \in Settled : q.turn = r.turn
    BY <1>1, <2>3, <2>4 DEF TurnsOf
  <2>6. q = r
    BY <1>3, <1>4, <2>5, LiveRows
  <2> QED BY <2>1, <2>5, <2>6
<1>6. RealRows'
  <2>1. \A s \in Store : Held(s) \subseteq Live
    BY <1>3 DEF Held, RealRows, ToSet
  <2>2. lost' \subseteq DOMAIN recorded
    <3>1. \A t \in TurnsOf(UNION {Held(s) : s \in Store}) : t \in DOMAIN recorded
      BY <1>3, <2>1, LiveRows DEF TurnsOf
    <3> QED BY <1>1, <1>3, <3>1 DEF RealRows
  <2>3. ToSet(<<>>) = {} /\ RowsIn(<<>>) = {}
    BY DEF ToSet, RowsIn
  <2>4. ASSUME NEW s \in Store
        PROVE  /\ ToSet(handed[s])' = {} /\ RowsIn(replay[s].entries)' = {}
               /\ RowsIn(replay[s].failed)' = {}
    BY <1>1, <2>3 DEF ToSet, RowsIn, NoReplay
  <2> QED BY <1>1, <1>3, <1>4, <2>2, <2>4 DEF RealRows
<1>7. HandedInOrder'
  <2>1. \A s \in Store : DOMAIN handed'[s] = {} /\ Len(handed'[s]) = 0 /\ DOMAIN reports'[s] = {}
    BY <1>1
  <2>2. \A s \in Store : ToSet(handed[s])' = {}
    BY <2>1 DEF ToSet
  <2> QED BY <1>1, <2>1, <2>2 DEF HandedInOrder
<1>8. CommittedSettled'
  <2>1. \A s \in Store : DOMAIN handed'[s] = {}
    BY <1>1
  <2> QED BY <2>1 DEF CommittedSettled
<1>9. PhasesSound' /\ SeqCounts'
  BY <1>1 DEF PhasesSound, SeqCounts, In
<1>10. UnsettledWithCurrent'
  BY <1>3, <1>5 DEF UnsettledWithCurrent, Safe
<1>11. SettledInOrder'
  BY <1>3, <1>4 DEF SettledInOrder, LogInv, Order, Safe
<1>12. Numbered'
  <2> SUFFICES ASSUME NEW r \in Live', Safe(r.session)
               PROVE  r.seq = Cardinality(UpTo(r.session, r.turn)')
    BY <1>3 DEF Numbered, UpTo, RowsOf, Safe
  <2>1. r \in Settled /\ r \in Live
    BY <1>4, <1>5
  <2>2. ASSUME NEW q \in Live, q.session = r.session, q.turn <= r.turn
        PROVE  q \in Live'
    <3>1. q.turn \in Int /\ r.turn \in Int
      BY <1>3, <2>1, LiveRows DEF Row, Turn
    <3>2. CASE q.turn = r.turn
      <4>1. q = r
        BY <1>3, <2>1, <3>2, LiveRows
      <4> QED BY <4>1
    <3>3. CASE q.turn < r.turn
      BY <1>4, <2>1, <2>2, <3>3 DEF SettledInOrder, LogInv, Order
    <3> QED BY <2>2, <3>1, <3>2, <3>3
  <2>3. UpTo(r.session, r.turn)' = {q \in RowsOf(Live', r.session) : q.turn <= r.turn}
    BY DEF UpTo, RowsOf
  <2>4. UpTo(r.session, r.turn)' = UpTo(r.session, r.turn)
    BY <1>4, <2>2, <2>3 DEF UpTo, RowsOf
  <2> QED BY <2>1, <2>4 DEF Numbered, LogInv, Order
<1>13. ReplaySound'
  BY <1>1 DEF ReplaySound
<1> QED BY <1>2, <1>6, <1>7, <1>8, <1>9, <1>10, <1>11, <1>12, <1>13 DEF LogInv, Order

------------------------------------------------------------------------------
(* The theorems.                                                           *)

LEMMA LogInvInit == TurnLogInit => LogInv
<1> SUFFICES ASSUME TurnLogInit PROVE LogInv
  OBVIOUS
<1>1. LogTypes
  BY InitTypes
<1>2. ToSet(<<>>) = {} /\ RowsIn(<<>>) = {}
  BY DEF ToSet, RowsIn
<1>3. Live = {} /\ Settled = {}
  BY <1>2 DEF Live, Settled, TurnLogInit
<1>4. \A s \in Store : /\ phase[s] = "unopened" /\ \A x \in Session : seq[s][x] = 0
                       /\ handed[s] = <<>> /\ reports[s] = <<>>
                       /\ committed[s] = 0 /\ retired[s] = 0
                       /\ worker[s] = "none" /\ replay[s] = NoReplay
  BY DEF TurnLogInit, NoEntries
<1>5. RealRows
  <2>1. recorded = <<>> /\ lost = {}
    BY DEF TurnLogInit
  <2> QED BY <1>2, <1>3, <1>4, <2>1 DEF RealRows, NoReplay
<1>6. HandedInOrder
  <2>1. \A s \in Store : DOMAIN handed[s] = {} /\ Len(handed[s]) = 0 /\ DOMAIN reports[s] = {}
    BY <1>4
  <2> QED BY <1>2, <1>4, <2>1 DEF HandedInOrder
<1>7. CommittedSettled
  <2>1. \A s \in Store : DOMAIN handed[s] = {}
    BY <1>4
  <2> QED BY <2>1 DEF CommittedSettled
<1>8. PhasesSound /\ SeqCounts
  BY <1>4 DEF PhasesSound, SeqCounts, In
<1>9. UnsettledWithCurrent /\ Order
  BY <1>3 DEF UnsettledWithCurrent, Order, SettledInOrder, Numbered
<1>10. ReplaySound
  BY <1>4 DEF ReplaySound
<1> QED BY <1>1, <1>5, <1>6, <1>7, <1>8, <1>9, <1>10 DEF LogInv

LEMMA LogInvNext == LogInv /\ [TurnLogNext]_turnLogVars => LogInv'
<1> SUFFICES ASSUME LogInv, [TurnLogNext]_turnLogVars PROVE LogInv'
  OBVIOUS
<1>1. ASSUME NEW s \in Store, OpenStore(s) \/ CloseStore(s) \/ Retire(s)
      PROVE  LogInv'
  BY <1>1, OpenStoreInv, CloseStoreInv, RetireInv
<1>2. ASSUME NEW s \in Store, OpenIndex(s) \/ ReplayEntry(s) \/ EndReplay(s)
      PROVE  LogInv'
  BY <1>2, OpenIndexInv, ReplayEntryInv, EndReplayInv
<1>3. ASSUME NEW s \in Store, Commit(s) \/ WorkerDies(s)
      PROVE  LogInv'
  BY <1>3, CommitInv, WorkerDiesInv
<1>4. ASSUME NEW x \in Session, Record(x) PROVE LogInv'
  BY <1>4, RecordInv
<1>5. CASE Swap \/ SaveFails
  BY <1>5, SwapInv
<1>6. CASE ProcessEnds
  BY <1>6, ProcessEndsInv
<1>7. CASE UNCHANGED turnLogVars
  BY <1>7, StutterInv
<1> QED BY <1>1, <1>2, <1>3, <1>4, <1>5, <1>6, <1>7 DEF TurnLogNext

\* The whole invariant in every reachable state.
THEOREM TurnLogInvariant == TurnLogSpec => []LogInv
<1> QED BY LogInvInit, LogInvNext, PTL DEF TurnLogSpec

\* The rows of a safe session that exist somewhere are its live rows.
LEMMA KeptRows ==
    ASSUME LogInv
    PROVE  /\ Kept \subseteq Live
           /\ \A r \in Live : Safe(r.session) => r \in Kept
<1>1. \A s \in Store : Held(s) \subseteq Live
  BY DEF Held, RealRows, LogInv, ToSet
<1>2. Kept \subseteq Live
  BY <1>1 DEF Kept, RealRows, LogInv, Settled
<1>3. ASSUME NEW r \in Live, Safe(r.session)
      PROVE  r \in Kept
  <2>1. CASE r \in Settled
    BY <2>1 DEF Settled, Kept
  <2>2. CASE r \notin Settled
    BY <1>3, <2>2, UnsettledHeld DEF Kept
  <2> QED BY <2>1, <2>2
<1> QED BY <1>2, <1>3

\* TurnsKept in every reachable state: a recorded turn of a session that no
\* second store overlapped is in the index, in the spool or with a living writer,
\* unless the process ended first.
THEOREM TurnLogKeepsTurns == TurnLogSpec => []TurnsKept
<1>1. LogInv => TurnsKept
  <2> SUFFICES ASSUME LogInv, NEW t \in DOMAIN recorded, Safe(recorded[t].session), t \notin lost
               PROVE  t \in TurnsOf(Kept)
    BY DEF TurnsKept, Safe
  <2>1. recorded[t] \in Live /\ recorded[t].turn = t
    BY LiveRows DEF LogInv, RealRows
  <2>2. recorded[t] \in Kept
    BY <2>1, KeptRows
  <2> QED BY <2>1, <2>2 DEF TurnsOf
<1> QED BY TurnLogInvariant, <1>1, PTL

\* NumberedInOrder in every reachable state: those sessions are numbered from one
\* and without a gap in the order their turns were recorded.
THEOREM TurnLogNumbersInOrder == TurnLogSpec => []NumberedInOrder
<1>1. LogInv => NumberedInOrder
  <2> SUFFICES ASSUME LogInv, NEW r \in Kept, Safe(r.session)
               PROVE  r.seq = Cardinality({q \in RowsOf(Kept, r.session) : q.turn <= r.turn})
    BY DEF NumberedInOrder, Safe
  <2>1. RowsOf(Kept, r.session) = RowsOf(Live, r.session)
    BY KeptRows DEF RowsOf
  <2>2. r \in Live
    BY KeptRows
  <2> QED BY <2>1, <2>2 DEF Numbered, LogInv, Order, UpTo
<1> QED BY TurnLogInvariant, <1>1, PTL
==============================================================================
