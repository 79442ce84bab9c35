--------------------------- MODULE FailoverProofs ---------------------------
(***************************************************************************)
(* Proofs about CooldownStore and Failover.  No window of the store opens   *)
(* or closes but as it was earned.  Every step of the engine is a step of  *)
(* the store or leaves it alone, so what is proved of the store holds of   *)
(* the running system; a request gives up only when its plan is exhausted; *)
(* a 429 benches what it is about before its walk goes on; only limited    *)
(* keys are skipped; and who is not served for cooldowns is told.          *)
(***************************************************************************)
EXTENDS Failover, FiniteSetTheorems, WellFoundedInduction, TLAPS

------------------------------------------------------------------------------
(* The store, for every set of pairs and every setting of the cooldowns.   *)

\* What makes the windows inductive: the file is as well explained as memory
\* (a restart reads it), and no remembered 429 lies in the future.
DiskJustified ==
    \A p \in Pair : disk.cooldowns[p] # None =>
        disk.quotaMarks[p] # None /\ Earned(disk.cooldowns[p], disk.quotaMarks[p])

MarksPast ==
    \A p \in Pair :
        /\ quotaMarks[p] # None => quotaMarks[p].last429At <= now
        /\ disk.quotaMarks[p] # None => disk.quotaMarks[p].last429At <= now

StoreInv ==
    /\ TypeOK
    /\ WindowJustified
    /\ OneTimerPerBench
    /\ RestartKeepsState
    /\ DiskJustified
    /\ MarksPast

------------------------------------------------------------------------------
\* A cooldown is a positive length of time, at most MAX_COOLDOWN_MS.
LEMMA TtlBounds ==
    ASSUME NEW t \in Nat, NEW told \in Stamp, NEW j \in (-Jitter)..Jitter
    PROVE  Ttl(t, told, j) \in Nat /\ Ttl(t, told, j) > 0
                                   /\ Ttl(t, told, j) <= MaxCooldown
<1>1. CASE told = None
  BY <1>1, StoreAssumption DEF Ttl
<1>2. CASE told # None
  <2>1. told \in Nat
    BY <1>2, StoreAssumption DEF Stamp
  <2>2. MaxCooldown > 0
    BY StoreAssumption
  <2> QED
    BY <1>2, <2>1, <2>2, StoreAssumption DEF Ttl
<1> QED
  BY <1>1, <1>2

\* Live keeps the type of a map of windows.
LEMMA LiveType ==
    ASSUME NEW E \in [Pair -> Nat \cup {None}], NEW t \in Nat
    PROVE  /\ Live(E, t) \in [Pair -> Nat \cup {None}]
           /\ \A p \in Pair : Live(E, t)[p] # None =>
                Live(E, t)[p] = E[p] /\ E[p] # None /\ E[p] > t
BY DEF Live

LEMMA InitInv == StoreInit => StoreInv
<1> SUFFICES ASSUME StoreInit PROVE StoreInv
  OBVIOUS
<1>1. /\ \A p \in Pair : entries[p] = None /\ quotaMarks[p] = None /\ timers[p] = {}
      /\ \A p \in Pair : disk.cooldowns[p] = None /\ disk.quotaMarks[p] = None
      /\ ~up
  BY DEF StoreInit, NoEntries, NoTimers, EmptyDoc
<1>2. TypeOK
  <2>1. NoEntries \in [Pair -> Nat \cup {None}] /\ NoEntries \in [Pair -> Mark429 \cup {None}]
    BY DEF NoEntries
  <2>2. disk \in [cooldowns : [Pair -> Nat \cup {None}],
                 quotaMarks : [Pair -> Mark429 \cup {None}]]
    BY <2>1 DEF StoreInit, EmptyDoc
  <2> QED
    <3>1. timers \in [Pair -> SUBSET Nat]
      BY DEF StoreInit, NoTimers
    <3>2. now \in 0..MaxTime
      BY StoreAssumption DEF StoreInit
    <3>3. up \in BOOLEAN /\ persistWarned \in BOOLEAN
      BY Zenon DEF StoreInit
    <3> QED
      BY <2>1, <2>2, <3>1, <3>2, <3>3 DEF StoreInit, TypeOK
<1> QED
  BY <1>1, <1>2 DEF StoreInv, WindowJustified, OneTimerPerBench, RestartKeepsState,
                    DiskJustified, MarksPast, IsDegraded

LEMMA MarkInv ==
    ASSUME StoreInv, NEW p \in Pair, NEW told \in Stamp, Mark(p, told)
    PROVE  StoreInv'
<1> DEFINE m == [last429At |-> now, quotaResetAt |-> told]
<1>0. now \in Nat /\ TypeOK /\ m \in Mark429 /\ m # None
  BY StoreAssumption DEF StoreInv, TypeOK, Mark429
<1>1. PICK j \in (-Jitter)..Jitter : Schedule(p, now + Ttl(now, told, j))
  BY DEF Mark
<1> DEFINE until == now + Ttl(now, told, j)
<1>2. until \in Nat /\ until # None /\ until > now
  BY <1>0, TtlBounds, StoreAssumption
<1>3. /\ entries' = [entries EXCEPT ![p] = until]
      /\ timers' = [timers EXCEPT ![p] = ClearTimer(p) \cup {until}]
      /\ quotaMarks' = [quotaMarks EXCEPT ![p] = m]
      /\ now' = now /\ up' = up /\ up
  BY <1>1 DEF Mark, Schedule
<1>4. Earned(until, m)
  BY <1>1 DEF Earned
<1>5. ClearTimer(p) = {}
  BY DEF StoreInv, OneTimerPerBench, ClearTimer
<1> HIDE DEF until, m
<1>6. /\ entries' \in [Pair -> Nat \cup {None}]
      /\ quotaMarks' \in [Pair -> Mark429 \cup {None}]
      /\ timers' \in [Pair -> SUBSET Nat]
  BY <1>0, <1>2, <1>3, <1>5 DEF TypeOK
<1>7. WindowJustified'
  BY <1>0, <1>2, <1>3, <1>4 DEF StoreInv, WindowJustified, TypeOK, IsDegraded, Earned, Ttl
<1>8. OneTimerPerBench'
  BY <1>0, <1>2, <1>3, <1>5 DEF StoreInv, OneTimerPerBench, TypeOK, IsDegraded
<1>9. quotaMarks'[p].last429At = now /\ \A q \in Pair : q # p => quotaMarks'[q] = quotaMarks[q]
  BY <1>0, <1>3 DEF TypeOK, m
<1>10. \A q \in Pair : quotaMarks'[q] # None => quotaMarks'[q].last429At <= now
  BY <1>0, <1>9 DEF StoreInv, MarksPast
<1>11. CASE ~persistWarned /\ UNCHANGED persistWarned
            /\ disk' = [cooldowns |-> Live(entries', now), quotaMarks |-> quotaMarks']
  <2>1. /\ Live(entries', now) \in [Pair -> Nat \cup {None}]
        /\ \A q \in Pair : Live(entries', now)[q] # None =>
             Live(entries', now)[q] = entries'[q] /\ entries'[q] # None
    BY <1>0, <1>6, LiveType
  <2>2. disk'.cooldowns = Live(entries', now) /\ disk'.quotaMarks = quotaMarks'
    BY <1>11
  <2>3. TypeOK'
    BY <1>0, <1>3, <1>6, <1>11, <2>1 DEF TypeOK
  <2>4. RestartKeepsState'
    BY <1>3, <2>1, <2>2 DEF RestartKeepsState
  <2>5. DiskJustified'
    BY <1>7, <2>1, <2>2 DEF DiskJustified, WindowJustified, IsDegraded
  <2>6. MarksPast'
    BY <1>3, <1>10, <2>2 DEF MarksPast
  <2> QED
    BY <1>7, <1>8, <2>3, <2>4, <2>5, <2>6 DEF StoreInv
<1>12. CASE persistWarned' = TRUE /\ disk' = disk
  <2>1. TypeOK'
    BY <1>0, <1>3, <1>6, <1>12 DEF TypeOK
  <2>2. RestartKeepsState'
    BY <1>12 DEF RestartKeepsState
  <2>3. DiskJustified'
    BY <1>12 DEF StoreInv, DiskJustified, Earned, Ttl
  <2>4. MarksPast'
    BY <1>3, <1>10, <1>12 DEF StoreInv, MarksPast
  <2> QED
    BY <1>7, <1>8, <2>1, <2>2, <2>3, <2>4 DEF StoreInv
<1> QED
  BY <1>11, <1>12 DEF Mark, Persist

LEMMA FireInv ==
    ASSUME StoreInv, NEW p \in Pair, Fire(p)
    PROVE  StoreInv'
<1>0. TypeOK /\ up
  BY DEF StoreInv, Fire
<1>1. PICK due \in timers[p] : due <= now /\ timers' = [timers EXCEPT ![p] = @ \ {due}]
  BY DEF Fire
<1>2. /\ entries' = [entries EXCEPT ![p] = None]
      /\ now' = now /\ up' = up /\ quotaMarks' = quotaMarks
      /\ persistWarned' = persistWarned /\ disk' = disk
  BY DEF Fire
<1>3. timers[p] = {due}
  BY <1>1 DEF StoreInv, OneTimerPerBench
<1>4. TypeOK'
  BY <1>0, <1>1, <1>2 DEF TypeOK
<1>5. \A q \in Pair : entries'[q] # None => q # p /\ entries'[q] = entries[q]
  BY <1>0, <1>2 DEF TypeOK
<1>6. WindowJustified'
  BY <1>2, <1>5 DEF StoreInv, WindowJustified, IsDegraded, Earned, Ttl
<1>7. OneTimerPerBench'
  BY <1>0, <1>1, <1>2, <1>3 DEF StoreInv, OneTimerPerBench, IsDegraded, TypeOK
<1>8. RestartKeepsState'
  BY <1>0, <1>2, <1>5 DEF StoreInv, RestartKeepsState, Live
<1>9. DiskJustified' /\ MarksPast'
  BY <1>2 DEF StoreInv, DiskJustified, MarksPast, Earned, Ttl
<1> QED
  BY <1>4, <1>6, <1>7, <1>8, <1>9 DEF StoreInv

LEMMA CrashInv == StoreInv /\ Crash => StoreInv'
<1> SUFFICES ASSUME StoreInv, Crash PROVE StoreInv'
  OBVIOUS
<1>1. \A p \in Pair : entries'[p] = None /\ timers'[p] = {} /\ quotaMarks'[p] = None
  BY DEF Crash, NoEntries, NoTimers
<1>2. TypeOK'
  BY StoreAssumption DEF StoreInv, TypeOK, Crash, NoEntries, NoTimers
<1>3. RestartKeepsState' /\ WindowJustified' /\ OneTimerPerBench'
  BY <1>1 DEF Crash, RestartKeepsState, WindowJustified, OneTimerPerBench, IsDegraded
<1>4. DiskJustified' /\ MarksPast'
  BY <1>1 DEF StoreInv, Crash, DiskJustified, MarksPast, Earned, Ttl
<1> QED
  BY <1>2, <1>3, <1>4 DEF StoreInv

LEMMA StartInv == StoreInv /\ Start => StoreInv'
<1> SUFFICES ASSUME StoreInv, Start PROVE StoreInv'
  OBVIOUS
<1> DEFINE live == Live(disk.cooldowns, now)
<1>0. TypeOK /\ now' = now /\ disk' = disk /\ up' = TRUE /\ persistWarned' = FALSE
  BY DEF StoreInv, Start
<1>1. live \in [Pair -> Nat \cup {None}]
  BY <1>0, LiveType DEF TypeOK
<1>2. \A p \in Pair : live[p] # None => live[p] = disk.cooldowns[p]
  BY <1>0, LiveType DEF TypeOK
<1>3. DiskJustified'
  BY <1>0 DEF StoreInv, DiskJustified, Earned, Ttl
<1> HIDE DEF live
<1>4. CASE /\ entries' = live
           /\ timers' = [p \in Pair |-> IF live[p] = None THEN {} ELSE {live[p]}]
           /\ quotaMarks' = disk.quotaMarks
  <2>1. TypeOK'
    BY <1>0, <1>1, <1>4 DEF TypeOK
  <2>2. WindowJustified'
    BY <1>0, <1>2, <1>3, <1>4 DEF WindowJustified, DiskJustified, IsDegraded
  <2>3. OneTimerPerBench'
    BY <1>4 DEF OneTimerPerBench, IsDegraded
  <2>4. RestartKeepsState'
    BY <1>0, <1>1, <1>2, <1>4, LiveType DEF RestartKeepsState, TypeOK
  <2>5. MarksPast'
    BY <1>0, <1>4 DEF StoreInv, MarksPast
  <2> QED
    BY <2>1, <2>2, <2>3, <2>4, <2>5, <1>3 DEF StoreInv
<1>5. CASE entries' = NoEntries /\ timers' = NoTimers /\ quotaMarks' = NoEntries
  <2>1. \A p \in Pair : entries'[p] = None /\ timers'[p] = {} /\ quotaMarks'[p] = None
    BY <1>5 DEF NoEntries, NoTimers
  <2>2. TypeOK'
    BY <1>0, <1>5 DEF TypeOK, NoEntries, NoTimers
  <2>3. WindowJustified' /\ OneTimerPerBench' /\ RestartKeepsState'
    BY <2>1 DEF WindowJustified, OneTimerPerBench, RestartKeepsState, IsDegraded, Live
  <2>4. MarksPast'
    BY <1>0, <2>1 DEF StoreInv, MarksPast
  <2> QED
    BY <2>2, <2>3, <2>4, <1>3 DEF StoreInv
<1> QED
  BY <1>4, <1>5 DEF Start, LoadFromDisk, live

LEMMA TickInv == StoreInv /\ Tick => StoreInv'
<1> SUFFICES ASSUME StoreInv, Tick PROVE StoreInv'
  OBVIOUS
<1>0. TypeOK /\ now \in Nat /\ now' = now + 1
  BY StoreAssumption DEF StoreInv, TypeOK, Tick
<1>1. /\ entries' = entries /\ timers' = timers /\ quotaMarks' = quotaMarks
      /\ persistWarned' = persistWarned /\ disk' = disk /\ up' = up
  BY DEF Tick
<1>2. TypeOK'
  BY <1>0, <1>1, StoreAssumption DEF TypeOK, Tick
<1>3. WindowJustified' /\ OneTimerPerBench' /\ DiskJustified'
  BY <1>1 DEF StoreInv, WindowJustified, OneTimerPerBench, DiskJustified,
              IsDegraded, Earned, Ttl
<1>4. RestartKeepsState'
  BY <1>0, <1>1 DEF StoreInv, RestartKeepsState, Live, TypeOK
<1>5. MarksPast'
  <2>1. \A p \in Pair : quotaMarks[p] # None => quotaMarks[p].last429At \in Nat
    BY <1>0 DEF TypeOK, Mark429
  <2>2. \A p \in Pair : disk.quotaMarks[p] # None => disk.quotaMarks[p].last429At \in Nat
    BY <1>0 DEF TypeOK, Mark429
  <2> QED
    BY <1>0, <1>1, <2>1, <2>2 DEF StoreInv, MarksPast
<1> QED
  BY <1>2, <1>3, <1>4, <1>5 DEF StoreInv

\* Every step of the store, and every step that leaves it alone, keeps StoreInv.
LEMMA StepInv == StoreInv /\ [StoreNext]_storeVars => StoreInv'
<1> SUFFICES ASSUME StoreInv, [StoreNext]_storeVars PROVE StoreInv'
  OBVIOUS
<1>1. CASE UNCHANGED storeVars
  BY <1>1 DEF storeVars, StoreInv, TypeOK, WindowJustified, OneTimerPerBench,
              RestartKeepsState, DiskJustified, MarksPast, IsDegraded, Live, Earned, Ttl
<1>2. CASE \E p \in Pair, told \in Stamp : Mark(p, told)
  BY <1>2, MarkInv
<1>3. CASE \E p \in Pair : Fire(p)
  BY <1>3, FireInv
<1> QED
  BY <1>1, <1>2, <1>3, CrashInv, StartInv, TickInv DEF StoreNext

------------------------------------------------------------------------------
\* The store's inductive invariant holds in every reachable state.
THEOREM StoreCorrect == StoreSpec => []StoreInv
BY InitInv, StepInv, PTL DEF StoreSpec

\* Type correctness, for every choice of the constants.
THEOREM StoreTypeCorrect == StoreSpec => []TypeOK
<1>1. StoreInv => TypeOK
  BY DEF StoreInv
<1> QED
  BY <1>1, StoreCorrect, PTL

\* Every bench is explained by the 429 that the operator sees beside it, over
\* re-marks, expiries, crashes and restarts.
THEOREM StoreWindowJustified == StoreSpec => []WindowJustified
<1>1. StoreInv => WindowJustified
  BY DEF StoreInv
<1> QED
  BY <1>1, StoreCorrect, PTL

\* No key is held longer than MAX_COOLDOWN_MS from now: a window is what its
\* 429 earned, that 429 is not in the future, and no 429 earns more.
THEOREM StoreWindowBounded == StoreSpec => []WindowBounded
<1>1. StoreInv => WindowBounded
  <2> SUFFICES ASSUME StoreInv, NEW p \in Pair, IsDegraded(p)
               PROVE  entries[p] <= now + MaxCooldown
    BY DEF WindowBounded
  <2>1. quotaMarks[p] # None /\ Earned(entries[p], quotaMarks[p])
    BY DEF StoreInv, WindowJustified
  <2>2. /\ quotaMarks[p].last429At \in Nat /\ quotaMarks[p].quotaResetAt \in Stamp
        /\ quotaMarks[p].last429At <= now /\ now \in Nat
    BY <2>1, StoreAssumption DEF StoreInv, TypeOK, Mark429, MarksPast
  <2>3. PICK j \in (-Jitter)..Jitter :
          entries[p] = quotaMarks[p].last429At
                         + Ttl(quotaMarks[p].last429At, quotaMarks[p].quotaResetAt, j)
    BY <2>1 DEF Earned
  <2> QED
    BY <2>2, <2>3, TtlBounds, StoreAssumption
<1> QED
  BY <1>1, StoreCorrect, PTL

\* A restart would restore every open window and every mark, unless a write of
\* the file failed in this process.
THEOREM StoreRestartKeepsState == StoreSpec => []RestartKeepsState
<1>1. StoreInv => RestartKeepsState
  BY DEF StoreInv
<1> QED
  BY <1>1, StoreCorrect, PTL

\* A running process lifts a bench only when its window is over, and changes a
\* window only on a new 429: no stale timer can reinstate a key.
THEOREM StoreNoEarlyReinstatement == StoreSpec => NoEarlyReinstatement
<1> DEFINE Kept == up /\ up' =>
        \A p \in Pair : IsDegraded(p) /\ entries'[p] # entries[p] =>
            \/ entries'[p] = None /\ entries[p] <= now
            \/ quotaMarks'[p] # None /\ quotaMarks'[p].last429At = now
<1>1. StoreInv /\ [StoreNext]_storeVars => [Kept]_storeVars
  <2> SUFFICES ASSUME StoreInv, StoreNext, up, up', NEW p \in Pair, IsDegraded(p),
                      entries'[p] # entries[p]
               PROVE  \/ entries'[p] = None /\ entries[p] <= now
                      \/ quotaMarks'[p] # None /\ quotaMarks'[p].last429At = now
    OBVIOUS
  <2>0. TypeOK
    BY DEF StoreInv
  <2>1. ASSUME NEW q \in Pair, NEW told \in Stamp, Mark(q, told)
        PROVE  quotaMarks'[p] # None /\ quotaMarks'[p].last429At = now
    <3>1. p = q
      BY <2>0, <2>1 DEF Mark, Schedule, TypeOK
    <3>2. quotaMarks'[p] = [last429At |-> now, quotaResetAt |-> told]
      BY <2>0, <2>1, <3>1 DEF Mark, TypeOK
    <3>3. quotaMarks'[p].last429At = now /\ quotaMarks'[p] \in Mark429
      BY <2>0, <3>2, StoreAssumption DEF TypeOK, Mark429
    <3> QED
      BY <3>3, StoreAssumption
  <2>2. ASSUME NEW q \in Pair, Fire(q)
        PROVE  entries'[p] = None /\ entries[p] <= now
    <3>1. p = q /\ entries'[p] = None
      BY <2>0, <2>2 DEF Fire, TypeOK
    <3>2. timers[p] = {entries[p]}
      BY DEF StoreInv, OneTimerPerBench
    <3> QED
      BY <2>2, <3>1, <3>2 DEF Fire
  <2>3. ~Crash /\ ~Start
    BY DEF Crash, Start
  <2>4. ~Tick
    BY DEF Tick
  <2> QED
    BY <2>1, <2>2, <2>3, <2>4 DEF StoreNext
<1> QED
  BY <1>1, StoreCorrect, PTL DEF StoreSpec, NoEarlyReinstatement

------------------------------------------------------------------------------
(* The engine.                                                             *)

Active(r) == pc[r] \in {"calling", "benching"}

\* Where the walk of request r stands in its plan.
WalkOf(r) ==
    /\ Active(r) =>
         /\ at[r] \in plan[r]
         /\ result[r] = "none"
         /\ \A s \in plan[r] : ~Before(at[r], s) => Spent(r, s)
    /\ pc[r] \in {"idle", "lost"} => result[r] = "none"
    /\ skip[r] # None => skip[r] \in walled[r]
    /\ plan[r] \subseteq Slots(route[r])
    /\ pc[r] = "benching" =>
         /\ error[r] \in {"rateLimit", "quota", "fairUse"}
         /\ \A e \in toBench[r] : LabelAt(route[r], <<at[r][1], e>>) \in Pair
    /\ result[r] \in {"error", "fellThrough"} /\ error[r] # "fatal" =>
         \A s \in plan[r] : Spent(r, s)

WalkInv == \A r \in Request : WalkOf(r)

FailoverInv == FailoverTypeOK /\ WalkInv

------------------------------------------------------------------------------
\* A slot of a candidate list names a routed target and, unless the target has
\* no pool, one entry of its pool; its label is a key of the store or None.
LEMMA SlotFacts ==
    ASSUME NEW ts \in Seq(Target), NEW s \in Slots(ts)
    PROVE  /\ s \in Nat \X Nat
           /\ TargetAt(ts, s) \in Target
           /\ PoolAt(ts, s) \in Seq(Key)
           /\ ProviderAt(ts, s) \in Provider
           /\ s[2] # 0 => s[2] \in 1..Len(PoolAt(ts, s))
           /\ \A e \in 1..Len(PoolAt(ts, s)) :
                LabelAt(ts, <<s[1], e>>) \in Pair \cup {None}
<1>1. PICK c \in 1..Len(ts) :
        s \in IF PoolOf[ts[c]] = <<>> THEN {<<c, 0>>}
              ELSE {c} \X (1..Len(PoolOf[ts[c]]))
  BY DEF Slots
<1>2. c \in Nat /\ ts[c] \in Target /\ PoolOf[ts[c]] \in Seq(Key)
  BY <1>1, FailoverAssumption
<1>3. s \in Nat \X Nat /\ s[1] = c /\ (s[2] # 0 => s[2] \in 1..Len(PoolOf[ts[c]]))
  BY <1>1, <1>2
<1>4. TargetAt(ts, s) = ts[c] /\ PoolAt(ts, s) = PoolOf[ts[c]]
  BY <1>3 DEF TargetAt, PoolAt
<1>5. ASSUME NEW e \in 1..Len(PoolOf[ts[c]])
      PROVE  LabelAt(ts, <<s[1], e>>) \in Pair \cup {None}
  <2>1. PoolOf[ts[c]][e] \in Key
    BY <1>2, <1>5
  <2>2. LabelAt(ts, <<s[1], e>>) = IF e = 0 THEN None ELSE LabelOf[PoolOf[ts[c]][e]]
    BY <1>3 DEF LabelAt, PoolAt, TargetAt
  <2> QED
    BY <2>1, <2>2, FailoverAssumption
<1>6. ProviderAt(ts, s) \in Provider
  BY <1>2, <1>4, FailoverAssumption DEF ProviderAt, TargetAt
<1> QED
  BY <1>2, <1>3, <1>4, <1>5, <1>6

\* The entries a failed attempt benches all carry a label.
LEMMA BenchesLabelled ==
    ASSUME NEW ts \in Seq(Target), NEW s \in Slots(ts), NEW a
    PROVE  /\ Benches(ts, s, a) \subseteq Nat
           /\ \A e \in Benches(ts, s, a) : LabelAt(ts, <<s[1], e>>) \in Pair
<1>1. ASSUME NEW e \in Benches(ts, s, a)
      PROVE  e \in 1..Len(PoolAt(ts, s)) /\ LabelAt(ts, <<s[1], e>>) # None
  BY <1>1, SlotFacts DEF Benches, Limits
<1>2. PoolAt(ts, s) \in Seq(Key)
  BY SlotFacts
<1>3. \A e \in 1..Len(PoolAt(ts, s)) : LabelAt(ts, <<s[1], e>>) \in Pair \cup {None}
  BY SlotFacts
<1>4. 1..Len(PoolAt(ts, s)) \subseteq Nat
  BY <1>2
<1> QED
  BY <1>1, <1>3, <1>4

\* A request none of whose variables change keeps its place.
LEMMA SameRequest ==
    ASSUME NEW q \in Request, WalkOf(q),
           pc'[q] = pc[q], route'[q] = route[q], plan'[q] = plan[q], at'[q] = at[q],
           skip'[q] = skip[q], error'[q] = error[q], toBench'[q] = toBench[q],
           result'[q] = result[q], tried'[q] = tried[q], walled'[q] = walled[q]
    PROVE  WalkOf(q)'
BY DEF WalkOf, Active, Spent, ProviderAt, TargetAt, LabelAt, PoolAt, Slots, Before

\* What the end of the catch block leaves: the request is done with nothing
\* left to try, or at the next attempt that is not of provider sk.
LEMMA AdvanceFacts ==
    ASSUME NEW r \in Request, NEW a \in Answer \ {"served", "abortError"}, NEW sk,
           AdvanceOrThrow(r, a, sk)
    PROVE  \/ /\ pc' = [pc EXCEPT ![r] = "done"]
              /\ \E res \in {"error", "fellThrough"} : result' = [result EXCEPT ![r] = res]
              /\ at' = at /\ tried' = tried
              /\ a # "fatal" => \A s \in plan[r] :
                    Before(at[r], s) => ProviderAt(route[r], s) = sk
           \/ /\ pc' = [pc EXCEPT ![r] = "calling"]
              /\ result' = result
              /\ a # "fatal"
              /\ \E next \in plan[r] :
                    /\ at' = [at EXCEPT ![r] = next]
                    /\ tried' = [tried EXCEPT ![r] = @ \cup {next}]
                    /\ \A s \in plan[r] : Before(at[r], s) =>
                          \/ s = next \/ Before(next, s)
                          \/ ProviderAt(route[r], s) = sk
<1> DEFINE later == {s \in plan[r] : Before(at[r], s)}
           rest == {s \in later : ProviderAt(route[r], s) # sk}
<1>1. a # "fatal" <=> Eligible(a)
  BY DEF Eligible, Answer
<1>2. CASE (~Eligible(a) \/ later = {}) /\ Finish(r, "error") /\ UNCHANGED <<at, tried>>
  BY <1>1, <1>2 DEF Finish
<1>3. CASE Eligible(a) /\ rest = {} /\ Finish(r, "fellThrough") /\ UNCHANGED <<at, tried>>
  BY <1>1, <1>3 DEF Finish
<1>4. CASE /\ Eligible(a)
           /\ \E next \in rest :
                 /\ \A s \in rest \ {next} : Before(next, s)
                 /\ at' = [at EXCEPT ![r] = next]
                 /\ tried' = [tried EXCEPT ![r] = @ \cup {next}]
           /\ pc' = [pc EXCEPT ![r] = "calling"]
           /\ UNCHANGED result
  BY <1>1, <1>4
<1> QED
  BY <1>2, <1>3, <1>4 DEF AdvanceOrThrow

\* The end of the catch block keeps the walk's account: what lies behind is
\* tried, or skipped as sk, which is walled by then.
LEMMA AdvanceWalk ==
    ASSUME FailoverInv, NEW r \in Request, Active(r),
           NEW a \in Answer \ {"served", "abortError"}, NEW sk \in Provider \cup {None},
           AdvanceOrThrow(r, a, sk),
           route' = route, plan' = plan, error'[r] = a, skip'[r] = sk,
           walled[r] \subseteq walled'[r], sk # None => sk \in walled'[r]
    PROVE  WalkOf(r)'
<1>0. WalkOf(r) /\ FailoverTypeOK
  BY DEF FailoverInv, WalkInv
<1>1. /\ at[r] \in plan[r] /\ plan[r] \subseteq Slots(route[r])
      /\ \A s \in plan[r] : ~Before(at[r], s) => Spent(r, s)
  BY <1>0 DEF WalkOf
<1>2. /\ plan[r] \subseteq Nat \X Nat
      /\ \A s \in plan[r] : ProviderAt(route[r], s) \in Provider
      /\ \A s \in plan[r] : ProviderAt(route[r], s)' = ProviderAt(route[r], s)
  BY <1>0, <1>1, SlotFacts DEF FailoverTypeOK, ProviderAt, TargetAt
<1>3. \A s \in plan[r] : ProviderAt(route[r], s) = sk => ProviderAt(route[r], s) \in walled'[r]
  BY <1>2, FailoverAssumption
<1>4. plan'[r] \subseteq Slots(route[r])' /\ plan'[r] = plan[r]
  BY <1>1 DEF Slots
<1>5. CASE /\ pc' = [pc EXCEPT ![r] = "done"]
           /\ \E res \in {"error", "fellThrough"} : result' = [result EXCEPT ![r] = res]
           /\ at' = at /\ tried' = tried
           /\ a # "fatal" => \A s \in plan[r] :
                 Before(at[r], s) => ProviderAt(route[r], s) = sk
  <2>1. pc'[r] = "done"
    BY <1>0, <1>5 DEF FailoverTypeOK
  <2>2. a # "fatal" => \A s \in plan[r] : Spent(r, s)'
    BY <1>1, <1>2, <1>3, <1>5 DEF Spent
  <2> QED
    BY <1>4, <2>1, <2>2 DEF WalkOf, Active
<1>6. CASE /\ pc' = [pc EXCEPT ![r] = "calling"]
           /\ result' = result
           /\ a # "fatal"
           /\ \E next \in plan[r] :
                 /\ at' = [at EXCEPT ![r] = next]
                 /\ tried' = [tried EXCEPT ![r] = @ \cup {next}]
                 /\ \A s \in plan[r] : Before(at[r], s) =>
                       \/ s = next \/ Before(next, s)
                       \/ ProviderAt(route[r], s) = sk
  <2>1. PICK next \in plan[r] :
                 /\ at' = [at EXCEPT ![r] = next]
                 /\ tried' = [tried EXCEPT ![r] = @ \cup {next}]
                 /\ \A s \in plan[r] : Before(at[r], s) =>
                       \/ s = next \/ Before(next, s)
                       \/ ProviderAt(route[r], s) = sk
    BY <1>6
  <2>2. at'[r] = next /\ tried'[r] = tried[r] \cup {next} /\ pc'[r] = "calling"
        /\ result'[r] = "none"
    BY <1>0, <1>6, <2>1 DEF FailoverTypeOK, WalkOf
  <2>3. ASSUME NEW s \in plan[r], ~Before(next, s)
        PROVE  Spent(r, s)'
    <3>1. CASE ~Before(at[r], s)
      BY <1>1, <1>2, <2>2, <3>1 DEF Spent
    <3>2. CASE Before(at[r], s)
      BY <1>2, <1>3, <2>1, <2>2, <2>3, <3>2 DEF Spent
    <3> QED
      BY <3>1, <3>2
  <2>4. \A s \in plan'[r] : ~Before(at[r], s)' => Spent(r, s)'
    BY <1>4, <2>2, <2>3 DEF Before
  <2> QED
    BY <1>4, <2>2, <2>4 DEF WalkOf, Active
<1> QED
  BY <1>5, <1>6, AdvanceFacts

\* The types the end of the catch block leaves.
LEMMA AdvanceType ==
    ASSUME FailoverInv, NEW r \in Request, Active(r),
           NEW a \in Answer \ {"served", "abortError"}, NEW sk,
           AdvanceOrThrow(r, a, sk)
    PROVE  /\ pc' \in [Request -> {"idle", "calling", "benching", "done", "lost"}]
           /\ at' \in [Request -> Nat \X Nat]
           /\ tried' \in [Request -> SUBSET (Nat \X Nat)]
           /\ result' \in [Request -> Result]
           /\ \A q \in Request \ {r} : /\ pc'[q] = pc[q] /\ at'[q] = at[q]
                                       /\ tried'[q] = tried[q] /\ result'[q] = result[q]
<1>1. FailoverTypeOK
  BY DEF FailoverInv
<1>2. plan[r] \subseteq Nat \X Nat
  BY <1>1 DEF FailoverTypeOK
<1>3. CASE /\ pc' = [pc EXCEPT ![r] = "done"]
           /\ \E res \in {"error", "fellThrough"} : result' = [result EXCEPT ![r] = res]
           /\ at' = at /\ tried' = tried
  BY <1>1, <1>3 DEF FailoverTypeOK, Result
<1>4. CASE /\ pc' = [pc EXCEPT ![r] = "calling"]
           /\ result' = result
           /\ \E next \in plan[r] :
                 /\ at' = [at EXCEPT ![r] = next]
                 /\ tried' = [tried EXCEPT ![r] = @ \cup {next}]
  <2>1. PICK next \in plan[r] :
                 /\ at' = [at EXCEPT ![r] = next]
                 /\ tried' = [tried EXCEPT ![r] = @ \cup {next}]
    BY <1>4
  <2>2. next \in Nat \X Nat
    BY <1>2
  <2>3. pc' \in [Request -> {"idle", "calling", "benching", "done", "lost"}]
    BY <1>1, <1>4 DEF FailoverTypeOK
  <2>4. at' \in [Request -> Nat \X Nat] /\ tried' \in [Request -> SUBSET (Nat \X Nat)]
    BY <1>1, <2>1, <2>2 DEF FailoverTypeOK
  <2> QED
    BY <1>1, <1>4, <2>1, <2>3, <2>4 DEF FailoverTypeOK
<1> QED
  BY <1>3, <1>4, AdvanceFacts

------------------------------------------------------------------------------
(* One lemma per action.                                                     *)

LEMMA ArriveInv ==
    ASSUME FailoverInv, NEW r \in Request, Arrive(r)
    PROVE  FailoverInv'
<1>0. FailoverTypeOK /\ WalkInv /\ pc[r] = "idle" /\ result[r] = "none"
  BY DEF FailoverInv, WalkInv, WalkOf, Arrive
<1>1. PICK ask \in Asks :
        /\ route' = [route EXCEPT ![r] = ask.targets]
        /\ counting' = [counting EXCEPT ![r] = ask.count]
        /\ plan' = [plan EXCEPT ![r] = Plan(ask.targets, ask.count)]
        /\ \/ /\ \E first \in Plan(ask.targets, ask.count) :
                   /\ \A s \in Plan(ask.targets, ask.count) \ {first} : Before(first, s)
                   /\ at' = [at EXCEPT ![r] = first]
                   /\ tried' = [tried EXCEPT ![r] = {first}]
              /\ pc' = [pc EXCEPT ![r] = "calling"]
              /\ UNCHANGED <<result, retryAfter>>
           \/ /\ Finish(r, EmptyPlanResult(ask.targets, ask.count))
              /\ \E wait \in (0..MaxCooldown) \cup {None} :
                    retryAfter' = [retryAfter EXCEPT ![r] = wait]
              /\ UNCHANGED <<at, tried>>
  BY DEF Arrive
<1> DEFINE ts == ask.targets
           P == Plan(ts, ask.count)
           res == EmptyPlanResult(ts, ask.count)
<1>2. ts \in Seq(Target) /\ ask.count \in BOOLEAN
  BY FailoverAssumption
<1>3. P \subseteq Slots(ts) /\ P \subseteq Nat \X Nat
  BY <1>2, SlotFacts DEF Plan, BuildAttempts
<1>4. res \in {"unsupported", "coolingDown", "noRoute", "disabled"}
  BY DEF EmptyPlanResult
<1>5. UNCHANGED <<skip, error, toBench, stamp, aborted, walled, limited>>
  BY DEF Arrive
<1>6. (0..MaxCooldown) \cup {None} \subseteq Nat \cup {None}
  BY StoreAssumption
<1> HIDE DEF P, res
<1>7. /\ route' \in [Request -> Seq(Target)] /\ counting' \in [Request -> BOOLEAN]
      /\ plan' \in [Request -> SUBSET (Nat \X Nat)]
      /\ route'[r] = ts /\ plan'[r] = P
      /\ \A q \in Request \ {r} : route'[q] = route[q] /\ plan'[q] = plan[q]
  BY <1>0, <1>1, <1>2, <1>3 DEF FailoverTypeOK, P
<1>8. plan'[r] \subseteq Slots(route[r])'
  BY <1>3, <1>7 DEF Slots
<1>9. CASE /\ \E first \in P :
                   /\ \A s \in P \ {first} : Before(first, s)
                   /\ at' = [at EXCEPT ![r] = first]
                   /\ tried' = [tried EXCEPT ![r] = {first}]
              /\ pc' = [pc EXCEPT ![r] = "calling"]
              /\ UNCHANGED <<result, retryAfter>>
  <2>1. PICK first \in P :
                   /\ \A s \in P \ {first} : Before(first, s)
                   /\ at' = [at EXCEPT ![r] = first]
                   /\ tried' = [tried EXCEPT ![r] = {first}]
    BY <1>9
  <2>2. at' \in [Request -> Nat \X Nat] /\ tried' \in [Request -> SUBSET (Nat \X Nat)]
        /\ at'[r] = first /\ tried'[r] = {first}
        /\ \A q \in Request \ {r} : at'[q] = at[q] /\ tried'[q] = tried[q]
    BY <1>0, <1>3, <2>1 DEF FailoverTypeOK
  <2>3. pc' \in [Request -> {"idle", "calling", "benching", "done", "lost"}]
        /\ pc'[r] = "calling" /\ \A q \in Request \ {r} : pc'[q] = pc[q]
    BY <1>0, <1>9 DEF FailoverTypeOK
  <2>4. FailoverTypeOK'
    BY <1>0, <1>5, <1>7, <1>9, <2>2, <2>3 DEF FailoverTypeOK
  <2>5. skip'[r] # None => skip'[r] \in walled'[r]
    BY <1>0, <1>5 DEF FailoverInv, WalkInv, WalkOf
  <2>6. \A s \in P : ~Before(first, s) => s = first
    BY <2>1
  <2>7. WalkOf(r)'
    BY <1>0, <1>7, <1>8, <1>9, <2>2, <2>3, <2>5, <2>6 DEF WalkOf, Active, Spent, Before
  <2>8. ASSUME NEW q \in Request \ {r} PROVE WalkOf(q)'
    BY <1>0, <1>5, <1>7, <1>9, <2>2, <2>3, SameRequest DEF WalkInv
  <2> QED
    BY <2>4, <2>7, <2>8 DEF FailoverInv, WalkInv
<1>10. CASE /\ Finish(r, res)
            /\ \E wait \in (0..MaxCooldown) \cup {None} :
                    retryAfter' = [retryAfter EXCEPT ![r] = wait]
            /\ UNCHANGED <<at, tried>>
  <2>1. /\ pc' = [pc EXCEPT ![r] = "done"] /\ result' = [result EXCEPT ![r] = res]
        /\ at' = at /\ tried' = tried
    BY <1>10 DEF Finish
  <2>2. retryAfter' \in [Request -> Nat \cup {None}]
    BY <1>0, <1>6, <1>10 DEF FailoverTypeOK
  <2>3. FailoverTypeOK'
    <3>1. res \in Result
      BY <1>4 DEF Result
    <3>2. pc' \in [Request -> {"idle", "calling", "benching", "done", "lost"}]
          /\ result' \in [Request -> Result]
      BY <1>0, <2>1, <3>1 DEF FailoverTypeOK
    <3> QED
      BY <1>0, <1>5, <1>7, <2>1, <2>2, <3>2 DEF FailoverTypeOK
  <2>4. WalkOf(r)'
    <3>1. pc'[r] = "done" /\ result'[r] = res
      BY <1>0, <2>1 DEF FailoverTypeOK
    <3>2. skip'[r] # None => skip'[r] \in walled'[r]
      BY <1>0, <1>5 DEF WalkInv, WalkOf
    <3> QED
      BY <1>4, <1>8, <3>1, <3>2 DEF WalkOf, Active
  <2>5. ASSUME NEW q \in Request \ {r} PROVE WalkOf(q)'
    <3>1. pc'[q] = pc[q] /\ result'[q] = result[q]
      BY <1>0, <2>1 DEF FailoverTypeOK
    <3> QED
      BY <1>0, <1>5, <1>7, <2>1, <3>1, SameRequest DEF WalkInv
  <2> QED
    BY <2>3, <2>4, <2>5 DEF FailoverInv, WalkInv
<1> QED
  BY <1>1, <1>9, <1>10 DEF P, res

\* A step that ends request r and changes nothing else of any request.
LEMMA EndInv ==
    ASSUME FailoverInv, NEW r \in Request, pc[r] = "calling",
           NEW res \in {"served", "aborted"}, Finish(r, res),
           UNCHANGED <<counting, route, plan, at, skip, error, toBench, stamp,
                       aborted, retryAfter, tried, walled, limited>>
    PROVE  FailoverInv'
<1>0. FailoverTypeOK /\ WalkInv
  BY DEF FailoverInv
<1>1. /\ pc' \in [Request -> {"idle", "calling", "benching", "done", "lost"}]
      /\ result' \in [Request -> Result]
      /\ pc'[r] = "done" /\ result'[r] = res
      /\ \A q \in Request \ {r} : pc'[q] = pc[q] /\ result'[q] = result[q]
  BY <1>0 DEF FailoverTypeOK, Finish, Result
<1>2. FailoverTypeOK'
  BY <1>0, <1>1 DEF FailoverTypeOK
<1>3. WalkOf(r)'
  <2>1. WalkOf(r)
    BY <1>0 DEF WalkInv
  <2> QED
    BY <1>1, <2>1 DEF WalkOf, Active, Slots
<1>4. ASSUME NEW q \in Request \ {r} PROVE WalkOf(q)'
  BY <1>0, <1>1, SameRequest DEF WalkInv
<1> QED
  BY <1>2, <1>3, <1>4 DEF FailoverInv, WalkInv

LEMMA AbortInv ==
    ASSUME FailoverInv, NEW r \in Request, ClientAbort(r)
    PROVE  FailoverInv'
<1>0. FailoverTypeOK /\ WalkInv
  BY DEF FailoverInv
<1>1. FailoverTypeOK'
  BY <1>0 DEF FailoverTypeOK, ClientAbort
<1>2. ASSUME NEW q \in Request PROVE WalkOf(q)'
  BY <1>0, SameRequest DEF WalkInv, ClientAbort
<1> QED
  BY <1>1, <1>2 DEF FailoverInv, WalkInv

LEMMA FailedInv ==
    ASSUME FailoverInv, NEW r \in Request, NEW a \in Answers, Failed(r, a)
    PROVE  FailoverInv'
<1> DEFINE whole == BenchesAccount(route[r], at[r], a)
           marks == Benches(route[r], at[r], a)
           provider == ProviderAt(route[r], at[r])
           sk == IF whole THEN provider ELSE skip[r]
           lim == {PoolAt(route[r], at[r])[e] : e \in Limits(route[r], at[r], a)}
<1>0. FailoverTypeOK /\ WalkInv /\ WalkOf(r) /\ Active(r) /\ pc[r] = "calling"
  BY DEF FailoverInv, WalkInv, Failed, Active
<1>1. a \in Answer \ {"served", "abortError"}
  BY FailoverAssumption DEF Failed, ClientGone
<1>2. route[r] \in Seq(Target) /\ at[r] \in Slots(route[r])
  BY <1>0 DEF FailoverTypeOK, WalkOf
<1>3. provider \in Provider /\ sk \in Provider \cup {None}
  BY <1>0, <1>2, SlotFacts DEF FailoverTypeOK
<1>4. marks \subseteq Nat /\ \A e \in marks : LabelAt(route[r], <<at[r][1], e>>) \in Pair
  BY <1>2, BenchesLabelled
<1>5. lim \subseteq Key
  <2>1. PoolAt(route[r], at[r]) \in Seq(Key)
    BY <1>2, SlotFacts
  <2>2. Limits(route[r], at[r], a) \subseteq 1..Len(PoolAt(route[r], at[r]))
    BY <1>2, SlotFacts DEF Limits
  <2> QED
    BY <2>1, <2>2
<1>6. marks # {} => a \in {"rateLimit", "quota", "fairUse"}
  BY DEF Benches, Limits, BenchesAccount, Is429
<1>7. /\ error' = [error EXCEPT ![r] = a] /\ skip' = [skip EXCEPT ![r] = sk]
      /\ walled' = [walled EXCEPT ![r] = IF whole THEN @ \cup {provider} ELSE @]
      /\ limited' = limited \cup lim
      /\ toBench' = [toBench EXCEPT ![r] = marks]
      /\ \E s \in Stamp : stamp' = [stamp EXCEPT ![r] = s]
      /\ counting' = counting /\ route' = route /\ plan' = plan
      /\ aborted' = aborted /\ retryAfter' = retryAfter
  BY DEF Failed
<1>8. \/ marks = {} /\ AdvanceOrThrow(r, a, sk)
      \/ /\ marks # {}
         /\ pc' = [pc EXCEPT ![r] = "benching"] /\ UNCHANGED <<at, tried, result>>
  BY DEF Failed
<1> HIDE DEF whole, marks, provider, sk, lim
<1>9. /\ error' \in [Request -> Answer \cup {None}]
      /\ skip' \in [Request -> Provider \cup {None}]
      /\ walled' \in [Request -> SUBSET Provider]
      /\ limited' \subseteq Key
      /\ toBench' \in [Request -> SUBSET Nat]
      /\ stamp' \in [Request -> Stamp]
  BY <1>0, <1>1, <1>3, <1>4, <1>5, <1>7 DEF FailoverTypeOK
<1>10. /\ error'[r] = a /\ skip'[r] = sk /\ toBench'[r] = marks
       /\ walled[r] \subseteq walled'[r]
       /\ \A q \in Request \ {r} : /\ error'[q] = error[q] /\ skip'[q] = skip[q]
                                   /\ walled'[q] = walled[q] /\ toBench'[q] = toBench[q]
  BY <1>0, <1>7 DEF FailoverTypeOK
<1>11. sk # None => sk \in walled'[r]
  <2>1. CASE whole
    BY <1>0, <1>7, <2>1 DEF FailoverTypeOK, sk
  <2>2. CASE ~whole
    BY <1>0, <1>10, <2>2 DEF WalkOf, sk
  <2> QED
    BY <2>1, <2>2
<1>12. CASE marks = {} /\ AdvanceOrThrow(r, a, sk)
  <2>1. WalkOf(r)'
    BY <1>0, <1>1, <1>3, <1>7, <1>10, <1>11, <1>12, AdvanceWalk
  <2>2. /\ pc' \in [Request -> {"idle", "calling", "benching", "done", "lost"}]
        /\ at' \in [Request -> Nat \X Nat]
        /\ tried' \in [Request -> SUBSET (Nat \X Nat)]
        /\ result' \in [Request -> Result]
        /\ \A q \in Request \ {r} : /\ pc'[q] = pc[q] /\ at'[q] = at[q]
                                    /\ tried'[q] = tried[q] /\ result'[q] = result[q]
    BY <1>0, <1>1, <1>12, AdvanceType
  <2>3. FailoverTypeOK'
    BY <1>0, <1>7, <1>9, <2>2 DEF FailoverTypeOK
  <2>4. ASSUME NEW q \in Request \ {r} PROVE WalkOf(q)'
    BY <1>0, <1>7, <1>10, <2>2, SameRequest DEF WalkInv
  <2> QED
    BY <2>1, <2>3, <2>4 DEF FailoverInv, WalkInv
<1>13. CASE /\ marks # {}
            /\ pc' = [pc EXCEPT ![r] = "benching"] /\ UNCHANGED <<at, tried, result>>
  <2>1. /\ pc' \in [Request -> {"idle", "calling", "benching", "done", "lost"}]
        /\ pc'[r] = "benching" /\ \A q \in Request \ {r} : pc'[q] = pc[q]
    BY <1>0, <1>13 DEF FailoverTypeOK
  <2>2. FailoverTypeOK'
    BY <1>0, <1>7, <1>9, <1>13, <2>1 DEF FailoverTypeOK
  <2>3. /\ at[r] \in plan[r] /\ result[r] = "none" /\ plan[r] \subseteq Slots(route[r])
        /\ \A s \in plan[r] : ~Before(at[r], s) => Spent(r, s)
    BY <1>0 DEF WalkOf
  <2>4. \A s \in plan[r] : Spent(r, s) => Spent(r, s)'
    BY <1>7, <1>10, <1>13 DEF Spent, ProviderAt, TargetAt
  <2>5. \A e \in toBench'[r] : LabelAt(route[r], <<at[r][1], e>>)' \in Pair
    BY <1>4, <1>7, <1>10, <1>13 DEF LabelAt, PoolAt, TargetAt
  <2>6. plan'[r] \subseteq Slots(route[r])'
    BY <1>7, <2>3 DEF Slots
  <2>7. \A s \in plan'[r] : ~Before(at[r], s)' => Spent(r, s)'
    BY <1>7, <1>13, <2>3, <2>4 DEF Before
  <2>8. /\ at'[r] \in plan'[r] /\ result'[r] = "none" /\ error'[r] = a
        /\ skip'[r] # None => skip'[r] \in walled'[r]
    BY <1>7, <1>10, <1>11, <1>13, <2>3
  <2>9. WalkOf(r)'
    BY <1>6, <1>13, <2>1, <2>5, <2>6, <2>7, <2>8 DEF WalkOf, Active, LabelAt, PoolAt, TargetAt
  <2>10. ASSUME NEW q \in Request \ {r} PROVE WalkOf(q)'
    BY <1>0, <1>7, <1>10, <1>13, <2>1, SameRequest DEF WalkInv
  <2> QED
    BY <2>2, <2>9, <2>10 DEF FailoverInv, WalkInv
<1> QED
  BY <1>8, <1>12, <1>13

LEMMA BenchInv ==
    ASSUME FailoverInv, NEW r \in Request, Bench(r)
    PROVE  FailoverInv'
<1>0. FailoverTypeOK /\ WalkInv /\ WalkOf(r) /\ Active(r) /\ pc[r] = "benching"
  BY DEF FailoverInv, WalkInv, Bench, Active
<1>1. PICK e \in toBench[r] :
        /\ toBench' = [toBench EXCEPT ![r] = @ \ {e}]
        /\ \/ /\ toBench[r] = {e}
              /\ AdvanceOrThrow(r, error[r], skip[r])
              /\ stamp' = [stamp EXCEPT ![r] = None]
           \/ /\ toBench[r] # {e}
              /\ UNCHANGED <<pc, at, tried, result, stamp>>
  BY DEF Bench
<1>2. UNCHANGED <<counting, route, plan, skip, error, aborted, retryAfter, walled, limited>>
  BY DEF Bench
<1>3. /\ toBench' \in [Request -> SUBSET Nat]
      /\ toBench'[r] = toBench[r] \ {e}
      /\ \A q \in Request \ {r} : toBench'[q] = toBench[q]
  BY <1>0, <1>1 DEF FailoverTypeOK
<1>4. error[r] \in {"rateLimit", "quota", "fairUse"} /\ skip[r] \in Provider \cup {None}
      /\ (skip[r] # None => skip[r] \in walled[r])
  BY <1>0 DEF WalkOf, FailoverTypeOK
<1>5. CASE /\ AdvanceOrThrow(r, error[r], skip[r])
           /\ stamp' = [stamp EXCEPT ![r] = None]
  <2>1. error[r] \in Answer \ {"served", "abortError"}
    BY <1>4 DEF Answer
  <2>2. WalkOf(r)'
    BY <1>0, <1>2, <1>4, <1>5, <2>1, AdvanceWalk
  <2>3. /\ pc' \in [Request -> {"idle", "calling", "benching", "done", "lost"}]
        /\ at' \in [Request -> Nat \X Nat]
        /\ tried' \in [Request -> SUBSET (Nat \X Nat)]
        /\ result' \in [Request -> Result]
        /\ \A q \in Request \ {r} : /\ pc'[q] = pc[q] /\ at'[q] = at[q]
                                    /\ tried'[q] = tried[q] /\ result'[q] = result[q]
    BY <1>0, <1>5, <2>1, AdvanceType
  <2>4. FailoverTypeOK'
    BY <1>0, <1>2, <1>3, <1>5, <2>3 DEF FailoverTypeOK, Stamp
  <2>5. ASSUME NEW q \in Request \ {r} PROVE WalkOf(q)'
    BY <1>0, <1>2, <1>3, <2>3, SameRequest DEF WalkInv
  <2> QED
    BY <2>2, <2>4, <2>5 DEF FailoverInv, WalkInv
<1>6. CASE UNCHANGED <<pc, at, tried, result, stamp>>
  <2>1. FailoverTypeOK'
    BY <1>0, <1>2, <1>3, <1>6 DEF FailoverTypeOK
  <2>2. WalkOf(r)'
    BY <1>0, <1>2, <1>3, <1>6 DEF WalkOf, Active, Spent, ProviderAt, TargetAt, LabelAt,
                                  PoolAt, Slots, Before
  <2>3. ASSUME NEW q \in Request \ {r} PROVE WalkOf(q)'
    BY <1>0, <1>2, <1>3, <1>6, SameRequest DEF WalkInv
  <2> QED
    BY <2>1, <2>2, <2>3 DEF FailoverInv, WalkInv
<1> QED
  BY <1>1, <1>5, <1>6

LEMMA LeaveInv ==
    ASSUME FailoverInv, NEW r \in Request, Leave(r)
    PROVE  FailoverInv'
<1>0. FailoverTypeOK /\ WalkInv
  BY DEF FailoverInv
<1>1. FailoverTypeOK'
  <2>1. /\ <<>> \in Seq(Target) /\ <<0, 0>> \in Nat \X Nat /\ None \in Stamp
        /\ "none" \in Result
    BY DEF Stamp, Result
  <2>2. /\ pc' \in [Request -> {"idle", "calling", "benching", "done", "lost"}]
        /\ counting' \in [Request -> BOOLEAN]
        /\ route' \in [Request -> Seq(Target)]
        /\ plan' \in [Request -> SUBSET (Nat \X Nat)]
        /\ at' \in [Request -> Nat \X Nat]
        /\ skip' \in [Request -> Provider \cup {None}]
        /\ error' \in [Request -> Answer \cup {None}]
    BY <1>0, <2>1 DEF FailoverTypeOK, Leave
  <2>3. /\ toBench' \in [Request -> SUBSET Nat]
        /\ stamp' \in [Request -> Stamp]
        /\ aborted' \in [Request -> BOOLEAN]
        /\ result' \in [Request -> Result]
        /\ retryAfter' \in [Request -> Nat \cup {None}]
        /\ tried' \in [Request -> SUBSET (Nat \X Nat)]
        /\ walled' \in [Request -> SUBSET Provider]
        /\ limited' \subseteq Key
    BY <1>0, <2>1 DEF FailoverTypeOK, Leave
  <2> QED
    BY <2>2, <2>3 DEF FailoverTypeOK
<1>2. /\ pc'[r] = "idle" /\ result'[r] = "none" /\ skip'[r] = None /\ plan'[r] = {}
  BY <1>0 DEF FailoverTypeOK, Leave
<1>3. WalkOf(r)'
  BY <1>2 DEF WalkOf, Active
<1>4. ASSUME NEW q \in Request \ {r} PROVE WalkOf(q)'
  <2>1. /\ pc'[q] = pc[q] /\ route'[q] = route[q] /\ plan'[q] = plan[q] /\ at'[q] = at[q]
        /\ skip'[q] = skip[q] /\ error'[q] = error[q] /\ toBench'[q] = toBench[q]
        /\ result'[q] = result[q] /\ tried'[q] = tried[q] /\ walled'[q] = walled[q]
    BY <1>0 DEF FailoverTypeOK, Leave
  <2> QED
    BY <1>0, <2>1, SameRequest DEF WalkInv
<1> QED
  BY <1>1, <1>3, <1>4 DEF FailoverInv, WalkInv

LEMMA ProcessCrashInv ==
    ASSUME FailoverInv, ProcessCrash
    PROVE  FailoverInv'
<1>0. FailoverTypeOK /\ WalkInv
  BY DEF FailoverInv
<1>1. pc' = [r \in Request |-> IF pc[r] \in {"calling", "benching"} THEN "lost" ELSE pc[r]]
  BY DEF ProcessCrash
<1>2. UNCHANGED <<counting, route, plan, at, skip, error, toBench, stamp, aborted,
                  result, retryAfter, tried, walled, limited>>
  BY DEF ProcessCrash
<1>3. pc' \in [Request -> {"idle", "calling", "benching", "done", "lost"}]
  BY <1>0, <1>1 DEF FailoverTypeOK
<1>4. FailoverTypeOK'
  BY <1>0, <1>2, <1>3 DEF FailoverTypeOK
<1>5. ASSUME NEW q \in Request PROVE WalkOf(q)'
  <2>1. WalkOf(q)
    BY <1>0 DEF WalkInv
  <2>2. CASE Active(q)
    <3>1. pc'[q] = "lost" /\ result[q] = "none"
      BY <1>1, <2>1, <2>2 DEF Active, WalkOf
    <3> QED
      BY <1>2, <2>1, <3>1 DEF WalkOf, Active, Slots
  <2>3. CASE ~Active(q)
    <3>1. pc'[q] = pc[q]
      BY <1>1, <2>3 DEF Active
    <3> QED
      BY <1>2, <2>1, <3>1, SameRequest
  <2> QED
    BY <2>2, <2>3
<1> QED
  BY <1>4, <1>5 DEF FailoverInv, WalkInv

\* Steps that touch no request.
LEMMA IdleInv ==
    ASSUME FailoverInv, UNCHANGED requestVars
    PROVE  FailoverInv'
<1>1. FailoverTypeOK'
  BY DEF FailoverInv, FailoverTypeOK, requestVars
<1>2. ASSUME NEW q \in Request PROVE WalkOf(q)'
  BY SameRequest DEF FailoverInv, WalkInv, requestVars
<1> QED
  BY <1>1, <1>2 DEF FailoverInv, WalkInv

LEMMA FailoverInitInv == FailoverInit => FailoverInv
<1> SUFFICES ASSUME FailoverInit PROVE FailoverInv
  OBVIOUS
<1>1. FailoverTypeOK
  <2>1. /\ <<>> \in Seq(Target) /\ <<0, 0>> \in Nat \X Nat /\ None \in Stamp
        /\ "none" \in Result
    BY DEF Stamp, Result
  <2>2. /\ pc \in [Request -> {"idle", "calling", "benching", "done", "lost"}]
        /\ counting \in [Request -> BOOLEAN]
        /\ route \in [Request -> Seq(Target)]
        /\ plan \in [Request -> SUBSET (Nat \X Nat)]
        /\ at \in [Request -> Nat \X Nat]
        /\ skip \in [Request -> Provider \cup {None}]
        /\ error \in [Request -> Answer \cup {None}]
    BY <2>1 DEF FailoverInit
  <2>3. /\ toBench \in [Request -> SUBSET Nat]
        /\ stamp \in [Request -> Stamp]
        /\ aborted \in [Request -> BOOLEAN]
        /\ result \in [Request -> Result]
        /\ retryAfter \in [Request -> Nat \cup {None}]
        /\ tried \in [Request -> SUBSET (Nat \X Nat)]
        /\ walled \in [Request -> SUBSET Provider]
        /\ limited \subseteq Key
    BY <2>1 DEF FailoverInit
  <2> QED
    BY <2>2, <2>3 DEF FailoverTypeOK
<1>2. WalkInv
  BY DEF FailoverInit, WalkInv, WalkOf, Active
<1> QED
  BY <1>1, <1>2 DEF FailoverInv

LEMMA FailoverStepInv == FailoverInv /\ [FailoverNext]_vars => FailoverInv'
<1> SUFFICES ASSUME FailoverInv, [FailoverNext]_vars PROVE FailoverInv'
  OBVIOUS
<1>1. CASE UNCHANGED vars
  BY <1>1, IdleInv DEF vars
<1>2. ASSUME NEW r \in Request, RequestNext(r) PROVE FailoverInv'
  <2>1. CASE Served(r)
    BY <2>1, EndInv DEF Served
  <2>2. CASE \E a \in Answers : FailedGone(r, a)
    BY <2>2, EndInv DEF FailedGone
  <2>3. CASE \E a \in Answers : Failed(r, a)
    BY <2>3, FailedInv
  <2> QED
    BY <1>2, <2>1, <2>2, <2>3, ArriveInv, AbortInv, BenchInv, LeaveInv DEF RequestNext
<1>3. CASE (\E p \in Pair : StoreFire(p)) \/ StoreTick \/ StoreStart
  BY <1>3, IdleInv DEF StoreFire, StoreTick, StoreStart
<1> QED
  BY <1>1, <1>2, <1>3, ProcessCrashInv DEF FailoverNext

------------------------------------------------------------------------------
\* Type correctness of the engine, for every tier, pool and cap.
THEOREM FailoverTypeCorrect == FailoverSpec => []FailoverTypeOK
<1>1. FailoverInv => FailoverTypeOK
  BY DEF FailoverInv
<1> QED
  BY <1>1, FailoverInitInv, FailoverStepInv, PTL DEF FailoverSpec

\* A retryable error reaches the client only when every planned attempt was made
\* or is on a provider that blocked the account: for every plan, every number
\* of concurrent requests and every interleaving with timers and crashes.
THEOREM FailoverGivesUpExhausted == FailoverSpec => []GiveUpExhausted
<1>1. FailoverInv => GiveUpExhausted
  BY DEF FailoverInv, WalkInv, WalkOf, GiveUpExhausted
<1> QED
  BY <1>1, FailoverInitInv, FailoverStepInv, PTL DEF FailoverSpec

\* Every step of the engine is a step of the store or leaves the store alone.
LEMMA FailoverStepRefines ==
    ASSUME FailoverInv, [FailoverNext]_vars
    PROVE  [StoreNext]_storeVars
<1>0. FailoverTypeOK /\ WalkInv
  BY DEF FailoverInv
<1>1. CASE UNCHANGED vars
  BY <1>1 DEF vars
<1>2. ASSUME NEW r \in Request, RequestNext(r) PROVE [StoreNext]_storeVars
  <2>1. CASE Bench(r)
    <3>1. PICK e \in toBench[r] : Mark(LabelAt(route[r], <<at[r][1], e>>), stamp[r])
      BY <2>1 DEF Bench
    <3>2. LabelAt(route[r], <<at[r][1], e>>) \in Pair /\ stamp[r] \in Stamp
      BY <1>0, <2>1 DEF WalkInv, WalkOf, FailoverTypeOK, Bench
    <3> QED
      BY <3>1, <3>2 DEF StoreNext
  <2>2. CASE ~Bench(r)
    BY <1>2, <2>2 DEF RequestNext, Arrive, ClientAbort, Served, FailedGone, Failed, Leave
  <2> QED
    BY <2>1, <2>2
<1>3. CASE \E p \in Pair : StoreFire(p)
  BY <1>3 DEF StoreFire, StoreNext
<1>4. CASE StoreTick \/ StoreStart \/ ProcessCrash
  BY <1>4 DEF StoreTick, StoreStart, ProcessCrash, StoreNext
<1> QED
  BY <1>1, <1>2, <1>3, <1>4 DEF FailoverNext

\* The running engine implements the cooldown store: it only ever changes the
\* store through its operations, each with a pair of the store and a stamp.
THEOREM FailoverImplementsStore == FailoverSpec => StoreSpec
<1>1. FailoverInit => StoreInit
  BY DEF FailoverInit
<1> QED
  BY <1>1, FailoverInitInv, FailoverStepInv, FailoverStepRefines, PTL
     DEF FailoverSpec, StoreSpec

\* So the store's guarantees hold of the whole system: no bench past the cap, no
\* bench without its 429, none lifted early, none forgotten by a restart.
THEOREM SystemBenchesSound ==
    FailoverSpec => [](WindowBounded /\ WindowJustified /\ RestartKeepsState)
                    /\ NoEarlyReinstatement
BY FailoverImplementsStore, StoreWindowBounded, StoreWindowJustified,
   StoreRestartKeepsState, StoreNoEarlyReinstatement, PTL

\* What a gone client means for the walk: benching belongs to a request whose
\* client was there when the 429 arrived.
AbandonInv ==
    \A r \in Request :
        /\ pc[r] \notin {"benching", "lost"} => toBench[r] = {}
        /\ toBench[r] # {} => ~aborted[r] \/ counting[r]
        /\ pc[r] = "idle" => ~aborted[r]

LEMMA AbandonStep ==
    ASSUME FailoverInv, AbandonInv, [FailoverNext]_vars
    PROVE  AbandonInv'
<1>0. FailoverTypeOK
  BY DEF FailoverInv
<1>1. CASE UNCHANGED vars
  BY <1>1 DEF vars, requestVars, AbandonInv
<1>2. ASSUME NEW r \in Request, RequestNext(r) PROVE AbandonInv'
  <2>1. CASE Arrive(r)
    <3>1. /\ pc[r] = "idle" /\ toBench' = toBench /\ aborted' = aborted
          /\ \A q \in Request \ {r} : pc'[q] = pc[q] /\ counting'[q] = counting[q]
      BY <1>0, <2>1 DEF Arrive, Finish, FailoverTypeOK
    <3>2. toBench[r] = {} /\ ~aborted[r]
      BY <3>1 DEF AbandonInv
    <3> QED
      BY <3>1, <3>2 DEF AbandonInv
  <2>2. CASE ClientAbort(r)
    <3>1. /\ pc[r] = "calling" /\ toBench' = toBench /\ pc' = pc /\ counting' = counting
          /\ \A q \in Request \ {r} : aborted'[q] = aborted[q]
      BY <1>0, <2>2 DEF ClientAbort, FailoverTypeOK
    <3>2. toBench[r] = {}
      BY <3>1 DEF AbandonInv
    <3> QED
      BY <3>1, <3>2 DEF AbandonInv
  <2>3. CASE Served(r) \/ \E a \in Answers : FailedGone(r, a)
    <3>1. /\ pc[r] = "calling" /\ toBench' = toBench /\ aborted' = aborted
          /\ counting' = counting /\ \A q \in Request \ {r} : pc'[q] = pc[q]
          /\ pc'[r] = "done"
      BY <1>0, <2>3 DEF Served, FailedGone, Finish, FailoverTypeOK
    <3>2. toBench[r] = {}
      BY <3>1 DEF AbandonInv
    <3> QED
      BY <3>1, <3>2 DEF AbandonInv
  <2>4. CASE \E a \in Answers : Failed(r, a)
    <3>1. PICK a \in Answers : Failed(r, a)
      BY <2>4
    <3> DEFINE marks == Benches(route[r], at[r], a)
    <3>2. /\ aborted' = aborted /\ counting' = counting
          /\ ~aborted[r] \/ counting[r]
          /\ toBench' = [toBench EXCEPT ![r] = marks]
          /\ \/ marks = {} /\ \E sk : AdvanceOrThrow(r, a, sk)
             \/ pc' = [pc EXCEPT ![r] = "benching"]
      BY <3>1 DEF Failed, ClientGone
    <3> HIDE DEF marks
    <3>3. \A q \in Request \ {r} : pc'[q] = pc[q] /\ toBench'[q] = toBench[q]
      BY <1>0, <3>2 DEF FailoverTypeOK, AdvanceOrThrow, Finish
    <3>4. toBench'[r] = marks
      BY <1>0, <3>2 DEF FailoverTypeOK
    <3>5. (pc'[r] = "benching" \/ marks = {}) /\ pc'[r] # "idle"
      BY <1>0, <3>2 DEF FailoverTypeOK, AdvanceOrThrow, Finish
    <3> QED
      BY <3>2, <3>3, <3>4, <3>5 DEF AbandonInv
  <2>5. CASE Bench(r)
    <3>1. PICK e \in toBench[r] :
            /\ toBench' = [toBench EXCEPT ![r] = @ \ {e}]
            /\ \/ toBench[r] = {e} /\ AdvanceOrThrow(r, error[r], skip[r])
               \/ pc' = pc
      BY <2>5 DEF Bench
    <3>2. aborted' = aborted /\ counting' = counting /\ pc[r] = "benching"
      BY <2>5 DEF Bench
    <3>3. \A q \in Request \ {r} : pc'[q] = pc[q] /\ toBench'[q] = toBench[q]
      BY <1>0, <3>1 DEF FailoverTypeOK, AdvanceOrThrow, Finish
    <3>4. /\ toBench'[r] = toBench[r] \ {e} /\ (pc'[r] = "benching" \/ toBench[r] = {e})
          /\ pc'[r] # "idle"
      BY <1>0, <3>1, <3>2 DEF FailoverTypeOK, AdvanceOrThrow, Finish
    <3> QED
      BY <3>2, <3>3, <3>4 DEF AbandonInv
  <2>6. CASE Leave(r)
    <3>1. /\ toBench'[r] = {} /\ ~aborted'[r]
          /\ \A q \in Request \ {r} : /\ pc'[q] = pc[q] /\ toBench'[q] = toBench[q]
                                      /\ aborted'[q] = aborted[q] /\ counting'[q] = counting[q]
      BY <1>0, <2>6 DEF FailoverTypeOK, Leave
    <3> QED
      BY <3>1 DEF AbandonInv
  <2> QED
    BY <1>2, <2>1, <2>2, <2>3, <2>4, <2>5, <2>6 DEF RequestNext
<1>3. CASE (\E p \in Pair : StoreFire(p)) \/ StoreTick \/ StoreStart
  BY <1>3 DEF StoreFire, StoreTick, StoreStart, requestVars, AbandonInv
<1>4. CASE ProcessCrash
  <2>1. /\ toBench' = toBench /\ aborted' = aborted /\ counting' = counting
        /\ \A q \in Request : pc[q] \in {"benching", "lost"} => pc'[q] = "lost"
        /\ \A q \in Request : pc'[q] = "idle" => pc[q] = "idle"
    BY <1>0, <1>4 DEF ProcessCrash, FailoverTypeOK
  <2>2. \A q \in Request : pc'[q] \notin {"benching", "lost"} =>
                            pc[q] \notin {"benching", "lost"}
    BY <2>1
  <2> QED
    BY <2>1, <2>2 DEF AbandonInv
<1> QED
  BY <1>1, <1>2, <1>3, <1>4 DEF FailoverNext

\* A 5xx, another 4xx or an abort is never followed by another attempt, and a
\* request whose client has gone starts no attempt and benches no key.
THEOREM FailoverOnlyRetries == FailoverSpec => OnlyRetryableRetried
<1> DEFINE Kept == \A r \in Request :
        /\ ~(tried'[r] \subseteq tried[r]) /\ pc[r] # "idle" =>
             error'[r] \in Answer \ {"served", "fatal", "abortError"}
        /\ aborted[r] /\ ~counting[r] => tried'[r] \subseteq tried[r] /\ toBench'[r] = {}
<1>1. FailoverInv /\ AbandonInv /\ [FailoverNext]_vars => [Kept]_vars
  <2> SUFFICES ASSUME FailoverInv, AbandonInv, FailoverNext, NEW q \in Request
               PROVE  /\ ~(tried'[q] \subseteq tried[q]) /\ pc[q] # "idle" =>
                           error'[q] \in Answer \ {"served", "fatal", "abortError"}
                      /\ aborted[q] /\ ~counting[q] =>
                           tried'[q] \subseteq tried[q] /\ toBench'[q] = {}
    OBVIOUS
  <2>0. FailoverTypeOK /\ WalkOf(q)
    BY DEF FailoverInv, WalkInv
  <2>1. aborted[q] /\ ~counting[q] => toBench[q] = {}
    BY DEF AbandonInv
  <2>2. CASE \E r \in Request : Arrive(r)
    <3>1. PICK r \in Request : Arrive(r)
      BY <2>2
    <3>2. pc[r] = "idle" /\ toBench' = toBench /\ (q # r => tried'[q] = tried[q])
      BY <2>0, <3>1 DEF Arrive, FailoverTypeOK
    <3>3. ~aborted[r]
      BY <3>2 DEF AbandonInv
    <3> QED
      BY <2>1, <3>2, <3>3
  <2>3. CASE \E r \in Request, a \in Answers : Failed(r, a)
    <3>1. PICK r \in Request, a \in Answers : Failed(r, a)
      BY <2>3
    <3>2. CASE q = r
      <4>1. error'[q] = a /\ (~aborted[q] \/ counting[q])
        BY <2>0, <3>1, <3>2 DEF Failed, ClientGone, FailoverTypeOK
      <4>2. a \in Answer \ {"served", "abortError"} /\ (tried' # tried => a # "fatal")
        BY <3>1, FailoverAssumption DEF Failed, ClientGone, AdvanceOrThrow, Eligible
      <4> QED
        BY <4>1, <4>2
    <3>3. CASE q # r
      <4>1. Active(r)
        BY <3>1 DEF Failed, Active
      <4>2. tried'[q] = tried[q] /\ toBench'[q] = toBench[q]
        BY <2>0, <3>1, <3>3 DEF Failed, AdvanceOrThrow, FailoverTypeOK
      <4> QED
        BY <2>1, <4>2
    <3> QED
      BY <3>2, <3>3
  <2>4. CASE \E r \in Request : Bench(r)
    <3>1. PICK r \in Request : Bench(r)
      BY <2>4
    <3>2. CASE q = r
      <4>1. toBench[q] # {} /\ error' = error /\ error[q] \in {"rateLimit", "quota", "fairUse"}
        BY <2>0, <3>1, <3>2 DEF Bench, WalkOf
      <4> QED
        BY <2>1, <4>1 DEF Answer
    <3>3. CASE q # r
      <4>1. tried'[q] = tried[q] /\ toBench'[q] = toBench[q]
        BY <2>0, <3>1, <3>3 DEF Bench, AdvanceOrThrow, FailoverTypeOK
      <4> QED
        BY <2>1, <4>1
    <3> QED
      BY <3>2, <3>3
  <2>5. CASE \E r \in Request : Leave(r)
    <3>1. tried'[q] \subseteq tried[q] /\ toBench'[q] \subseteq toBench[q]
      BY <2>0, <2>5 DEF Leave, FailoverTypeOK
    <3> QED
      BY <2>1, <3>1
  <2>6. CASE tried' = tried /\ toBench' = toBench
    BY <2>1, <2>6
  <2>7. ASSUME NEW r \in Request, ClientAbort(r) \/ Served(r) \/ \E a \in Answers : FailedGone(r, a)
        PROVE  tried' = tried /\ toBench' = toBench
    BY <2>7 DEF ClientAbort, Served, FailedGone
  <2>8. (\E p \in Pair : StoreFire(p)) \/ StoreTick \/ StoreStart \/ ProcessCrash
          => tried' = tried /\ toBench' = toBench
    BY DEF StoreFire, StoreTick, StoreStart, ProcessCrash, requestVars
  <2> QED
    BY <2>2, <2>3, <2>4, <2>5, <2>6, <2>7, <2>8 DEF FailoverNext, RequestNext
<1>2. FailoverInit => AbandonInv
  BY DEF FailoverInit, AbandonInv
<1> QED
  BY <1>1, <1>2, FailoverInitInv, FailoverStepInv, AbandonStep, PTL DEF FailoverSpec, OnlyRetryableRetried

------------------------------------------------------------------------------
(* A 429 benches what it is about before its request goes on.               *)

\* What the catch block has not marked it has still to mark, and no timer fires and
\* no process starts while it runs.
BenchedSoFar ==
    \A r \in Request : pc[r] = "benching" =>
        /\ up
        /\ \A e \in Benches(route[r], at[r], error[r]) :
              e \in toBench[r] \/ entries[LabelAt(route[r], <<at[r][1], e>>)] # None

\* mark() benches its key and lifts no other.
LEMMA MarkBenches ==
    ASSUME TypeOK, NEW p \in Pair, NEW st \in Stamp, Mark(p, st)
    PROVE  /\ entries'[p] # None
           /\ \A q \in Pair : entries[q] # None => entries'[q] # None
<1>1. PICK j \in (-Jitter)..Jitter : Schedule(p, now + Ttl(now, st, j))
  BY DEF Mark
<1> DEFINE until == now + Ttl(now, st, j)
<1>2. until # None
  <2>1. now \in Nat /\ Ttl(now, st, j) \in Nat
    BY StoreAssumption, TtlBounds DEF TypeOK
  <2>2. until \in Int
    BY <2>1
  <2> QED BY <2>2, StoreAssumption
<1>3. entries' = [entries EXCEPT ![p] = until]
  BY <1>1 DEF Schedule
<1> HIDE DEF until
<1> QED BY <1>2, <1>3 DEF TypeOK

\* The labels of a slot are those of its pool.
LEMMA SlotLabels ==
    ASSUME NEW ts \in Seq(Target), NEW s \in Slots(ts), LabelAt(ts, s) # None
    PROVE  /\ s[2] \in 1..Len(PoolAt(ts, s)) /\ PoolAt(ts, s) # <<>>
           /\ LabelAt(ts, s) \in Pair /\ <<s[1], s[2]>> = s
<1>1. s[2] # 0
  BY DEF LabelAt
<1>2. s \in Nat \X Nat /\ s[2] \in 1..Len(PoolAt(ts, s)) /\ PoolAt(ts, s) \in Seq(Key)
        /\ LabelAt(ts, <<s[1], s[2]>>) \in Pair \cup {None}
  BY <1>1, SlotFacts
<1>3. <<s[1], s[2]>> = s
  BY <1>2
<1>4. PoolAt(ts, s) # <<>>
  BY <1>2
<1> QED BY <1>2, <1>3, <1>4

\* A walk that failed benches, while it is handled.
LEMMA WalkBenches ==
    ASSUME FailoverInv, TypeOK, NEW r \in Request, Bench(r)
    PROVE  /\ pc[r] = "benching" /\ up /\ up' /\ UNCHANGED <<route, error, counting>>
           /\ \A q \in Pair : entries[q] # None => entries'[q] # None
           /\ \E e \in toBench[r] :
                 /\ toBench' = [toBench EXCEPT ![r] = @ \ {e}]
                 /\ entries'[LabelAt(route[r], <<at[r][1], e>>)] # None
                 /\ \/ toBench[r] = {e} /\ AdvanceOrThrow(r, error[r], skip[r])
                    \/ toBench[r] # {e} /\ UNCHANGED <<pc, at, tried, result>>
<1>1. PICK e \in toBench[r] :
        /\ Mark(LabelAt(route[r], <<at[r][1], e>>), stamp[r])
        /\ toBench' = [toBench EXCEPT ![r] = @ \ {e}]
        /\ \/ toBench[r] = {e} /\ AdvanceOrThrow(r, error[r], skip[r])
           \/ toBench[r] # {e} /\ UNCHANGED <<pc, at, tried, result>>
  BY DEF Bench
<1>2. pc[r] = "benching" /\ UNCHANGED <<route, error, counting>>
  BY DEF Bench
<1>3. LabelAt(route[r], <<at[r][1], e>>) \in Pair /\ stamp[r] \in Stamp
  BY <1>2 DEF FailoverInv, WalkInv, WalkOf, FailoverTypeOK
<1>4. up /\ up'
  BY <1>1 DEF Mark
<1> QED BY <1>1, <1>2, <1>3, <1>4, MarkBenches

\* Only a failed attempt starts to bench, and only when nobody else does.
LEMMA NewBencher ==
    ASSUME FailoverInv, NEW r \in Request, RequestNext(r), ~Bench(r),
           NEW q \in Request, pc'[q] = "benching"
    PROVE  \/ q = r /\ \E a \in Answers : Failed(r, a)
           \/ Leave(r) /\ q # r
<1>0. FailoverTypeOK
  BY DEF FailoverInv
<1>1. CASE Arrive(r)
  <2>1. pc'[r] \in {"calling", "done"} /\ (q # r => pc'[q] = pc[q]) /\ pc[q] # "benching"
    BY <1>0, <1>1 DEF Arrive, Finish, FailoverTypeOK, LoopFree
  <2> QED BY <2>1
<1>2. CASE ClientAbort(r) \/ Served(r) \/ \E a \in Answers : FailedGone(r, a)
  <2>1. pc'[q] = pc[q] \/ pc'[q] = "done"
    BY <1>0, <1>2 DEF ClientAbort, Served, FailedGone, Finish, FailoverTypeOK
  <2>2. pc[q] # "benching"
    BY <1>2 DEF ClientAbort, Served, FailedGone, LoopFree
  <2> QED BY <2>1, <2>2
<1>3. CASE \E a \in Answers : Failed(r, a)
  <2>1. pc[q] # "benching" /\ (q # r => pc'[q] = pc[q])
    BY <1>0, <1>3 DEF Failed, AdvanceOrThrow, Finish, FailoverTypeOK, LoopFree
  <2> QED BY <1>3, <2>1
<1>4. CASE Leave(r)
  <2>1. q # r
    BY <1>0, <1>4 DEF Leave, FailoverTypeOK
  <2> QED BY <1>4, <2>1
<1> QED BY <1>1, <1>2, <1>3, <1>4 DEF RequestNext

LEMMA BenchedStep ==
    ASSUME FailoverInv, TypeOK, BenchedSoFar, [FailoverNext]_vars
    PROVE  BenchedSoFar'
<1>0. FailoverTypeOK
  BY DEF FailoverInv
<1> SUFFICES ASSUME NEW q \in Request, pc'[q] = "benching"
             PROVE  /\ up'
                    /\ \A e \in Benches(route'[q], at'[q], error'[q]) :
                          \/ e \in toBench'[q]
                          \/ entries'[LabelAt(route'[q], <<at'[q][1], e>>)] # None
  BY DEF BenchedSoFar
\* A request that was benching and stays where it is, in a store that lifts nothing.
<1>1. ASSUME pc[q] = "benching", up', route'[q] = route[q], at'[q] = at[q],
             error'[q] = error[q],
             \A p \in Pair : entries[p] # None => entries'[p] # None,
             \A e \in toBench[q] : \/ e \in toBench'[q]
                                   \/ entries'[LabelAt(route[q], <<at[q][1], e>>)] # None
      PROVE  \A e \in Benches(route'[q], at'[q], error'[q]) :
                \/ e \in toBench'[q]
                \/ entries'[LabelAt(route'[q], <<at'[q][1], e>>)] # None
  <2> SUFFICES ASSUME NEW e \in Benches(route[q], at[q], error[q]), e \notin toBench[q]
               PROVE  entries'[LabelAt(route[q], <<at[q][1], e>>)] # None
    BY <1>1
  <2>1. entries[LabelAt(route[q], <<at[q][1], e>>)] # None
    BY <1>1 DEF BenchedSoFar
  <2>2. LabelAt(route[q], <<at[q][1], e>>) \in Pair
    <3>1. at[q] \in Slots(route[q]) /\ route[q] \in Seq(Target)
      BY <1>0, <1>1 DEF FailoverInv, WalkInv, WalkOf, Active, FailoverTypeOK
    <3> QED BY <3>1, BenchesLabelled
  <2> QED BY <1>1, <2>1, <2>2
<1>2. CASE UNCHANGED vars
  BY <1>2 DEF vars, requestVars, storeVars, BenchedSoFar
<1>3. ASSUME NEW r \in Request, Bench(r)
      PROVE  /\ up'
             /\ \A e \in Benches(route'[q], at'[q], error'[q]) :
                   \/ e \in toBench'[q]
                   \/ entries'[LabelAt(route'[q], <<at'[q][1], e>>)] # None
  <2>1. /\ pc[r] = "benching" /\ up' /\ UNCHANGED <<route, error>>
        /\ \A p \in Pair : entries[p] # None => entries'[p] # None
    BY <1>3, WalkBenches
  <2>2. PICK e \in toBench[r] :
          /\ toBench' = [toBench EXCEPT ![r] = @ \ {e}]
          /\ entries'[LabelAt(route[r], <<at[r][1], e>>)] # None
          /\ \/ toBench[r] = {e} /\ AdvanceOrThrow(r, error[r], skip[r])
             \/ toBench[r] # {e} /\ UNCHANGED <<pc, at, tried, result>>
    BY <1>3, WalkBenches
  <2>3. /\ pc[q] = "benching" /\ at'[q] = at[q]
        /\ \A f \in toBench[q] \ toBench'[q] : q = r /\ f = e
    BY <1>0, <2>1, <2>2 DEF AdvanceOrThrow, Finish, FailoverTypeOK
  <2> QED BY <1>1, <2>1, <2>2, <2>3
<1>4. ASSUME NEW r \in Request, RequestNext(r), ~Bench(r)
      PROVE  /\ up'
             /\ \A e \in Benches(route'[q], at'[q], error'[q]) :
                   \/ e \in toBench'[q]
                   \/ entries'[LabelAt(route'[q], <<at'[q][1], e>>)] # None
  <2>1. CASE q = r /\ \E a \in Answers : Failed(r, a)
    <3>1. PICK a \in Answers : Failed(q, a)
      BY <2>1
    <3>2. /\ up' /\ route'[q] = route[q] /\ error'[q] = a
          /\ toBench'[q] = Benches(route[q], at[q], a)
      BY <1>0, <3>1 DEF Failed, storeVars, FailoverTypeOK
    <3>3. at'[q] = at[q]
      BY <1>0, <3>1 DEF Failed, AdvanceOrThrow, Finish, FailoverTypeOK
    <3> QED BY <3>2, <3>3
  <2>2. CASE Leave(r) /\ q # r
    <3>1. /\ pc[q] = "benching" /\ route'[q] = route[q] /\ at'[q] = at[q]
          /\ error'[q] = error[q] /\ toBench'[q] = toBench[q] /\ entries' = entries /\ up' = up
      BY <1>0, <2>2 DEF Leave, storeVars, FailoverTypeOK
    <3> QED BY <1>1, <3>1 DEF BenchedSoFar
  <2> QED BY <1>4, <2>1, <2>2, NewBencher
<1>5. ~((\E p \in Pair : StoreFire(p)) \/ StoreTick \/ ProcessCrash)
  <2>1. (\E p \in Pair : StoreFire(p)) \/ StoreTick => pc[q] # "benching" /\ pc' = pc
    BY DEF StoreFire, StoreTick, LoopFree, requestVars
  <2>2. ProcessCrash => pc'[q] # "benching"
    BY <1>0 DEF ProcessCrash, FailoverTypeOK
  <2> QED BY <2>1, <2>2
<1>6. ~StoreStart
  BY DEF StoreStart, Start, requestVars, BenchedSoFar
<1> QED BY <1>2, <1>3, <1>4, <1>5, <1>6 DEF FailoverNext

\* The keys a 429 is about are those its handling benches, as far as they have labels.
LEMMA LimitedSlots ==
    ASSUME NEW ts \in Seq(Target), NEW slot \in Slots(ts), NEW s \in Slots(ts), NEW a,
           Key429(a), LabelAt(ts, s) # None,
           \/ s = slot
           \/ a # "rateLimit" /\ ProviderAt(ts, slot) \in AccountScoped /\ s[1] = slot[1]
    PROVE  s[2] \in Benches(ts, slot, a) /\ <<slot[1], s[2]>> = s
<1>1. /\ s[2] \in 1..Len(PoolAt(ts, s)) /\ PoolAt(ts, s) # <<>> /\ <<s[1], s[2]>> = s
  BY SlotLabels
<1>2. s[1] = slot[1] /\ PoolAt(ts, s) = PoolAt(ts, slot)
  BY DEF PoolAt, TargetAt
<1>3. Is429(a) /\ (a # "rateLimit" => AccountLevel(a))
  BY DEF Key429, Is429, AccountLevel
<1>4. s[2] \in Limits(ts, slot, a)
  <2>1. s[2] # 0
    BY DEF LabelAt
  <2>2. CASE BenchesAccount(ts, slot, a)
    BY <1>1, <1>2, <2>2 DEF Limits
  <2>3. CASE ~BenchesAccount(ts, slot, a)
    <3>1. s = slot
      BY <1>1, <1>2, <1>3, <2>3 DEF BenchesAccount
    <3> QED BY <1>3, <2>1, <2>3, <3>1 DEF Limits
  <2> QED BY <2>2, <2>3
<1> QED BY <1>1, <1>2, <1>4 DEF Benches

\* RateLimitedKeyBenched: when a request goes on from a 429 or ends with it, the key
\* it used is benched, and every key of the pool when the account is blocked; whatever
\* other requests, timers and crashes come between the marks.
THEOREM FailoverBenchesLimited == FailoverSpec => RateLimitedKeyBenched
<1> DEFINE Benched(r) ==
        AttemptEnds(r) /\ Key429(error'[r]) =>
            LET whole == /\ error'[r] # "rateLimit"
                         /\ ProviderAt(route[r], at[r]) \in AccountScoped
            IN \A s \in Slots(route[r]) :
                /\ s = at[r] \/ (whole /\ s[1] = at[r][1])
                /\ LabelAt(route[r], s) # None
                => entries'[LabelAt(route[r], s)] # None
<1>1. ASSUME FailoverInv, TypeOK, BenchedSoFar, [FailoverNext]_vars, NEW r \in Request
      PROVE  Benched(r)
  <2> SUFFICES ASSUME AttemptEnds(r), Key429(error'[r]), NEW s \in Slots(route[r]),
                      \/ s = at[r]
                      \/ /\ error'[r] # "rateLimit"
                         /\ ProviderAt(route[r], at[r]) \in AccountScoped
                         /\ s[1] = at[r][1],
                      LabelAt(route[r], s) # None
               PROVE  entries'[LabelAt(route[r], s)] # None
    OBVIOUS
  <2>1. FailoverTypeOK /\ WalkOf(r) /\ Active(r)
    BY <1>1 DEF FailoverInv, WalkInv, AttemptEnds, Active
  <2>2. at[r] \in Slots(route[r]) /\ route[r] \in Seq(Target)
    BY <2>1 DEF WalkOf, FailoverTypeOK
  <2>3. s[2] \in Benches(route[r], at[r], error'[r]) /\ <<at[r][1], s[2]>> = s
    BY <2>2, LimitedSlots
  <2>4. ASSUME NEW a \in Answers, Failed(r, a) PROVE FALSE
    <3>1. error'[r] = a
      BY <2>1, <2>4 DEF Failed, FailoverTypeOK
    <3>2. Benches(route[r], at[r], a) # {} => pc'[r] = "benching"
      BY <2>1, <2>4 DEF Failed, FailoverTypeOK
    <3> QED BY <2>3, <3>1, <3>2 DEF AttemptEnds
  <2>5. CASE Bench(r)
    <3>1. pc[r] = "benching" /\ error' = error
            /\ \A q \in Pair : entries[q] # None => entries'[q] # None
      BY <1>1, <2>5, WalkBenches
    <3>2. PICK e \in toBench[r] :
            /\ entries'[LabelAt(route[r], <<at[r][1], e>>)] # None
            /\ \/ toBench[r] = {e} /\ AdvanceOrThrow(r, error[r], skip[r])
               \/ toBench[r] # {e} /\ UNCHANGED <<pc, at, tried, result>>
      BY <1>1, <2>5, WalkBenches
    <3>3. toBench[r] = {e}
      BY <3>1, <3>2 DEF AttemptEnds
    <3>4. s[2] = e \/ entries[LabelAt(route[r], s)] # None
      BY <1>1, <2>3, <3>1, <3>3 DEF BenchedSoFar
    <3>5. LabelAt(route[r], s) \in Pair
      BY <2>2, SlotLabels
    <3> QED BY <2>3, <3>1, <3>2, <3>4, <3>5
  <2>6. CASE pc'[r] = pc[r] /\ at'[r] = at[r]
    BY <2>6 DEF AttemptEnds
  <2>7. ASSUME NEW q \in Request, RequestNext(q), q # r
        PROVE  pc'[r] = pc[r] /\ at'[r] = at[r]
    BY <2>1, <2>7 DEF RequestNext, Arrive, ClientAbort, Served, FailedGone, Failed, Bench, Leave,
                      AdvanceOrThrow, Finish, FailoverTypeOK
  <2>8. ASSUME RequestNext(r), ~Bench(r), ~\E a \in Answers : Failed(r, a)
        PROVE  pc'[r] = pc[r] /\ at'[r] = at[r]
    <3>1. ~Arrive(r) /\ ~Leave(r)
      BY DEF AttemptEnds, Arrive, Leave
    <3>2. ~Served(r) /\ ~\E a \in Answers : FailedGone(r, a)
      BY <2>1 DEF AttemptEnds, Served, FailedGone, Finish, FailoverTypeOK
    <3> QED BY <2>8, <3>1, <3>2 DEF RequestNext, ClientAbort
  <2>9. CASE (\E p \in Pair : StoreFire(p)) \/ StoreTick \/ StoreStart \/ UNCHANGED vars
    BY <2>6, <2>9 DEF StoreFire, StoreTick, StoreStart, vars, requestVars
  <2>10. ~ProcessCrash
    BY <2>1 DEF ProcessCrash, AttemptEnds, FailoverTypeOK
  <2> QED BY <1>1, <2>4, <2>5, <2>6, <2>7, <2>8, <2>9, <2>10 DEF FailoverNext
<1>2. FailoverInit => BenchedSoFar
  BY DEF FailoverInit, BenchedSoFar
<1>3. FailoverInv /\ TypeOK /\ BenchedSoFar /\ [FailoverNext]_vars => \A r \in Request : Benched(r)
  BY <1>1
<1>4. FailoverInv /\ TypeOK /\ BenchedSoFar /\ [FailoverNext]_vars => BenchedSoFar'
  BY BenchedStep
<1>5. FailoverSpec => []TypeOK
  BY FailoverImplementsStore, StoreTypeCorrect, PTL
<1> QED BY <1>2, <1>3, <1>4, <1>5, FailoverInitInv, FailoverStepInv, PTL
        DEF FailoverSpec, RateLimitedKeyBenched

------------------------------------------------------------------------------
(* Whoever is skipped was limited.                                          *)

\* Some 429 was about a key with this label.
LimitedLabel(p) == \E k \in limited : LabelOf[k] = p

\* What is benched in memory or in the file, or about to be, carries the label of
\* a key that a 429 was about.
BenchLog ==
    /\ \A p \in Pair : entries[p] # None => LimitedLabel(p)
    /\ \A p \in Pair : disk.cooldowns[p] # None => LimitedLabel(p)
    /\ \A r \in Request : pc[r] = "benching" =>
         \A e \in toBench[r] : LimitedLabel(LabelAt(route[r], <<at[r][1], e>>))

\* What a 429 is about enters limited before it is benched.
LEMMA BenchesAreLimited ==
    ASSUME NEW ts \in Seq(Target), NEW slot \in Slots(ts), NEW a, NEW e \in Benches(ts, slot, a)
    PROVE  /\ e \in Limits(ts, slot, a)
           /\ LabelAt(ts, <<slot[1], e>>) = LabelOf[PoolAt(ts, slot)[e]]
<1>1. e \in Limits(ts, slot, a) /\ LabelAt(ts, <<slot[1], e>>) # None
  BY DEF Benches
<1>2. e # 0
  BY <1>1 DEF LabelAt
<1> QED BY <1>1, <1>2 DEF LabelAt, PoolAt, TargetAt

LEMMA BenchLogStep ==
    ASSUME FailoverInv, TypeOK, BenchLog, [FailoverNext]_vars
    PROVE  BenchLog'
<1>0. FailoverTypeOK
  BY DEF FailoverInv
<1>1. limited \subseteq limited'
  BY DEF FailoverNext, RequestNext, Arrive, ClientAbort, Served, FailedGone, Failed, Bench, Leave,
         StoreFire, StoreTick, StoreStart, ProcessCrash, vars, requestVars
<1>2. \A p : LimitedLabel(p) => LimitedLabel(p)'
  BY <1>1 DEF LimitedLabel
<1>3. ASSUME NEW p \in Pair, ~LimitedLabel(p)
      PROVE  entries'[p] = None /\ disk'.cooldowns[p] = None
  <2>1. entries[p] = None /\ disk.cooldowns[p] = None
    BY <1>3 DEF BenchLog
  <2>2. ASSUME NEW r \in Request, Bench(r)
        PROVE  entries'[p] = None /\ disk'.cooldowns[p] = None
    <3>1. PICK e \in toBench[r] : Mark(LabelAt(route[r], <<at[r][1], e>>), stamp[r])
      BY <2>2 DEF Bench
    <3>2. pc[r] = "benching"
      BY <2>2 DEF Bench
    <3>3. LimitedLabel(LabelAt(route[r], <<at[r][1], e>>))
      BY <3>1, <3>2 DEF BenchLog
    <3>4. LabelAt(route[r], <<at[r][1], e>>) \in Pair /\ stamp[r] \in Stamp
      BY <3>2 DEF FailoverInv, WalkInv, WalkOf, FailoverTypeOK
    <3>5. PICK until : entries' = [entries EXCEPT ![LabelAt(route[r], <<at[r][1], e>>)] = until]
      BY <3>1 DEF Mark, Schedule
    <3>6. entries'[p] = None
      BY <1>3, <2>1, <3>3, <3>4, <3>5 DEF TypeOK
    <3>7. disk' = disk \/ disk' = [cooldowns |-> Live(entries', now), quotaMarks |-> quotaMarks']
      BY <3>1 DEF Mark, Persist
    <3> QED BY <2>1, <3>6, <3>7 DEF Live
  <2>3. ASSUME NEW q \in Pair, StoreFire(q)
        PROVE  entries'[p] = None /\ disk'.cooldowns[p] = None
    BY <2>1, <2>3 DEF StoreFire, Fire, TypeOK
  <2>4. CASE StoreStart
    BY <2>1, <2>4 DEF StoreStart, Start, LoadFromDisk, Live, NoEntries
  <2>5. CASE ProcessCrash
    BY <2>1, <2>5 DEF ProcessCrash, Crash, NoEntries
  <2>6. CASE entries' = entries /\ disk' = disk
    BY <2>1, <2>6
  <2>7. StoreTick \/ UNCHANGED vars => entries' = entries /\ disk' = disk
    BY DEF StoreTick, Tick, vars, storeVars
  <2>8. ASSUME NEW r \in Request, RequestNext(r), ~Bench(r)
        PROVE  entries' = entries /\ disk' = disk
    BY <2>8 DEF RequestNext, Arrive, ClientAbort, Served, FailedGone, Failed, Leave, storeVars
  <2> QED BY <2>2, <2>3, <2>4, <2>5, <2>6, <2>7, <2>8 DEF FailoverNext
<1>4. ASSUME NEW q \in Request, pc'[q] = "benching", NEW e \in toBench'[q]
      PROVE  \E k \in limited' : LabelOf[k] = LabelAt(route'[q], <<at'[q][1], e>>)
  <2>1. CASE /\ pc[q] = "benching" /\ route'[q] = route[q] /\ at'[q] = at[q]
             /\ toBench'[q] \subseteq toBench[q]
    <3>1. LimitedLabel(LabelAt(route[q], <<at[q][1], e>>))
      BY <1>4, <2>1 DEF BenchLog
    <3>2. LabelAt(route'[q], <<at'[q][1], e>>) = LabelAt(route[q], <<at[q][1], e>>)
      BY <2>1
    <3> QED BY <1>1, <3>1, <3>2 DEF LimitedLabel
  <2>2. ASSUME NEW r \in Request, Bench(r)
        PROVE  /\ pc[q] = "benching" /\ route'[q] = route[q] /\ at'[q] = at[q]
               /\ toBench'[q] \subseteq toBench[q]
    <3>1. pc[r] = "benching" /\ UNCHANGED route
      BY <2>2, WalkBenches
    <3>2. PICK f \in toBench[r] :
            /\ toBench' = [toBench EXCEPT ![r] = @ \ {f}]
            /\ \/ toBench[r] = {f} /\ AdvanceOrThrow(r, error[r], skip[r])
               \/ toBench[r] # {f} /\ UNCHANGED <<pc, at, tried, result>>
      BY <2>2, WalkBenches
    <3> QED BY <1>0, <1>4, <3>1, <3>2 DEF AdvanceOrThrow, Finish, FailoverTypeOK
  <2>3. ASSUME NEW r \in Request, RequestNext(r), ~Bench(r)
        PROVE  \E k \in limited' : LabelOf[k] = LabelAt(route'[q], <<at'[q][1], e>>)
    <3>1. CASE q = r /\ \E a \in Answers : Failed(r, a)
      <4>1. PICK a \in Answers : Failed(q, a)
        BY <3>1
      <4>2. /\ route'[q] = route[q] /\ toBench'[q] = Benches(route[q], at[q], a)
            /\ limited' = limited \cup
                 {PoolAt(route[q], at[q])[i] : i \in Limits(route[q], at[q], a)}
            /\ pc[q] = "calling"
        BY <1>0, <4>1 DEF Failed, FailoverTypeOK
      <4>3. at'[q] = at[q]
        BY <1>0, <1>4, <4>1 DEF Failed, AdvanceOrThrow, Finish, FailoverTypeOK
      <4>4. at[q] \in Slots(route[q]) /\ route[q] \in Seq(Target)
        BY <1>0, <4>2 DEF FailoverInv, WalkInv, WalkOf, Active, FailoverTypeOK
      <4>5. /\ e \in Limits(route[q], at[q], a)
            /\ LabelAt(route[q], <<at[q][1], e>>) = LabelOf[PoolAt(route[q], at[q])[e]]
        BY <1>4, <4>2, <4>4, BenchesAreLimited
      <4>6. PoolAt(route[q], at[q])[e] \in limited'
        BY <4>2, <4>5
      <4>7. LabelAt(route'[q], <<at'[q][1], e>>) = LabelOf[PoolAt(route[q], at[q])[e]]
        BY <4>2, <4>3, <4>5
      <4> QED BY <4>6, <4>7
    <3>2. CASE Leave(r) /\ q # r
      BY <1>0, <1>4, <2>1, <3>2 DEF Leave, FailoverTypeOK
    <3> QED BY <1>4, <2>3, <3>1, <3>2, NewBencher
  <2>4. (\E p \in Pair : StoreFire(p)) \/ StoreTick \/ StoreStart \/ UNCHANGED vars
          => /\ pc[q] = "benching" /\ route'[q] = route[q] /\ at'[q] = at[q]
             /\ toBench'[q] \subseteq toBench[q]
    BY <1>4 DEF StoreFire, StoreTick, StoreStart, vars, requestVars
  <2>5. ~ProcessCrash
    BY <1>0, <1>4 DEF ProcessCrash, FailoverTypeOK
  <2> QED BY <2>1, <2>2, <2>3, <2>4, <2>5 DEF FailoverNext
<1>5. \A p \in Pair : (entries'[p] # None \/ disk'.cooldowns[p] # None) => LimitedLabel(p)'
  BY <1>2, <1>3
<1> QED BY <1>4, <1>5 DEF BenchLog, LimitedLabel, LabelAt, PoolAt, TargetAt

\* OnlyLimitedLabelsSkipped: a new request leaves out only keys whose label some 429
\* was about, over restarts from the file, expiries, benches of a whole account and
\* labels that several keys share.
THEOREM FailoverSkipsLimited == FailoverSpec => OnlyLimitedLabelsSkipped
<1> DEFINE Skips(r) ==
        pc[r] = "idle" /\ pc'[r] # "idle" =>
            \A s \in Slots(route'[r]) :
                LabelAt(route'[r], s) # None /\ entries[LabelAt(route'[r], s)] # None =>
                    \E k \in limited : LabelOf[k] = LabelAt(route'[r], s)
<1>1. ASSUME FailoverInv, TypeOK, BenchLog, [FailoverNext]_vars, NEW r \in Request
      PROVE  Skips(r)
  <2> SUFFICES ASSUME NEW s \in Slots(route'[r]), LabelAt(route'[r], s) # None,
                      entries[LabelAt(route'[r], s)] # None
               PROVE  LimitedLabel(LabelAt(route'[r], s))
    BY DEF LimitedLabel
  <2>1. route'[r] \in Seq(Target)
    BY <1>1, FailoverStepInv DEF FailoverInv, FailoverTypeOK
  <2>2. LabelAt(route'[r], s) \in Pair
    BY <2>1, SlotLabels
  <2> QED BY <1>1, <2>2 DEF BenchLog
<1>2. FailoverInit => BenchLog
  BY DEF FailoverInit, StoreInit, EmptyDoc, NoEntries, BenchLog
<1>3. FailoverInv /\ TypeOK /\ BenchLog /\ [FailoverNext]_vars => \A r \in Request : Skips(r)
  BY <1>1
<1>4. FailoverInv /\ TypeOK /\ BenchLog /\ [FailoverNext]_vars => BenchLog'
  BY BenchLogStep
<1>5. FailoverSpec => []TypeOK
  BY FailoverImplementsStore, StoreTypeCorrect, PTL
<1> QED BY <1>2, <1>3, <1>4, <1>5, FailoverInitInv, FailoverStepInv, PTL
        DEF FailoverSpec, OnlyLimitedLabelsSkipped

------------------------------------------------------------------------------
(* What an empty plan is answered with.                                     *)

\* A set of naturals has a least member.
LEMMA LeastMember ==
    ASSUME NEW S \in SUBSET Nat, S # {}
    PROVE  \E n \in S : \A m \in S : n <= m
<1>1. PICK n \in S : \A m \in S : ~(<<m, n>> \in OpToRel(<, Nat))
  BY WFMin, NatLessThanWellFounded
<1>2. \A m \in S : ~(m < n)
  BY <1>1 DEF OpToRel
<1> QED BY <1>2

\* A plan that is not empty has a first attempt.
LEMMA FirstSlot ==
    ASSUME NEW S \in SUBSET (Nat \X Nat), S # {}
    PROVE  \E s \in S : \A u \in S : ~Before(u, s)
<1> DEFINE firsts == {s[1] : s \in S}
<1>1. PICK c \in firsts : \A d \in firsts : c <= d
  <2>1. firsts \in SUBSET Nat /\ firsts # {}
    OBVIOUS
  <2> HIDE DEF firsts
  <2> QED BY <2>1, LeastMember
<1> DEFINE seconds == {s[2] : s \in {u \in S : u[1] = c}}
<1>2. PICK e \in seconds : \A f \in seconds : e <= f
  <2>1. seconds \in SUBSET Nat /\ seconds # {}
    BY <1>1
  <2> HIDE DEF seconds
  <2> QED BY <2>1, LeastMember
<1>3. PICK s \in S : s[1] = c /\ s[2] = e
  BY <1>2
<1>4. ASSUME NEW u \in S, Before(u, s) PROVE FALSE
  <2>1. c <= u[1] /\ c \in Nat /\ u[1] \in Nat /\ u[2] \in Nat /\ e \in Nat
    BY <1>1, <1>2
  <2>2. u[1] = c /\ u[2] < e
    BY <1>3, <1>4, <2>1 DEF Before
  <2>3. e <= u[2]
    BY <1>2, <2>2
  <2> QED BY <2>1, <2>2, <2>3
<1> QED BY <1>4

\* Without an attempt every slot is benched: the cap never cuts the first one.
LEMMA NothingUsable ==
    ASSUME NEW ts \in Seq(Target), BuildAttempts(ts) = {}
    PROVE  \A s \in Slots(ts) : ~Usable(ts, s)
<1> DEFINE usable == {s \in Slots(ts) : Usable(ts, s)}
<1> SUFFICES ASSUME usable # {} PROVE FALSE
  OBVIOUS
<1>1. usable \subseteq Nat \X Nat
  BY SlotFacts
<1>2. PICK s \in usable : \A u \in usable : ~Before(u, s)
  BY <1>1, FirstSlot
<1>3. {u \in usable : Before(u, s)} = {}
  BY <1>2
<1>4. Cardinality({u \in usable : Before(u, s)}) < MaxAttempts
  <2>1. Cardinality({}) < MaxAttempts
    BY FS_EmptySet, FailoverAssumption
  <2> QED BY <1>3, <2>1
<1> QED BY <1>4 DEF BuildAttempts

\* A slot that is not usable has a benched label of its own provider.
LEMMA UnusableSlot ==
    ASSUME NEW ts \in Seq(Target), NEW s \in Slots(ts), ~Usable(ts, s)
    PROVE  /\ LabelAt(ts, s) \in Pair
           /\ entries[LabelAt(ts, s)] # None
           /\ PairProvider[LabelAt(ts, s)] = ProviderAt(ts, s)
           /\ PoolAt(ts, s) # <<>>
<1>1. LabelAt(ts, s) # None /\ entries[LabelAt(ts, s)] # None
  BY DEF Usable, IsDegraded
<1>2. s[2] \in 1..Len(PoolAt(ts, s)) /\ PoolAt(ts, s) # <<>> /\ LabelAt(ts, s) \in Pair
  BY <1>1, SlotLabels
<1>3. LabelAt(ts, s) = LabelOf[PoolAt(ts, s)[s[2]]]
  BY <1>1 DEF LabelAt
<1>4. TargetAt(ts, s) \in Target
  BY SlotFacts
<1> QED BY <1>1, <1>2, <1>3, <1>4, LabelAssumption DEF PoolAt, ProviderAt

\* An empty plan of a request that is routed somewhere is due to cooldowns.
LEMMA EmptyPlanCooled ==
    ASSUME NEW ts \in Seq(Target), BuildAttempts(ts) = {}, ts # <<>>
    PROVE  CooledProviders(ts) # {}
<1>1. 1 \in 1..Len(ts)
  OBVIOUS
<1>2. ts[1] \in Target /\ PoolOf[ts[1]] \in Seq(Key)
  BY <1>1, FailoverAssumption
<1>3. PICK s : s \in IF PoolOf[ts[1]] = <<>> THEN {<<1, 0>>}
                     ELSE {1} \X (1..Len(PoolOf[ts[1]]))
  <2>1. CASE PoolOf[ts[1]] = <<>>
    BY <2>1
  <2>2. CASE PoolOf[ts[1]] # <<>>
    <3>1. <<1, 1>> \in {1} \X (1..Len(PoolOf[ts[1]]))
      BY <1>2, <2>2
    <3> QED BY <2>2, <3>1
  <2> QED BY <2>1, <2>2
<1>4. s \in Slots(ts)
  BY <1>1, <1>3 DEF Slots
<1> QED BY <1>4, NothingUsable DEF CooledProviders

\* The time to wait is known, and is that of the first benched key of the cooled
\* providers to be due.
LEMMA CooledWait ==
    ASSUME TypeOK, NEW ts \in Seq(Target), CooledProviders(ts) # {}, NEW w,
           EarliestReinstatement(PairsOf(CooledProviders(ts)), w)
    PROVE  /\ w \in Nat
           /\ \E p \in PairsOf(CooledProviders(ts)) : IsDegraded(p) /\ entries[p] <= now + w
           /\ w # 0 => \A p \in PairsOf(CooledProviders(ts)) :
                          IsDegraded(p) => now + w <= entries[p]
<1> DEFINE S == PairsOf(CooledProviders(ts))
           benched == {p \in S : IsDegraded(p)}
<1>1. PICK u \in Slots(ts) : \A v \in Slots(ts) : v[1] = u[1] => ~Usable(ts, v)
  BY DEF CooledProviders
<1>2. ProviderAt(ts, u) \in CooledProviders(ts) /\ ~Usable(ts, u)
  BY <1>1 DEF CooledProviders
<1>3. LabelAt(ts, u) \in benched
  BY <1>2, UnusableSlot DEF PairsOf, IsDegraded
<1>4. PICK p \in benched : /\ \A q \in benched : entries[p] <= entries[q]
                           /\ w = IF entries[p] > now THEN entries[p] - now ELSE 0
  BY <1>3 DEF EarliestReinstatement
<1>5. entries[p] \in Nat /\ now \in Nat
  BY <1>4, StoreAssumption DEF PairsOf, IsDegraded, TypeOK
<1>6. w # 0 => now + w = entries[p]
  BY <1>4, <1>5
<1> QED BY <1>4, <1>5, <1>6

\* What an empty plan answers.
LEMMA EmptyPlanAnswer ==
    ASSUME NEW ts \in Seq(Target), NEW count \in BOOLEAN, Plan(ts, count) = {}
    PROVE  /\ EmptyPlanResult(ts, count) # "disabled"
           /\ EmptyPlanResult(ts, count) = "noRoute" => ts = <<>>
           /\ EmptyPlanResult(ts, count) = "coolingDown" => CooledProviders(ts) # {}
<1>1. ~count => BuildAttempts(ts) = {}
  BY DEF Plan
<1>2. CASE count
  BY <1>2 DEF EmptyPlanResult
<1>3. CASE ~count /\ ts # <<>>
  <2>1. CooledProviders(ts) # {}
    BY <1>1, <1>3, EmptyPlanCooled
  <2> QED BY <1>3, <2>1 DEF EmptyPlanResult
<1>4. CASE ~count /\ ts = <<>> /\ CooledProviders(ts) = {}
  BY <1>4 DEF EmptyPlanResult
<1>5. CASE ~count /\ ts = <<>> /\ CooledProviders(ts) # {}
  BY <1>5 DEF EmptyPlanResult
<1> QED BY <1>2, <1>3, <1>4, <1>5

LEMMA ToldStep ==
    ASSUME FailoverInv, TypeOK, EmptyPlanIsARateLimit, [FailoverNext]_vars
    PROVE  EmptyPlanIsARateLimit'
<1>0. FailoverTypeOK
  BY DEF FailoverInv
<1> SUFFICES ASSUME NEW q \in Request
             PROVE  /\ result'[q] # "disabled"
                    /\ result'[q] = "noRoute" => route'[q] = <<>>
                    /\ result'[q] = "coolingDown" => retryAfter'[q] # None
  BY DEF EmptyPlanIsARateLimit
<1>1. CASE /\ \/ result'[q] = result[q]
              \/ result'[q] \in {"none", "served", "error", "fellThrough", "aborted"}
           /\ \/ route'[q] = route[q] /\ retryAfter'[q] = retryAfter[q]
              \/ result'[q] = "none"
  BY <1>1 DEF EmptyPlanIsARateLimit
<1>2. ASSUME NEW r \in Request, Arrive(r)
      PROVE  /\ result'[q] # "disabled"
             /\ result'[q] = "noRoute" => route'[q] = <<>>
             /\ result'[q] = "coolingDown" => retryAfter'[q] # None
  <2>1. pc[r] = "idle" /\ result[r] = "none"
    BY <1>2 DEF Arrive, FailoverInv, WalkInv, WalkOf
  <2>2. CASE q # r
    <3>1. result'[q] = result[q] /\ route'[q] = route[q] /\ retryAfter'[q] = retryAfter[q]
      BY <1>0, <1>2, <2>2 DEF Arrive, Finish, FailoverTypeOK
    <3> QED BY <1>1, <3>1
  <2>3. CASE q = r
    <3>1. PICK ask \in Asks :
            /\ route' = [route EXCEPT ![q] = ask.targets]
            /\ \/ UNCHANGED result
               \/ /\ Plan(ask.targets, ask.count) = {}
                  /\ Finish(q, EmptyPlanResult(ask.targets, ask.count))
                  /\ \E wait \in (0..MaxCooldown) \cup {None} :
                        /\ EmptyPlanResult(ask.targets, ask.count) = "coolingDown" =>
                             EarliestReinstatement(PairsOf(CooledProviders(ask.targets)), wait)
                        /\ retryAfter' = [retryAfter EXCEPT ![q] = wait]
      BY <1>2, <2>3 DEF Arrive
    <3>2. ask.targets \in Seq(Target) /\ ask.count \in BOOLEAN
      BY FailoverAssumption
    <3>3. CASE UNCHANGED result
      BY <2>1, <2>3, <3>3
    <3>4. CASE ~UNCHANGED result
      <4> DEFINE ended == EmptyPlanResult(ask.targets, ask.count)
      <4>1. /\ ended # "disabled"
            /\ ended = "noRoute" => ask.targets = <<>>
            /\ ended = "coolingDown" => CooledProviders(ask.targets) # {}
        BY <3>1, <3>2, <3>4, EmptyPlanAnswer
      <4>2. PICK wait :
              /\ ended = "coolingDown" =>
                   EarliestReinstatement(PairsOf(CooledProviders(ask.targets)), wait)
              /\ retryAfter' = [retryAfter EXCEPT ![q] = wait]
        BY <3>1, <3>4
      <4>3. ended = "coolingDown" => wait # None
        BY <3>2, <4>1, <4>2, CooledWait, StoreAssumption
      <4>4. result'[q] = ended /\ retryAfter'[q] = wait /\ route'[q] = ask.targets
        BY <1>0, <3>1, <3>4, <4>2 DEF Finish, FailoverTypeOK
      <4> QED BY <4>1, <4>3, <4>4
    <3> QED BY <3>3, <3>4
  <2> QED BY <2>2, <2>3
<1>3. ASSUME NEW r \in Request, RequestNext(r), ~Arrive(r), ~Leave(r)
      PROVE  /\ \/ result'[q] = result[q]
                \/ result'[q] \in {"none", "served", "error", "fellThrough", "aborted"}
             /\ route'[q] = route[q] /\ retryAfter'[q] = retryAfter[q]
  <2>1. route' = route /\ retryAfter' = retryAfter
    BY <1>3 DEF RequestNext, ClientAbort, Served, FailedGone, Failed, Bench
  <2>2. ASSUME NEW a, NEW sk, AdvanceOrThrow(r, a, sk)
        PROVE  result'[q] = result[q] \/ result'[q] \in {"error", "fellThrough"}
    BY <1>0, <2>2 DEF AdvanceOrThrow, Finish, FailoverTypeOK
  <2>3. CASE ClientAbort(r) \/ Served(r) \/ \E a \in Answers : FailedGone(r, a)
    BY <1>0, <2>1, <2>3 DEF ClientAbort, Served, FailedGone, Finish, FailoverTypeOK
  <2>4. CASE \E a \in Answers : Failed(r, a)
    <3>1. UNCHANGED result \/ \E a, sk : AdvanceOrThrow(r, a, sk)
      BY <2>4 DEF Failed
    <3> QED BY <2>1, <2>2, <3>1
  <2>5. CASE Bench(r)
    <3>1. UNCHANGED result \/ \E a, sk : AdvanceOrThrow(r, a, sk)
      BY <2>5 DEF Bench
    <3> QED BY <2>1, <2>2, <3>1
  <2> QED BY <1>3, <2>3, <2>4, <2>5 DEF RequestNext
<1>4. ASSUME NEW r \in Request, Leave(r)
      PROVE  /\ \/ result'[q] = result[q]
                \/ result'[q] = "none"
             /\ \/ route'[q] = route[q] /\ retryAfter'[q] = retryAfter[q]
                \/ result'[q] = "none"
  BY <1>0, <1>4 DEF Leave, FailoverTypeOK
<1>5. (\E p \in Pair : StoreFire(p)) \/ StoreTick \/ StoreStart \/ ProcessCrash
        \/ UNCHANGED vars => UNCHANGED <<result, route, retryAfter>>
  BY DEF StoreFire, StoreTick, StoreStart, ProcessCrash, vars, requestVars
<1> QED BY <1>1, <1>2, <1>3, <1>4, <1>5 DEF FailoverNext

\* CooldownsTold, first half: an empty plan is answered as a missing provider only
\* when the request is routed nowhere, and a cooldown answer says how long to wait.
THEOREM FailoverTellsCooldowns == FailoverSpec => []EmptyPlanIsARateLimit
<1>1. FailoverInit => EmptyPlanIsARateLimit
  BY DEF FailoverInit, EmptyPlanIsARateLimit
<1>2. FailoverInv /\ TypeOK /\ EmptyPlanIsARateLimit /\ [FailoverNext]_vars
        => EmptyPlanIsARateLimit'
  BY ToldStep
<1>3. FailoverSpec => []TypeOK
  BY FailoverImplementsStore, StoreTypeCorrect, PTL
<1> QED BY <1>1, <1>2, <1>3, FailoverInitInv, FailoverStepInv, PTL DEF FailoverSpec

\* CooldownsTold: and the time is that of the first bench to end among the providers
\* of the request, those of keys it cannot use included; it never outlasts the first
\* bench of the request's own keys.
THEOREM FailoverTellsHowLong == FailoverSpec => CooldownsTold
<1> DEFINE Waits(r) ==
        pc[r] = "idle" /\ result'[r] = "coolingDown" =>
            LET slots == Slots(route'[r])
                benched == {p \in Pair :
                              /\ IsDegraded(p)
                              /\ \E s \in slots : PairProvider[p] = ProviderAt(route'[r], s)}
                back == now + retryAfter'[r]
            IN /\ \E p \in benched : entries[p] <= back
               /\ retryAfter'[r] # 0 =>
                    \A s \in slots : back <= entries[LabelAt(route'[r], s)]
<1>1. ASSUME FailoverInv, TypeOK, [FailoverNext]_vars, NEW r \in Request
      PROVE  Waits(r)
  <2> SUFFICES ASSUME pc[r] = "idle", result'[r] = "coolingDown"
               PROVE  Waits(r)
    OBVIOUS
  <2>0. FailoverTypeOK /\ result[r] = "none"
    BY <1>1 DEF FailoverInv, WalkInv, WalkOf
  <2>1. Arrive(r)
    <3>1. ASSUME NEW q \in Request, RequestNext(q), ~Arrive(r)
          PROVE  result'[r] = result[r]
      BY <2>0, <3>1 DEF RequestNext, Arrive, ClientAbort, Served, FailedGone, Failed, Bench,
                        Leave, AdvanceOrThrow, Finish, FailoverTypeOK
    <3>2. (\E p \in Pair : StoreFire(p)) \/ StoreTick \/ StoreStart \/ ProcessCrash
            \/ UNCHANGED vars => result' = result
      BY DEF StoreFire, StoreTick, StoreStart, ProcessCrash, vars, requestVars
    <3> QED BY <1>1, <2>0, <3>1, <3>2 DEF FailoverNext
  <2>2. PICK ask \in Asks :
          /\ route' = [route EXCEPT ![r] = ask.targets]
          /\ \/ UNCHANGED result
             \/ /\ Plan(ask.targets, ask.count) = {}
                /\ Finish(r, EmptyPlanResult(ask.targets, ask.count))
                /\ \E wait \in (0..MaxCooldown) \cup {None} :
                      /\ EmptyPlanResult(ask.targets, ask.count) = "coolingDown" =>
                           EarliestReinstatement(PairsOf(CooledProviders(ask.targets)), wait)
                      /\ retryAfter' = [retryAfter EXCEPT ![r] = wait]
    BY <2>1 DEF Arrive
  <2> DEFINE ts == ask.targets
  <2>3. ts \in Seq(Target) /\ ask.count \in BOOLEAN /\ route'[r] = ts
    BY <2>0, <2>2, FailoverAssumption DEF FailoverTypeOK
  <2>4. PICK wait :
          /\ EmptyPlanResult(ts, ask.count) = "coolingDown" =>
               EarliestReinstatement(PairsOf(CooledProviders(ts)), wait)
          /\ retryAfter' = [retryAfter EXCEPT ![r] = wait]
    BY <2>0, <2>2
  <2>5. EmptyPlanResult(ts, ask.count) = "coolingDown" /\ Plan(ts, ask.count) = {}
          /\ retryAfter'[r] = wait
    BY <2>0, <2>2, <2>4 DEF Finish, FailoverTypeOK
  <2>6. CooledProviders(ts) # {}
    BY <2>3, <2>5, EmptyPlanAnswer
  <2>7. PICK p \in PairsOf(CooledProviders(ts)) : IsDegraded(p) /\ entries[p] <= now + wait
    BY <1>1, <2>3, <2>4, <2>5, <2>6, CooledWait
  <2>8. PICK u \in Slots(ts) : ProviderAt(ts, u) = PairProvider[p]
    BY <2>7 DEF PairsOf, CooledProviders
  <2>9. ASSUME NEW s \in Slots(ts), wait # 0
        PROVE  now + wait <= entries[LabelAt(ts, s)]
    <3>1. \A v \in Slots(ts) : ~Usable(ts, v)
      <4>1. BuildAttempts(ts) = {}
        BY <2>5 DEF Plan, EmptyPlanResult
      <4> QED BY <2>3, <4>1, NothingUsable
    <3>2. ProviderAt(ts, s) \in CooledProviders(ts)
      BY <3>1 DEF CooledProviders
    <3>3. LabelAt(ts, s) \in PairsOf(CooledProviders(ts)) /\ IsDegraded(LabelAt(ts, s))
      BY <2>3, <3>1, <3>2, UnusableSlot DEF PairsOf, IsDegraded
    <3> QED BY <1>1, <2>3, <2>4, <2>5, <2>6, <2>9, <3>3, CooledWait
  <2>10. p \in Pair
    BY <2>7 DEF PairsOf
  <2> QED BY <2>3, <2>5, <2>7, <2>8, <2>9, <2>10
<1>2. FailoverInv /\ TypeOK /\ [FailoverNext]_vars => \A r \in Request : Waits(r)
  BY <1>1
<1>3. FailoverSpec => []TypeOK
  BY FailoverImplementsStore, StoreTypeCorrect, PTL
<1>4. FailoverSpec => RetryAfterReal
  BY <1>2, <1>3, FailoverInitInv, FailoverStepInv, PTL DEF FailoverSpec, RetryAfterReal
<1> QED BY <1>4, FailoverTellsCooldowns DEF CooldownsTold
==============================================================================
