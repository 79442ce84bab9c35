---------------------------- MODULE CooldownStore ----------------------------
(***************************************************************************)
(* The credential cooldown store of src/src/failover.ts                    *)
(* (CredentialCooldownStore): which (provider, key label) pairs are held   *)
(* out of rotation after a 429, until when, the quota picture the operator *)
(* sees, and the state file that carries both over a restart.              *)
(*                                                                         *)
(* One process owns the store at a time.  Every operation is synchronous   *)
(* JavaScript, so it is one step; the expiry timers, the clock and a crash *)
(* interleave between operations.  Time is a natural number of abstract    *)
(* units; Date.now() is assumed not to run backwards.                      *)
(***************************************************************************)
EXTENDS Integers, FiniteSets

CONSTANTS
    Pair,          \* the "provider:label" keys of the store
    Blind,         \* COOLDOWN_MS, the cooldown of a 429 without a stamp
    Jitter,        \* COOLDOWN_JITTER_MS, spread around Blind
    MaxCooldown,   \* MAX_COOLDOWN_MS, the longest cooldown
    ResetMargin,   \* RESET_MARGIN_MS, added to a parsed reset stamp
    ResetTimes,    \* quota-reset stamps a 429 body can carry
    None,          \* "undefined": no entry, no mark, no stamp
    MaxTime        \* bound of the model: the clock stops here

Stamp == ResetTimes \cup {None}
Mark429 == [last429At : Nat, quotaResetAt : Stamp]     \* QuotaMarkRecord

ASSUME StoreAssumption ==
    /\ Blind \in Nat /\ Jitter \in Nat /\ MaxCooldown \in Nat
    /\ ResetMargin \in Nat /\ MaxTime \in Nat
    /\ Jitter < Blind
    /\ Blind + Jitter <= MaxCooldown
    /\ ResetTimes \subseteq Nat
    /\ None \notin Int /\ None \notin Mark429

VARIABLES
    now,           \* Date.now()
    up,            \* a process is running and owns the store
    entries,       \* entries: Pair -> untilMs of its cooldown, or None
    timers,        \* pending setTimeout callbacks: Pair -> set of due times
    quotaMarks,    \* quotaMarks: Pair -> last 429 and its stamp, or None
    persistWarned, \* a write of the state file failed in this process
    disk           \* what the state file holds

storeVars == <<now, up, entries, timers, quotaMarks, persistWarned, disk>>

NoEntries == [p \in Pair |-> None]
NoTimers  == [p \in Pair |-> {}]
EmptyDoc  == [cooldowns |-> NoEntries, quotaMarks |-> NoEntries]

TypeOK ==
    /\ now \in 0..MaxTime
    /\ up \in BOOLEAN
    /\ entries \in [Pair -> Nat \cup {None}]
    /\ timers \in [Pair -> SUBSET Nat]
    /\ quotaMarks \in [Pair -> Mark429 \cup {None}]
    /\ persistWarned \in BOOLEAN
    /\ disk \in [cooldowns : [Pair -> Nat \cup {None}],
                 quotaMarks : [Pair -> Mark429 \cup {None}]]

------------------------------------------------------------------------------
(* Reading the store.                                                      *)

IsDegraded(p) == entries[p] # None

\* The pairs whose window is still open: what snapshot() shows and what
\* persist() writes.
Live(E, t) == [p \in Pair |-> IF E[p] # None /\ E[p] > t THEN E[p] ELSE None]

\* Mutant: the remaining window is rounded down.
EarliestReinstatementFloor(S, w) ==
    LET benched == {p \in S : IsDegraded(p)}
    IN \/ benched = {} /\ w = None
       \/ \E p \in benched :
             /\ \A q \in benched : entries[p] <= entries[q]
             /\ w = IF entries[p] > now THEN entries[p] - now - 1 ELSE 0

\* earliestReinstatementMs over the pairs in S: w is the shortest remaining
\* window, never negative, None when no pair of S is benched.
EarliestReinstatement(S, w) ==
    LET benched == {p \in S : IsDegraded(p)}
    IN \/ benched = {} /\ w = None
       \/ \E p \in benched :
             /\ \A q \in benched : entries[p] <= entries[q]
             /\ w = IF entries[p] > now THEN entries[p] - now ELSE 0

------------------------------------------------------------------------------
(* Writing it.                                                             *)

\* The length of the cooldown a 429 at time t with this stamp earns; j is the
\* jitter drawn for a blind one.
Ttl(t, stamp, j) ==
    IF stamp # None /\ stamp + ResetMargin > t
    THEN IF stamp + ResetMargin - t <= MaxCooldown
         THEN stamp + ResetMargin - t
         ELSE MaxCooldown
    ELSE Blind + j

\* Mutant: the old timer stays armed.
KeepTimer(p) == timers[p]

\* schedule(): the entry is replaced, its old timer is cleared and a new one
\* armed for the new expiry.
ClearTimer(p) == IF IsDegraded(p) THEN timers[p] \ {entries[p]} ELSE timers[p]

Schedule(p, until) ==
    /\ timers' = [timers EXCEPT ![p] = ClearTimer(p) \cup {until}]
    /\ entries' = [entries EXCEPT ![p] = until]

\* Mutant: the file is written before the 429 is recorded.
PersistTooEarly ==
    /\ ~persistWarned
    /\ disk' = [cooldowns |-> Live(entries, now), quotaMarks |-> quotaMarks]
    /\ UNCHANGED persistWarned

\* persist(): the whole state replaces the file by tmp + rename; the first
\* write that fails turns persistence off until the next process.
Persist ==
    \/ /\ ~persistWarned
       /\ disk' = [cooldowns |-> Live(entries', now), quotaMarks |-> quotaMarks']
       /\ UNCHANGED persistWarned
    \/ /\ persistWarned' = TRUE
       /\ UNCHANGED disk

\* mark(): bench p for the window its 429 earns, remember the 429, persist.
\* The guard keeps every window inside the modelled time.
Mark(p, stamp) ==
    /\ up
    /\ now + MaxCooldown <= MaxTime
    /\ \E j \in (-Jitter)..Jitter : Schedule(p, now + Ttl(now, stamp, j))
    /\ quotaMarks' = [quotaMarks EXCEPT
                        ![p] = [last429At |-> now, quotaResetAt |-> stamp]]
    /\ Persist
    /\ UNCHANGED <<now, up>>

\* A timer armed by schedule() fires: the key is reinstated.  Nothing is
\* persisted; the stale cooldown in the file is dropped when it is loaded.
Fire(p) ==
    /\ up
    /\ \E due \in timers[p] :
          /\ due <= now
          /\ timers' = [timers EXCEPT ![p] = @ \ {due}]
    /\ entries' = [entries EXCEPT ![p] = None]
    /\ UNCHANGED <<now, up, quotaMarks, persistWarned, disk>>

\* The process ends, whatever it was doing; only the file survives.
Crash ==
    /\ up
    /\ up' = FALSE
    /\ entries' = NoEntries
    /\ timers' = NoTimers
    /\ quotaMarks' = NoEntries
    /\ persistWarned' = FALSE
    /\ UNCHANGED <<now, disk>>

\* Mutants: a reload forgets the marks, or arms no timer.
LoadForgetsMarks ==
    LET live == Live(disk.cooldowns, now)
    IN /\ entries' = live
       /\ timers' = [p \in Pair |-> IF live[p] = None THEN {} ELSE {live[p]}]
       /\ quotaMarks' = NoEntries

LoadArmsNone ==
    /\ entries' = Live(disk.cooldowns, now)
    /\ timers' = NoTimers
    /\ quotaMarks' = disk.quotaMarks

\* The constructor: loadFromDisk() re-arms the windows that are still open and
\* restores the marks, or starts fresh when the file cannot be read.
LoadFromDisk ==
    LET live == Live(disk.cooldowns, now)
    IN \/ /\ entries' = live
          /\ timers' = [p \in Pair |-> IF live[p] = None THEN {} ELSE {live[p]}]
          /\ quotaMarks' = disk.quotaMarks
       \/ /\ entries' = NoEntries
          /\ timers' = NoTimers
          /\ quotaMarks' = NoEntries

Start ==
    /\ ~up
    /\ up' = TRUE
    /\ persistWarned' = FALSE
    /\ LoadFromDisk
    /\ UNCHANGED <<now, disk>>

Tick ==
    /\ now < MaxTime
    /\ now' = now + 1
    /\ UNCHANGED <<up, entries, timers, quotaMarks, persistWarned, disk>>

------------------------------------------------------------------------------
StoreInit ==
    /\ now = 0
    /\ up = FALSE
    /\ entries = NoEntries
    /\ timers = NoTimers
    /\ quotaMarks = NoEntries
    /\ persistWarned = FALSE
    /\ disk = EmptyDoc

StoreNext ==
    \/ \E p \in Pair, stamp \in Stamp : Mark(p, stamp)
    \/ \E p \in Pair : Fire(p)
    \/ Crash
    \/ Start
    \/ Tick

StoreSpec == StoreInit /\ [][StoreNext]_storeVars

\* The clock advances and the event loop of a running process fires due
\* timers.  Nothing is assumed about restarts.
StoreFairness == WF_storeVars(Tick) /\ (\A p \in Pair : WF_storeVars(Fire(p)))

FairStoreSpec == StoreSpec /\ StoreFairness

------------------------------------------------------------------------------
(* Properties.                                                             *)

\* u is the expiry that the 429 remembered in m earns under some jitter.
Earned(u, m) ==
    \E j \in (-Jitter)..Jitter :
        u = m.last429At + Ttl(m.last429At, m.quotaResetAt, j)

\* Every bench in memory is explained by the quota mark beside it, through any
\* number of re-marks, expiries, crashes and reloads: the operator who reads
\* the mark on the providers page reads the 429 that caused this bench.
WindowJustified ==
    \A p \in Pair : IsDegraded(p) =>
        quotaMarks[p] # None /\ Earned(entries[p], quotaMarks[p])

\* MAX_COOLDOWN_MS: no key is held longer than the cap from now on, even by a
\* window that an earlier process wrote and this one restored.
WindowBounded ==
    \A p \in Pair : IsDegraded(p) => entries[p] <= now + MaxCooldown

\* Each benched pair has exactly one pending timer, due at its expiry, and a
\* clean pair has none: a re-mark leaves no old timer behind that would lift
\* the new window early.
OneTimerPerBench ==
    \A p \in Pair : timers[p] = IF IsDegraded(p) THEN {entries[p]} ELSE {}

\* What a restart would load covers what the process knows: every open window
\* and every mark is in the file, unless a write failed in this process.
RestartKeepsState ==
    up /\ ~persistWarned =>
        \A p \in Pair :
            /\ Live(entries, now)[p] # None => disk.cooldowns[p] = entries[p]
            /\ quotaMarks[p] # None => disk.quotaMarks[p] = quotaMarks[p]

\* A running process reinstates a key only when its window is over, and it
\* changes a window only by recording a new 429 at that moment.
NoEarlyReinstatement ==
    [][up /\ up' =>
        \A p \in Pair : IsDegraded(p) /\ entries'[p] # entries[p] =>
            \/ entries'[p] = None /\ entries[p] <= now
            \/ quotaMarks'[p] # None /\ quotaMarks'[p].last429At = now]_storeVars

\* Every window ends: a key benched until u does not stay benched until u.
WindowEnds ==
    \A p \in Pair, u \in 0..MaxTime : (entries[p] = u) ~> (entries[p] # u)
==============================================================================
