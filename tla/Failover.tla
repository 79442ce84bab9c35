------------------------------- MODULE Failover -------------------------------
(***************************************************************************)
(* The pre-stream failover engine of src/src/failover.ts                   *)
(* (executeWithFailover) over the shared CooldownStore.                    *)
(*                                                                         *)
(* Each inference request builds its plan, candidates times pool keys, and *)
(* walks it: one upstream call at a time, advancing on eligible failures.  *)
(* Requests run concurrently on one event loop.  A request gives the loop  *)
(* away only while an upstream call is pending (pc = "calling"); the catch *)
(* block that benches keys runs to its end, one mark() at a time, and only *)
(* a crash can cut it short (pc = "benching").                             *)
(***************************************************************************)
EXTENDS CooldownStore, Sequences

CONSTANTS
    Request,
    Provider,
    Target,        \* routed candidates: a model at a provider
    Key,           \* credential pool entries
    ProviderOf,    \* Target -> Provider
    PoolOf,        \* Target -> its pool, a sequence of keys; <<>> for bedrock
    LabelOf,       \* Key -> its "provider:label" Pair, None when unlabelled
    PairProvider,  \* Pair -> Provider
    CountTarget,   \* targets with a native count_tokens endpoint
    AccountScoped, \* providers configured accountScoped
    Asks,          \* requests: [targets |-> candidates, count |-> count_tokens]
    Answers,       \* the answers upstream calls come back with
    MaxAttempts    \* config.maxFailoverAttempts

\* What one upstream call can come back with: served, 401 or 403, a plain 429,
\* a 429 with a quota-reset stamp, a Fair-Usage 1313 429, a context-too-long or
\* conversion-bug 400, no connection (UpstreamRequestError), any other error,
\* an AbortError.
Answer == {"served", "rejected", "rateLimit", "quota", "fairUse",
           "retryable400", "unreachable", "fatal", "abortError"}

ASSUME FailoverAssumption ==
    /\ ProviderOf \in [Target -> Provider]
    /\ PoolOf \in [Target -> Seq(Key)]
    /\ LabelOf \in [Key -> Pair \cup {None}]
    /\ PairProvider \in [Pair -> Provider]
    /\ CountTarget \subseteq Target
    /\ AccountScoped \subseteq Provider
    /\ Asks \subseteq [targets : Seq(Target), count : BOOLEAN]
    /\ Answers \subseteq Answer
    /\ MaxAttempts \in 1..16
    /\ None \notin Provider

\* A key is marked under the name of the provider it serves.
ASSUME LabelAssumption ==
    \A t \in Target : \A e \in 1..Len(PoolOf[t]) :
        LabelOf[PoolOf[t][e]] # None =>
            PairProvider[LabelOf[PoolOf[t][e]]] = ProviderOf[t]

VARIABLES
    pc,        \* "idle", "calling", "benching", "done", or "lost" in a crash
    counting,  \* this is a count_tokens request
    route,     \* the candidates it expanded to
    plan,      \* its attempts: a set of slots
    at,        \* the slot of the pending attempt
    skip,      \* skipProvider
    error,     \* lastError, the answer of the attempt that failed last
    toBench,   \* pool indices the catch block still has to mark()
    stamp,     \* resetAtMs parsed from the 429 being handled
    aborted,   \* the client has gone away
    result,    \* how the request ended
    retryAfter,\* the Retry-After of a cooldown answer
    tried,     \* history: the slots attempted
    walled,    \* history: providers that answered an account-level block
    limited    \* history: keys that a 429 was about

requestVars == <<pc, counting, route, plan, at, skip, error, toBench, stamp,
                 aborted, result, retryAfter, tried, walled, limited>>
vars == <<storeVars, requestVars>>

Result == {"none", "served", "error", "fellThrough", "aborted",
           "coolingDown", "unsupported", "noRoute", "disabled"}

FailoverTypeOK ==
    /\ pc \in [Request -> {"idle", "calling", "benching", "done", "lost"}]
    /\ counting \in [Request -> BOOLEAN]
    /\ route \in [Request -> Seq(Target)]
    /\ plan \in [Request -> SUBSET (Nat \X Nat)]
    /\ at \in [Request -> Nat \X Nat]
    /\ skip \in [Request -> Provider \cup {None}]
    /\ error \in [Request -> Answer \cup {None}]
    /\ toBench \in [Request -> SUBSET Nat]
    /\ stamp \in [Request -> Stamp]
    /\ aborted \in [Request -> BOOLEAN]
    /\ result \in [Request -> Result]
    /\ retryAfter \in [Request -> Nat \cup {None}]
    /\ tried \in [Request -> SUBSET (Nat \X Nat)]
    /\ walled \in [Request -> SUBSET Provider]
    /\ limited \subseteq Key

------------------------------------------------------------------------------
(* Building the plan.  A slot <<c, e>> is candidate c with entry e of its     *)
(* pool; <<c, 0>> is candidate c without a pool.  Slots are tried in order:   *)
(* next key before next model.                                               *)

Slots(ts) ==
    UNION {IF PoolOf[ts[c]] = <<>> THEN {<<c, 0>>}
           ELSE {c} \X (1..Len(PoolOf[ts[c]])) : c \in 1..Len(ts)}

Before(s, u) == s[1] < u[1] \/ (s[1] = u[1] /\ s[2] < u[2])

TargetAt(ts, s) == ts[s[1]]
PoolAt(ts, s) == PoolOf[TargetAt(ts, s)]
ProviderAt(ts, s) == ProviderOf[TargetAt(ts, s)]
LabelAt(ts, s) == IF s[2] = 0 THEN None ELSE LabelOf[PoolAt(ts, s)[s[2]]]

\* A slot whose key is not benched right now.
Usable(ts, s) == LabelAt(ts, s) = None \/ ~IsDegraded(LabelAt(ts, s))

\* buildAttempts: the usable slots, cut at the configured cap.
BuildAttempts(ts) ==
    LET usable == {s \in Slots(ts) : Usable(ts, s)}
    IN {s \in usable : Cardinality({u \in usable : Before(u, s)}) < MaxAttempts}

\* count_tokens keeps the attempts whose target can count, after the cap.
Plan(ts, count) ==
    {s \in BuildAttempts(ts) : count => TargetAt(ts, s) \in CountTarget}

\* cooledProviders: those of the candidates whose whole pool is benched.  Only
\* read when the plan is empty, so the early return at the cap does not matter.
CooledProviders(ts) ==
    {ProviderAt(ts, s) : s \in
        {u \in Slots(ts) : \A v \in Slots(ts) : v[1] = u[1] => ~Usable(ts, v)}}

PairsOf(providers) == {p \in Pair : PairProvider[p] \in providers}

\* What an empty plan is answered with.
EmptyPlanResult(ts, count) ==
    CASE count -> "unsupported"
      [] ~count /\ CooledProviders(ts) # {} -> "coolingDown"
      [] ~count /\ CooledProviders(ts) = {} /\ ts = <<>> -> "noRoute"
      [] OTHER -> "disabled"

------------------------------------------------------------------------------
(* Classifying an answer.                                                  *)

Is429(a) == a \in {"rateLimit", "quota", "fairUse"}

\* isAccountScopedLimitBody: a stamp, or code 1313.
AccountLevel(a) == a \in {"quota", "fairUse"}

\* Mutants: a bad key is not worth another one; a 5xx is.
EligibleNotRejected(a) ==
    a \in {"rateLimit", "quota", "fairUse", "retryable400", "unreachable"}
EligibleServerError(a) == a \notin {"served", "abortError"}

Eligible(a) == a \in {"rejected", "rateLimit", "quota", "fairUse",
                      "retryable400", "unreachable"}

\* The catch block rethrows at once when the client is gone; count_tokens hands
\* the engine no signal, so there only an AbortError says so.
ClientGone(r, a) == a = "abortError" \/ (aborted[r] /\ ~counting[r])

\* This 429 benches the whole pool of its provider.
BenchesAccount(ts, slot, a) ==
    /\ Is429(a) /\ AccountLevel(a)
    /\ ProviderAt(ts, slot) \in AccountScoped
    /\ PoolAt(ts, slot) # <<>>

\* Mutants: only the key in hand is benched; the whole pool always is.
LimitsKeyInHand(ts, slot, a) == IF Is429(a) /\ slot[2] # 0 THEN {slot[2]} ELSE {}

BenchesPool(ts, slot, a) ==
    {e \in (IF Is429(a) THEN 1..Len(PoolAt(ts, slot)) ELSE {}) :
        LabelAt(ts, <<slot[1], e>>) # None}

\* The pool entries a failed attempt shows to be rate-limited, and those of
\* them that have a label to mark().
Limits(ts, slot, a) ==
    IF BenchesAccount(ts, slot, a) THEN 1..Len(PoolAt(ts, slot))
    ELSE IF Is429(a) /\ slot[2] # 0 THEN {slot[2]}
    ELSE {}

Benches(ts, slot, a) ==
    {e \in Limits(ts, slot, a) : LabelAt(ts, <<slot[1], e>>) # None}

------------------------------------------------------------------------------
(* Steps of a request.                                                     *)

\* No catch block is running: the event loop is free.
LoopFree == \A r \in Request : pc[r] # "benching"

Finish(r, res) ==
    /\ pc' = [pc EXCEPT ![r] = "done"]
    /\ result' = [result EXCEPT ![r] = res]

\* Up to the first upstream call everything is synchronous: the plan is built
\* from the cooldowns of this moment and never looked at again.
Arrive(r) ==
    /\ up /\ LoopFree /\ pc[r] = "idle"
    /\ \E ask \in Asks :
          LET ts == ask.targets
              count == ask.count
              attempts == Plan(ts, count)
              ended == EmptyPlanResult(ts, count)
          IN /\ route' = [route EXCEPT ![r] = ts]
             /\ counting' = [counting EXCEPT ![r] = count]
             /\ plan' = [plan EXCEPT ![r] = attempts]
             /\ \/ /\ \E first \in attempts :
                         /\ \A s \in attempts \ {first} : Before(first, s)
                         /\ at' = [at EXCEPT ![r] = first]
                         /\ tried' = [tried EXCEPT ![r] = {first}]
                   /\ pc' = [pc EXCEPT ![r] = "calling"]
                   /\ UNCHANGED <<result, retryAfter>>
                \/ /\ attempts = {}
                   /\ Finish(r, ended)
                   /\ \E wait \in (0..MaxCooldown) \cup {None} :
                         /\ IF ended = "coolingDown"
                            THEN EarliestReinstatement(PairsOf(CooledProviders(ts)), wait)
                            ELSE wait = None
                         /\ retryAfter' = [retryAfter EXCEPT ![r] = wait]
                   /\ UNCHANGED <<at, tried>>
    /\ UNCHANGED <<storeVars, skip, error, toBench, stamp, aborted,
                   walled, limited>>

\* The client closes the connection; the signal is set, the call still pends.
ClientAbort(r) ==
    /\ up /\ LoopFree /\ pc[r] = "calling" /\ ~aborted[r]
    /\ aborted' = [aborted EXCEPT ![r] = TRUE]
    /\ UNCHANGED <<storeVars, pc, counting, route, plan, at, skip, error, toBench,
                   stamp, result, retryAfter, tried, walled, limited>>

\* Mutant: a success lifts the bench of its key behind the store's back.
ServedReinstates(r) ==
    /\ up /\ LoopFree /\ pc[r] = "calling"
    /\ Finish(r, "served")
    /\ entries' = [p \in Pair |-> IF p = LabelAt(route[r], at[r]) THEN None ELSE entries[p]]
    /\ UNCHANGED <<now, up, timers, quotaMarks, persistWarned, disk, counting, route, plan,
                   at, skip, error, toBench, stamp, aborted, retryAfter, tried, walled,
                   limited>>

\* The upstream answered 2xx: the response goes out, aborted or not.
Served(r) ==
    /\ up /\ LoopFree /\ pc[r] = "calling"
    /\ Finish(r, "served")
    /\ UNCHANGED <<storeVars, counting, route, plan, at, skip, error, toBench,
                   stamp, aborted, retryAfter, tried, walled, limited>>

\* The attempt failed after the client had gone: rethrown, nothing is marked.
FailedGone(r, a) ==
    /\ up /\ LoopFree /\ pc[r] = "calling" /\ a # "served"
    /\ ClientGone(r, a)
    /\ Finish(r, "aborted")
    /\ UNCHANGED <<storeVars, counting, route, plan, at, skip, error, toBench,
                   stamp, aborted, retryAfter, tried, walled, limited>>

\* Mutant: the advance never leaves the failed slot.
AdvanceStays(r, a, sk) ==
    IF Eligible(a)
    THEN pc' = [pc EXCEPT ![r] = "calling"] /\ UNCHANGED <<at, tried, result>>
    ELSE Finish(r, "error") /\ UNCHANGED <<at, tried>>

\* The end of the catch block: throw, or go to the next attempt that is not of
\* the skipped provider, or run out of the loop when there is none left.
AdvanceOrThrow(r, a, sk) ==
    LET later == {s \in plan[r] : Before(at[r], s)}
        rest == {s \in later : ProviderAt(route[r], s) # sk}
    IN \/ /\ ~Eligible(a) \/ later = {}
          /\ Finish(r, "error")
          /\ UNCHANGED <<at, tried>>
       \/ /\ Eligible(a) /\ later # {} /\ rest = {}
          /\ Finish(r, "fellThrough")
          /\ UNCHANGED <<at, tried>>
       \/ /\ Eligible(a)
          /\ \E next \in rest :
                /\ \A s \in rest \ {next} : Before(next, s)
                /\ at' = [at EXCEPT ![r] = next]
                /\ tried' = [tried EXCEPT ![r] = @ \cup {next}]
          /\ pc' = [pc EXCEPT ![r] = "calling"]
          /\ UNCHANGED result

\* The attempt failed with the client still there.  A 429 first benches keys,
\* every labelled key of the pool when the account is blocked.
Failed(r, a) ==
    LET whole == BenchesAccount(route[r], at[r], a)
        marks == Benches(route[r], at[r], a)
        provider == ProviderAt(route[r], at[r])
        sk == IF whole THEN provider ELSE skip[r]
    IN /\ up /\ LoopFree /\ pc[r] = "calling" /\ a # "served"
       /\ ~ClientGone(r, a)
       /\ marks # {} => now + MaxCooldown <= MaxTime
       /\ error' = [error EXCEPT ![r] = a]
       /\ skip' = [skip EXCEPT ![r] = sk]
       /\ walled' = [walled EXCEPT ![r] = IF whole THEN @ \cup {provider} ELSE @]
       /\ limited' = limited \cup
            {PoolAt(route[r], at[r])[e] : e \in Limits(route[r], at[r], a)}
       /\ toBench' = [toBench EXCEPT ![r] = marks]
       /\ \E s \in Stamp :
             /\ (s # None) <=> (a = "quota" /\ marks # {})
             /\ stamp' = [stamp EXCEPT ![r] = s]
       /\ \/ /\ marks = {}
             /\ AdvanceOrThrow(r, a, sk)
          \/ /\ marks # {}
             /\ pc' = [pc EXCEPT ![r] = "benching"]
             /\ UNCHANGED <<at, tried, result>>
       /\ UNCHANGED <<storeVars, counting, route, plan, aborted, retryAfter>>

\* One mark() of the catch block, in pool order; after the last one it ends.
Bench(r) ==
    /\ pc[r] = "benching"
    /\ \E e \in toBench[r] :
          /\ \A f \in toBench[r] : e <= f
          /\ Mark(LabelAt(route[r], <<at[r][1], e>>), stamp[r])
          /\ toBench' = [toBench EXCEPT ![r] = @ \ {e}]
          /\ \/ /\ toBench[r] = {e}
                /\ AdvanceOrThrow(r, error[r], skip[r])
                /\ stamp' = [stamp EXCEPT ![r] = None]
             \/ /\ toBench[r] # {e}
                /\ UNCHANGED <<pc, at, tried, result, stamp>>
    /\ UNCHANGED <<counting, route, plan, skip, error, aborted, retryAfter, walled, limited>>

\* The request is over and its locals are gone; its place takes a new one.
Leave(r) ==
    /\ pc[r] \in {"done", "lost"}
    /\ pc' = [pc EXCEPT ![r] = "idle"]
    /\ counting' = [counting EXCEPT ![r] = FALSE]
    /\ route' = [route EXCEPT ![r] = <<>>]
    /\ plan' = [plan EXCEPT ![r] = {}]
    /\ at' = [at EXCEPT ![r] = <<0, 0>>]
    /\ skip' = [skip EXCEPT ![r] = None]
    /\ error' = [error EXCEPT ![r] = None]
    /\ toBench' = [toBench EXCEPT ![r] = {}]
    /\ stamp' = [stamp EXCEPT ![r] = None]
    /\ aborted' = [aborted EXCEPT ![r] = FALSE]
    /\ result' = [result EXCEPT ![r] = "none"]
    /\ retryAfter' = [retryAfter EXCEPT ![r] = None]
    /\ tried' = [tried EXCEPT ![r] = {}]
    /\ walled' = [walled EXCEPT ![r] = {}]
    /\ UNCHANGED <<storeVars, limited>>

------------------------------------------------------------------------------
(* The world around the requests.                                          *)

\* Timers fire and time passes only between synchronous blocks.
StoreFire(p) == LoopFree /\ Fire(p) /\ UNCHANGED requestVars
StoreTick == LoopFree /\ Tick /\ UNCHANGED requestVars
StoreStart == Start /\ UNCHANGED requestVars

\* The process dies with every request it was serving.
ProcessCrash ==
    /\ Crash
    /\ pc' = [r \in Request |-> IF pc[r] \in {"calling", "benching"} THEN "lost" ELSE pc[r]]
    /\ UNCHANGED <<counting, route, plan, at, skip, error, toBench, stamp, aborted,
                   result, retryAfter, tried, walled, limited>>

FailoverInit ==
    /\ StoreInit
    /\ pc = [r \in Request |-> "idle"]
    /\ counting = [r \in Request |-> FALSE]
    /\ route = [r \in Request |-> <<>>]
    /\ plan = [r \in Request |-> {}]
    /\ at = [r \in Request |-> <<0, 0>>]
    /\ skip = [r \in Request |-> None]
    /\ error = [r \in Request |-> None]
    /\ toBench = [r \in Request |-> {}]
    /\ stamp = [r \in Request |-> None]
    /\ aborted = [r \in Request |-> FALSE]
    /\ result = [r \in Request |-> "none"]
    /\ retryAfter = [r \in Request |-> None]
    /\ tried = [r \in Request |-> {}]
    /\ walled = [r \in Request |-> {}]
    /\ limited = {}

RequestNext(r) ==
    \/ Arrive(r)
    \/ ClientAbort(r)
    \/ Served(r)
    \/ \E a \in Answers : FailedGone(r, a)
    \/ \E a \in Answers : Failed(r, a)
    \/ Bench(r)
    \/ Leave(r)

FailoverNext ==
    \/ \E r \in Request : RequestNext(r)
    \/ \E p \in Pair : StoreFire(p)
    \/ StoreTick
    \/ StoreStart
    \/ ProcessCrash

FailoverSpec == FailoverInit /\ [][FailoverNext]_vars

\* Every upstream call comes back, with headers or with the time-to-headers
\* timeout of src/src/http/upstream.ts, and the catch block runs to its end.
Answered(r) == Served(r) \/ \E a \in Answers : FailedGone(r, a) \/ Failed(r, a)

FairFailoverSpec ==
    FailoverSpec /\ \A r \in Request : WF_vars(Answered(r)) /\ WF_vars(Bench(r))

------------------------------------------------------------------------------
(* Properties.                                                             *)

Key429(a) == a \in {"rateLimit", "quota", "fairUse"}
AttemptEnds(r) == /\ pc[r] \in {"calling", "benching"}
                  /\ pc'[r] \in {"calling", "done"}
                  /\ pc'[r] # pc[r] \/ at'[r] # at[r]
                  /\ result'[r] \notin {"served", "aborted"}
\* A 5xx, another 4xx or an abort is never followed by another attempt (it
\* could double-charge a generation), and a request whose client has gone
\* starts no attempt and benches no key, whatever the pending call answers.
OnlyRetryableRetried ==
    [][\A r \in Request :
        /\ ~(tried'[r] \subseteq tried[r]) /\ pc[r] # "idle" =>
             error'[r] \in Answer \ {"served", "fatal", "abortError"}
        /\ aborted[r] /\ ~counting[r] => tried'[r] \subseteq tried[r] /\ toBench'[r] = {}]_vars

\* The slot was attempted, or is on a provider that blocked the account.
Spent(r, s) == s \in tried[r] \/ ProviderAt(route[r], s) \in walled[r]

\* A retryable error reaches the client only when nothing is left: every planned
\* attempt was made, or is on a provider that blocked the account.
GiveUpExhausted ==
    \A r \in Request :
        result[r] \in {"error", "fellThrough"} /\ error[r] # "fatal" =>
            \A s \in plan[r] : Spent(r, s)

\* When a request moves on from a 429, or fails with it, the key it used is
\* benched, and every key of the pool when the block is account-level.
RateLimitedKeyBenched ==
    [][\A r \in Request : AttemptEnds(r) /\ Key429(error'[r]) =>
        LET whole == /\ error'[r] # "rateLimit"
                     /\ ProviderAt(route[r], at[r]) \in AccountScoped
        IN \A s \in Slots(route[r]) :
            /\ s = at[r] \/ (whole /\ s[1] = at[r][1])
            /\ LabelAt(route[r], s) # None
            => entries'[LabelAt(route[r], s)] # None]_vars

\* A new request leaves out only keys whose label some 429 was about, over
\* restarts, expiries and account-wide benches too.  Keys that share a label (the
\* flat credentials of two regions, say) are left out together: a key is skipped
\* for another one's 429 only when they share a label.
OnlyLimitedLabelsSkipped ==
    [][\A r \in Request : pc[r] = "idle" /\ pc'[r] # "idle" =>
        \A s \in Slots(route'[r]) :
            LabelAt(route'[r], s) # None /\ entries[LabelAt(route'[r], s)] # None =>
                \E k \in limited : LabelOf[k] = LabelAt(route'[r], s)]_vars

\* A request that could be served but for cooldowns is told so: it gets the 429
\* with the time to wait, never a missing-provider answer.
EmptyPlanIsARateLimit ==
    \A r \in Request :
        /\ result[r] # "disabled"
        /\ result[r] = "noRoute" => route[r] = <<>>
        /\ result[r] = "coolingDown" => retryAfter[r] # None

\* The wait of a cooldown answer is real: when it is over a bench of one of the
\* request's providers has ended, and it never outlasts the first bench of the
\* request's own keys.  The bench that ends may be one of a key that the request
\* cannot use, of another region or of no pool any more; then the wait is short.
RetryAfterReal ==
    [][\A r \in Request : pc[r] = "idle" /\ result'[r] = "coolingDown" =>
        LET slots == Slots(route'[r])
            benched == {p \in Pair : /\ IsDegraded(p)
                                     /\ \E s \in slots : PairProvider[p] = ProviderAt(route'[r], s)}
            back == now + retryAfter'[r]
        IN /\ \E p \in benched : entries[p] <= back
           /\ retryAfter'[r] # 0 =>
                \A s \in slots : back <= entries[LabelAt(route'[r], s)]]_vars

\* Who is not served for cooldowns is told that, and how long to wait.
CooldownsTold == []EmptyPlanIsARateLimit /\ RetryAfterReal

\* Every accepted request is answered, or lost with the process.
EveryRequestAnswered ==
    \A r \in Request : pc[r] = "calling" ~> pc[r] \in {"done", "lost"}
==============================================================================
