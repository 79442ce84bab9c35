# Verification of the provider proxy

TLA+ models of claude-code-provider-proxy, TLC configurations that check them on
small instances, and proofs that TLAPS checks for every value of the constants.
Paths such as `failover.ts:640` are relative to `src/src/` of the repository; other paths
are relative to `src/`.

Contents: [the system](#1-the-system), [plan](#2-plan),
[modules and how they correspond to the code](#3-modules), [runs](#4-runs-and-bounds),
[fairness](#5-fairness), [proofs](#6-proofs), [disagreements found](#7-where-code-and-comments-disagree),
[what is not modelled](#8-what-is-not-modelled).

## 1. The system

The proxy answers Anthropic Messages requests. A model id is routed to a list of
candidates (a model at a provider), each candidate has a pool of keys, and the failover
engine walks candidates times keys until one upstream call succeeds. The conversation is
translated to the wire of the candidate, the answer back to Anthropic SSE, streamed to the
client and teed to a capture that ends as a row of the turn log. A catalog discovers models
in the background; a config page reloads the running system.

Everything on the main thread is one event loop: a handler runs to its next `await`, so an
interleaving is possible exactly where a call, a timer or a promise gives the loop away.
There is one other thread, the turn writer's worker.

| component | state | operations | interacts with |
|---|---|---|---|
| credential cooldown store (`failover.ts` 81-338) | `entries`, `quotaMarks`, one `setTimeout` per bench, the state file | `mark`, expiry, `persist`, `loadFromDisk`, queries | called by the engine; file survives restarts |
| failover engine (`failover.ts` 340-726) | per request: plan, position, `skipProvider`, last error, abort signal | `buildAttempts`, `executeWithFailover` | store, path handlers, router |
| inference handlers, count_tokens (`server.ts` 372-735) | none beyond the request | route, run, capture, answer | router, engine, capture |
| runtime and reload (`server.ts` 740-1773) | the current runtime; a chain of reloads | boot, `buildRuntime`, `reloadRuntime` | config file, catalog, log store |
| configuration (`config.ts`) | the file | interpolate, validate, serialise, save | runtime, page |
| router (`router.ts`) | none | resolve an id or tier to targets and pools | config, catalog |
| catalog (`model/catalog.ts`) | current catalog, refresh in flight, source backoff, timer | `refresh`, `start`, `stop` | discovery calls, runtime |
| upstream POST (`http/upstream.ts`) | per call: attempts, timers | retry with backoff, header and idle timeouts | path handlers, engine |
| Bedrock token provider (`auth/token-provider.ts`) | token and pending mint per region | `getToken` | upstream calls |
| path handlers (`paths/*.ts`) | none: the client sends the whole conversation each time | normalise, translate, post | upstream POST, streams |
| stream translation (`stream/*.ts`) | per stream: open blocks, flags, timers | decode, emit, `finish`, `fail`, cancel | upstream body, client |
| keep-alive tee (`stream/keepalive-tee.ts`) | per stream: ping timer | pump, ping, cancel | stream, capture |
| response capture (`logging/capture.ts`) | per turn: meter, accumulator; process-wide byte budget | tee, accumulate, cut, record | stream, log store |
| turn log store (`logging/log-store.ts`) | next seq per session, stop and close flags | `recordTurn`, `seedSeq`, reads, `close` | writer, index |
| turn writer (`logging/writer.ts`, `writer-worker.ts`) | queue, window, uncommitted jobs, byte budget, waiters; in the worker the staged batch | `write`, `writePrompt`, `flush`, `close`, `pruneBodies`, crash recovery | worker by messages, index |
| turn index and spool (`logging/index-db.ts`) | rows, session rollup, prompt versions, spool file | `commitFlush`, spool, replay, prune | writer core, log store |
| errors, inbound auth, logging helpers, pages, ZIP, CLI | none, or process-local | pure or I/O | |

What is hard in it, and what makes each part correct:

* **Store.** Re-marks while a timer is armed, writes that fail, crashes between two
  writes, reloads, stamps in the past or the far future. Correct: every bench is the one
  a 429 earned, is bounded, ends, is never lifted early, and survives a restart.
* **Engine.** Concurrent requests over one store, a client that leaves while a call is
  pending, account-level blocks, a plan that is a snapshot. Correct: only failures that
  cannot have charged the user are retried; giving up means nothing was left to try; a
  rate limit is reported as one, with a wait that is real.
* **Outbound.** A token shared while it is minted, retries against timers, aborts and
  answers. Correct: no expired token is handed out; nothing is sent for a client that is
  gone; an answered message is not sent again.
* **Conversation.** The client interrupts tools, edits and drops history and changes
  models; every request carries it all. Correct: an upstream never gets a call without its
  result, nothing said is lost, and the cached prefix stays.
* **Streams, capture.** Timers against late data, cancellation from either side, a budget
  returned on every path. Correct: a well-formed stream with one terminal event, a cut
  answer never looks complete, the record says what it holds.
* **Runtime, configuration, catalog, router.** Two reloads at once, a step that fails, a
  refresh that outlasts `stop()`, a secret that went through the page. Correct: one
  configuration is served, shown and saved; the catalog only moves forward and catches up;
  what is listed can be asked for.
* **Writer.** Two threads, acknowledgements that precede commits, a worker that dies
  anywhere, control requests repeated to its successor. Correct: no accepted job is lost,
  `flush` means durable, no call hangs, the budget neither leaks nor overflows.
* **Log store and index.** Sequence numbers across restarts, a spool replayed later than
  newer batches, rollups that must equal what they summarise. Correct: every turn that was
  accepted is listed once, in order, and counted once.

The hazards, each at its line, are listed in `PROJECT.json` under `hazards`.

## 2. Plan

In order of importance; all modules of the first plan are written.

1. `CooldownStore`, `Failover` and their proofs. *Done.*
2. `TurnWriter`, the abstract `DurableLog` it implements, and its proofs. *Done*: every
   safety property and the refinement are theorems.
3. `TurnLog`. *Done, except* the prompt counts: every property is a theorem.
4. `Outbound` over `TokenCache` and `PostJson`; `StreamBridge` against `AnthropicStream`;
   `Capture`. *Done*: every safety property of theirs is a theorem.
5. `Runtime` over `Catalog`, `Router` and `ConfigFile`. *Done*: every safety invariant is a
   theorem.
6. `Conversation` over `Translation`. *Done*: every property is a theorem, strict acceptance
   under a hypothesis on ids (section 6).
7. The rest of `Failover`. *Done*: every safety property is a theorem.

## 3. Modules

| module | what it is |
|---|---|
| `CooldownStore` | the store: state, every operation, timers, the state file, crash and restart |
| `Failover` | requests walking plans over the store; extends `CooldownStore` |
| `TokenCache`, `PostJson` | the token provider; one JSON POST with its retries |
| `Outbound` | both composed: requests side by side over one cache |
| `Translation` | normalisation and both wires as operators on messages |
| `Conversation` | a client, the proxy and upstreams taking turns over `Translation` |
| `AnthropicStream` | abstract: the grammar of the event stream a client may be sent |
| `StreamBridge` | emitter, bridges, tee, pump and timers, against that grammar |
| `Capture` | captures of concurrent turns over one byte budget |
| `Lists` | what a filtered and a joined array is |
| `ConfigFile` | raw, loaded, shown and saved configurations as operators |
| `Router` | routes as operators on a configuration and a catalog; extends `ConfigFile` |
| `Catalog` | discovery and catalog managers; extends `Router` |
| `Runtime` | the process: boot, reloads, saves, crashes; extends `Catalog` |
| `DurableLog` | abstract: what the turn writer promises its callers |
| `TurnWriter` | main thread, worker, core and callers of the writer |
| `TurnLog` | the log stores of a process, the index, its rollup and the spool |
| `FailoverProofs` (with `CooldownStore`), `TurnWriterProofs`, `TurnLogProofs`, `OutboundProofs`, `StreamBridgeProofs`, `CaptureProofs`, `RuntimeProofs` (with `ConfigFile`), `ConversationProofs` | inductive invariants and theorems |
| `MC*` | instances for TLC |

Definitions whose comment says "mutant" are deliberate one-line mistakes in the code they
stand beside; no specification uses them. Replacing the definition by its mutant must
break the property that `PROJECT.json` pairs them with, which shows that the property
depends on that line.

**`CooldownStore`.** `entries`, `timers`, `quotaMarks`, `persistWarned` and `disk` are the
fields of the class, the pending `setTimeout`s and the state file. `Mark` is the whole of
`mark()`: quota mark, TTL, `schedule` (which clears the old timer) and `persist`, whose
write may fail once and then stays off for the process (`failover.ts:323`). `Fire` is the
timer callback, `Start` is `loadFromDisk` in `buildRuntime`, `Crash` loses memory and
timers. Time is a bounded natural; a stamp in a body is a time or none.

**`Failover`.** A slot `<<c, e>>` is candidate `c` with pool entry `e`; a plan is a set of
slots ordered by `Before`. `pc = "calling"` is the only state in which the loop is given
away. The catch block benches one key per step (`pc = "benching"`), because a crash can
cut it there, but no other request can run in between. An upstream call is one of the
answers in `Answer`, the classes the predicates at `failover.ts:387-473` tell apart.
`counting` requests take no abort signal and keep only native targets, as
`dispatchCountTokens` does. `tried`, `walled` and `limited` are history.

**`Outbound`.** A request waits for the promise of a mint (`waits`), which others may share,
then runs the loop of `postJson()`: `Fetch` checks the abort, sends the body and awaits
headers; `Respond`, `ConnectionFails`, `HeadersTimeOut` and `FetchAborted` end the wait and
are answered by a conclusion or a sleep. The upstream takes the body in a step of its own,
so that a timeout may find it taken or not. `taken` and `answers` are history. Only
count_tokens has `retryTransientStatus`.

**`Translation`, `Conversation`.** A text is the sequence of the things it says, so joining
texts is `\o` and losing words is visible. `normalizeForIrPaths` strips empty blocks, hoists
or demotes system turns and reconciles tool blocks, once for either wire;
`anthropicToOpenAIRequest` and `anthropicToConverseRequest` write the two wires, `openAIResponseToIr` and
`converseResponseToIr` read them. In `Conversation` the client writes, responds to calls
(not to all, to others, with words around), injects reminders and drops its oldest turns;
`Ask` sends the whole on the wire of any model. `sent` is the request the upstream got last,
`made` the answers as their upstreams made them. `sanitizeToolCallId()` is a constant
function that is assumed one-to-one on the ids that occur.

**`StreamBridge`.** One stream. `pc` is the pump, `read` the promise it awaits, which the
body, the idle timer or a cancel settles, once: what comes later finds it settled (`Settle`),
so the order in which the idle timer rejects and cancels matters (`RejectFirst`). `s` holds the fields of the emitter and of the
bridge, updated by one operator per method. `s.sent` is the summary `AnthropicStream` keeps
of the events sent: `legal` turns false at the first event the grammar does not allow. A
`ConverseStream` sends its frames in the order Bedrock documents (`source`); an
OpenAI-compatible upstream may send any chunk at any time.

**`Capture`.** Per turn a meter, a detached task, two branches of the tee and the record.
`bytes` is the process-wide `CaptureBudget`, which `configure()` may shrink while captures
run. `sent` is history: what the upstream really sent, and so is `dropped` of the log's branch:
what `reader.cancel()` threw away before it was read.

**`ConfigFile`, `Router`, `Catalog`, `Runtime`.** A string of the file is a literal or a
reference `${VAR:-default}`; `Load` interpolates and validates, `Shown` is what
`GET /api/config` gives, `Saved` is `serializeConfig()`, which looks values up in the
environment again. A catalog manager holds what it knows of each source as the edition of
the source's list; `flights` are the discoveries it awaits, the first kept in `refreshing`.
`posts` are the reloads in the order of the promise chain, each somewhere between `waiting`
and `done`. `Save` writes in place: it may fail half way, and a crash then leaves `Torn`.

**`TurnWriter`.** The main thread's fields keep their names. Job ids grow and a crash
re-sorts survivors by id, so a queue is a set whose head is its least id. `main` and `cpc`
say which handler or continuation runs: `Pump` and `Repost` are single turns of loops
that post messages, interleaved with the worker but with no other handler (`MainFree`). `inbox` and `outbox`
are the message channels; `staged` and `saved` the batch of the `WriterCore`; `durable`
and `full` are the rows in the index (or in its spool) and those with a body. `Die` takes
the worker at any moment; messages it already posted may still arrive until `OnCrash`.
`Faults` allows, besides deaths, a core that cannot open the index, a job that throws in
the prompt lookup, a body that cannot be written, a replacement that cannot start.

**`DurableLog`.** `Accept`, `Save`, `Close`, `Exhaust`: a job is accepted until the log is
closed, batches become durable and stay so, and the log closes only when everything accepted
is durable or the worker has died as often as `flush()` has passes. `TurnWriter`
instantiates it with `closed <- state = "closed"` and `exhausted <- crashes >= MaxPasses`.

**`TurnLog`.** `phase` says what the runtime has made of a store: opened as `candidate` by
a reload, `current` once it is swapped in, `stopping` and `closed`, or `idle` when the save
failed and nobody stops it. `seq` and `place` are the number map and the order of its
entries; `place` is seeded in the order of `listSessions()`. A writer is what `TurnWriter`
proves of it: `handed` in order, a prefix `committed`, the prefix the main thread knows of
`retired`, and what lies between handed over again after a death. `rows`, `turns` and
`spool` are the tables and the spool file; `replay` is the copy of the spool a worker works
on while others may append to the file. `recorded` and `lost` are history: the turns in the
order they happened, and those a process took with it when it ended, which it does without
waiting for its writer. A turn that ends after its store was stopped is not recorded
(`log-store.ts:279`).

`exposed` collects the sessions for which the code promises less than its comments do, each
where it happens: a store seeded while a turn is unseen in the index, or from a read that
failed (`OpenStore`); a turn recorded while another store is already seeded, or an entry
that fell out of the map (`Record`); a batch spooled while a replay will clear the spool
(`Commit`). `TurnsKept` and `NumberedInOrder` are about all other sessions, and fail
without any one of the four.

## 4. Runs and bounds

| run | question | bounds |
|---|---|---|
| `cooldowns` | is every bench justified, ended, kept over a restart, never lifted early? | 2 keys, blind cooldown 2±1, cap 3, margin 1, stamps {0, 4}, clock to 4: re-marks, stamps in the past and beyond the cap, failed writes and several restarts all occur |
| `failover` | what does one request after another retry, bench, and answer? | an account-scoped provider with two models on a two-key pool and one in a region that lists only the second key, so that a benched key need not be one of the request's; a pool-less provider; five shapes of request (empty and count_tokens among them), every answer, clock to 3 |
| `failover_pair` | do two concurrent requests lose a 429 of the other, is only a limited label skipped, and is every step one of the store's? | 2 symmetric requests, each to one model of either of two regions whose pools hold different keys under one label; three answers, crashes between the marks of one bench |
| `outbound` | is the token good, the body sent no more often than it may be, and does every request end? | a message and a count_tokens request over one region, 3 mints, 2 retries, time to 2 with skew 1, a Retry-After beyond its cap |
| `conversation` | is what upstreams are sent complete, accepted, unchanged from request to request? | 5 turns ever said, 2 tool calls (one whose id is rewritten), three wires and the native route, results for any subset of the calls, with words after them or none |
| `streams` | is the client's stream well formed, honest and finite? | 4 frames, 2 tool indices, 1 timer tick, all three paths; end, failure, idle bound, overflow and cancel at every point |
| `capture` | is the budget given back, the record honest, and does every capture end? | one streamed and one JSON turn, 3 chunks, a budget that both do not fit in and that shrinks |
| `runtime` | is one configuration served, shown and saved; do the catalog and the routes follow it? | 2 posts, 3 outside events (failed writes, crashes, outages, new editions), three starting files, 4 sources, two regions |
| `writer` | what survives worker deaths at any point, and does every call return? | 2 jobs (one may be a prompt sighting, one shed), window 1, batch 2, queue 1, one body of budget, two deaths against 2 passes of `flush`, all faults; a flushing or pruning caller beside a closing one |
| `turn_log` | do a session's turns stay in the log, in order, and counted? | 2 symmetric sessions, 4 turns, 2 stores (a restart or a reload, whose save may fail), a number map of 1 entry, batches of up to 2, 2 failing disk operations, 1 worker death, 1 end of the process |
| `find_turn_dropped`, `find_replay` | the first two disagreements of section 7 | the smallest instance that shows each |

Why these are enough. In the store, keys do not interact except through `persist`, which
writes them all: two keys show it. Three plan slots over two providers are the fewest in
which a skip passes over a slot and then returns. Two requests and one region let a mint be
shared, fail under both and expire between them. Five turns hold two rounds of a tool (a
question, an answer with calls, its results, an answer with calls, its results), or one round with a
reminder and a change of wire; the cached prefix needs two requests of one conversation. The
limit on messages is not reached by them, the refusal of a foreign block is. Four frames open, fill and close a
block and start the next. Two posts are the fewest in which one waits for the other; three
events let a source fail, a save fail and the world move on in one behaviour. A window of
one and a batch of two let a job be acknowledged and not committed, committed and not
reported, queued behind a full window, and let a repeated control request overtake queued
jobs; `OnCrash` returns the writer to its initial shape, with survivors queued, and the
second death uses up the passes. In the turn log, a map of one entry is full with two
sessions; two failures spool a batch and then fail its replay, its clearing or a seed; four
turns leave a row in the index, one in the spool, one with a writer and one to be numbered
after them.

What the bounds do not reach: the doubling of the source backoff beyond its first step
(`CooldownCap = 1`), a third post, more than five turns of one conversation, two tool calls
of one stream that are both named late behind other frames, a prune between two crashes
with a third job.

What each property says is the comment above it. In short:

* `CooldownStore`: `WindowJustified`, `RestartKeepsState`, `NoEarlyReinstatement`, `WindowEnds`.
* `Failover`: `OnlyRetryableRetried`, `GiveUpExhausted`, `RateLimitedKeyBenched`,
  `OnlyLimitedLabelsSkipped`, `CooldownsTold` (an empty plan is reported as what it is, with
  the time to a real end of a bench), `EveryRequestAnswered`, and `StoreSpec`, the refinement.
* `Outbound`: `TokenSafe`, `RetriesBounded`, `NothingForTheGone`, `OutboundEnds`.
* `Conversation`: `EveryCallAnswered`, `StrictlyAccepted`, `NothingLost`, `PrefixKept`.
* `StreamBridge`: `WellFormed`, `FinishedWhole`, `UsageTold`, `StreamEnds`.
* `Capture`: `BudgetExact`, `RecordHonest`, `CapturesEnd`.
* `Runtime`: `NoManagerLeaked`, `OneConfiguration`, `ReferencesSurvive`, `CatalogForward`,
  `CatalogCatchesUp`, `RoutesSound` (`ListedModelsRoute` and `TierSound`).
* `TurnWriter`: `NoJobForgotten`, `BudgetExact`, `OwedKept`, `EverythingSettles`, and
  `LogSpec`, the refinement.
* `TurnLog`: `RollupExact`, `TurnsKept`, `NumberedInOrder`.

The type invariants are proved (section 6) and need no run.

`CHECK_DEADLOCK FALSE` appears where the system really stops: every request, stream or
capture over, the writer closed, the turns and stores of the turn log used up, a file that
no boot can load.

Some properties name the conditions under which the code keeps them; section 7 lists what
happens otherwise. `EverythingSettles`: no fault but deaths, and, other than for `close()`,
fewer deaths than passes. `StrictlyAccepted`: results come directly after their calls
(`WellPlaced`); the other histories are those of section 7.
`ReferencesSurvive`: the variable is set and its value is no other variable's.
`NoManagerLeaked`: the log directory could be written. `ListedModelsRoute`: the model is none
of the four kinds that `Unserved` names.

Others state what the code does keep where more might be hoped for, without a condition.
`OnlyLimitedLabelsSkipped` speaks of labels: a key is left out for the 429 of another that
shares its label. `CooldownsTold`: the wait ends with a bench of one of the request's providers,
which may be of a key that the request cannot use, and so may be too short, but never too long.
`RecordHonest`: a "full" body lacks exactly what was dropped when the client came to the end of
the stream first, and its usage may be among that. The runs reach each of the three.

## 5. Fairness

* Store: the due timers of a running process fire, and the clock advances
  (`FairStoreSpec`). A runtime guarantees both. Nothing forces a restart.
* Engine: a pending upstream call is answered, and the catch block runs on. `OutboundEnds`
  and `StreamEnds` show of the code below it that it is: timeouts bound the call.
* Outbound: handlers go on, their timers fire, and a mint settles, which is local signing.
  Nothing is asked of the upstream, the client or the clock.
* Streams: the idle timer of a read fires, and the pump goes on once its read is settled
  (`PumpMoves`, on `pc` and `read`, since a step of the pump may leave the rest as it was).
  Nothing is asked of the upstream or the client.
* Capture: the detached task goes on and its timeout fires.
* Runtime: a supervisor restarts the process, its awaits and timers go on, every discovery
  has its timeout, and the clock runs. Posts, crashes, outages and new models are free.
* Writer: the main thread and the worker each go on while they have something to do, and
  the core's interval timer fires (`FairWriterSpec`). Weak fairness suffices, because
  neither is disabled again by the other except by a death, of which there are finitely
  many. Nobody is required to call `write`, `flush` or `close`; nothing is assumed of
  deaths and faults.
* Turn log and conversation: safety only, no fairness assumed.

## 6. Proofs

All for every value of the constants, under the named assumptions of the modules.

**Store** (`FailoverProofs`, assumption `StoreAssumption`: the cooldowns are naturals, jitter is
below the blind cooldown, their sum within the cap). `WindowJustified` is not inductive:
a reload takes windows and marks from the file. `StoreInv` adds that what the file holds
is justified in the same sense (`DiskJustified`), that marks lie in the past
(`MarksPast`), that each bench has exactly its own timer (`OneTimerPerBench`) and
`RestartKeepsState`. From it: type correctness, justification, `WindowBounded` (an expiry is
at most the cap after a mark that is not in the future), restarts, and the action property
`NoEarlyReinstatement`.

**Engine** (`FailoverProofs`, also `FailoverAssumption` and `LabelAssumption`). `FailoverImplementsStore`: every step of the engine
is a step of the store or leaves it unchanged, so the store's theorems hold of the
composed system (`SystemBenchesSound`). `WalkInv` states where a walk stands: every slot
before the current one was tried or is on a blocked provider. From it
`FailoverGivesUpExhausted`; and `FailoverOnlyRetries` for the retry discipline.

`RateLimitedKeyBenched` speaks of the end of a catch block that marks one key at a time.
`BenchedSoFar` says that what the block has not marked is still to mark, which holds since no
timer fires and no process starts in between (`FailoverBenchesLimited`). `BenchLog` follows
a bench from the 429 through memory and the file and back: each carries the label of a key
that a 429 was about. A new request therefore leaves out only such labels, whatever keys share them
(`FailoverSkipsLimited`). `FailoverTellsCooldowns` needs no strengthening, but that the cap never
cuts the first usable slot and that an unusable slot has a benched label of its own provider
(`NothingUsable`, `UnusableSlot`, `LabelAssumption`). So a cooled provider has a bench, the
earliest exists, and the rounded wait reaches its end but not beyond the first bench of the
request's own keys (`CooledWait`), which is `FailoverTellsHowLong`. Neither theorem assumes
anything of pools and labels but their types and that a label belongs to one provider.

**Writer** (`TurnWriterProofs`, assumption `WriterAssumption`). `NoJobForgotten` alone is not inductive: a
"committed" message could name a job that is not in the index. `Accounted` adds that
every report in the channel is true (its ids are durable), that only accepted jobs are
uncommitted, and that only uncommitted jobs have a body; with it `BudgetExact` is inductive too, since a report
gives back exactly the bytes that its jobs hold.

What a caller is owed needs to know where everything is. `Delivery` says of each accepted
job that it is durable, queued, in the window or staged (`Placed`), of each thread what it may
conclude of the other (`Threads`), of each caller what its place in `flush()`, `close()` or
`pruneBodies()` has established and that its request is behind the jobs it must follow
(`Calls`), and of each body that it travels with its job until it is on disk (`BodyKept`). From `DeliveryInv`:
`OwedKept`, and `WriterImplementsLog`, where each step of either thread is a step of
`DurableLog` or a stutter. All hold for any number of deaths, of callers, and with every fault.

**Turn log** (`TurnLogProofs`, assumption `TurnLogAssumption`). `RollupExact` with the types and the finiteness
of `rows` is inductive: INSERT OR IGNORE adds only rows whose number is free, so a commit
adds rows disjoint from those there and the delta is their number, for a batch that is new,
repeated or replayed in part alike; deriving the rollup again then changes nothing.

`TurnsKept` and `NumberedInOrder` hold each other up: a row is dropped when its number was
given before, and a number is right while no row is dropped. `LogInv` states, of a session
that is not exposed: a row that is not settled (in the index or in the spool) is with the
current store; the rows are settled in the order of their turns; the number last given is
the number of rows; what a replay read from the spool stays settled until it is committed.
The theorems hold for any number of stores at once, failures, deaths and restarts.

**Outbound** (`OutboundProofs`, assumptions `TokenAssumption`, `PostAssumption` and `OutboundAssumption`).
`TokenSafe` needs that a flying mint is in the entry of its region and settles before the
clock is `Skew` past its start (`CacheSound`), because a token's life runs from the
signature and not from the entry. That takes `Skew < Ttl`, which the code has by far
(`auth/token-provider.ts:29-30`: 300 s of 3600 s). `LoopSound` counts for each request the
bodies that its place in the loop allows, which gives `RetriesBounded`; `NothingForTheGone`
is an action property: `Fetch` looks at the signal in the step that sends.

**Streams** (`StreamBridgeProofs`, assumption `StreamAssumption`). The client sees the grammar's state, the
code only its own fields; `StreamInv` says that the two agree until the stream is closed.
`EmitterSound`: the next index, what was begun, the usage told. `ConverseSound`: the
one block that may be open is the one where the source stands. `OpenAiSound`: the open blocks
are those of `thinking`, `text` and the calls, no two calls share one, thinking precedes
text precedes tools, and the fragments received are those sent plus those held back for
calls without a name (`HeldBack`, a function of partial sums). Each method of the emitter and
each handler keeps it; `closeAllBlocks()` is a loop over the calls, for which every prefix of
the loop is sound by the least counterexample. From it `WellFormed` and `FinishedWhole`, and
`UsageTold` as a property of the steps that fail the stream. The theorems hold for any number
of frames, timer events and tool indices, and any interleaving with idle bound and cancel.

**Capture** (`CaptureProofs`, assumption `CaptureAssumption`, with finitely many turns and positive
limits). `BudgetExact` is about a sum over all turns, written as a fold. The proofs show
once, by the least counterexample, that a fold over a finite set is defined and that
changing one value changes the sum by the difference; each step of a meter then changes
`bytes` by what it reserves or frees. `TurnSound` says what the accumulator, the branch and
the task of one turn know of each other: what was sent is what was kept and what is `Ahead`,
still in the queue or dropped when the branch was cut off. When a turn is recorded, the queue is
empty; so a body never cut lacks the text of `dropped` and no more (`BalancedSum`), from which
`RecordHonest`.

**Configuration** (`RuntimeProofs`, assumptions `ConfigAssumption`, `NoneAssumption` (an absent
field is no string and no variable), `DefaultsAssumption`, and `NoneIsPlain`: nor is it a
function, so no record or sequence). Two theorems about the operators, for every
configuration that validation can yield (`ConfigSound`, which `Validated` establishes):
`ShownComesBack` for what the page shows and posts back, `SavedAgrees` for what a save writes
and a boot reads. They agree in `Meaning` only: a pool of one label "default" is shown flat,
and the reason a provider with regions has for being inactive goes with its empty URL
(section 7). The induction over arrays that this takes is done once, for `Only`
(`OnlyKeeps`), by the least index at which it fails; that is why arrays are filtered with
`Only` and not `SelectSeq`, which the prover does not expand.

**Runtime** (`RuntimeProofs`, assumptions also `StartsAssumption`, of what the files hold at the
start, and `SourceAssumption`). `NoManagerLeaked` is not inductive:
`Owned` strengthens it to managers that were not stopped, `PostsSound` says that two posts
never built the same manager and that the serving one is not among them, so that stopping
a discarded one stops no other. `CatalogForward` is an action property: a manager has at
most one discovery under way, and what that brings is no older than what it knows
(`CatalogSound`).

`OneConfiguration` compares the file with what serves, and between `Save` and `Swap` they
differ. `ConfigInv` follows the file: it is torn or absent, or it agrees with the manager that
boots, with the one that serves, or with that of the one post that has saved (`Agreement`);
there is only one, since the others are over or wait (`Turns`). Each configuration was
validated (`ConfigsSound`) and each body has the shape of one (`BodiesSound`), so the
theorems on operators apply at each save. From it `RuntimeOneConfiguration` and
`RuntimeTierSound`, for tiers of any length, one half of `RoutesSound`. The other, `RuntimeListedModelsRoute`, needs besides that a
manager knows models only of sources that its own configuration asks (`Knowledge`,
inductive over refreshes that overlap a reload), so that the router finds for each listed
model the provider, the region and a pool with a usable key. The hypothesis `EditsTyped`: what is
posted has the shape of a configuration; `validateConfig()` refuses the rest by its type
assertions, which are not modelled.

**Conversation** (`ConversationProofs`, assumptions `TranslationAssumption`: the rewriting of
ids keeps them apart, and `ConversationAssumption`: what arrives is JSON, so blocks and calls
are arrays, no word of the client's is one the proxy writes itself, and an answer of Converse
holds text, reasoning and calls only, the kinds its bridge reads). What is sent is computed
from the client's turns stage by stage: empty blocks and late system turns, tool results, the
messages of a wire, and for Converse neighbours of one role merged. Each stage is a join, a
filter or a fold over an array, and each fact about one is an induction over its partial
results by the least index at which it fails (`Upto`). That is why arrays are joined with
`Joined` and merged by a recursive function: the prover expands no operator of the community
modules.

* `ConversationInv` says of the client's turns that they are messages (`Typed`) and of what was
  sent that it follows from them. After `reconcileToolBlocks()` a message with calls is
  followed by one that answers each of them (`Closed`, `Follows`), which the OpenAI messages
  keep because results go first, and merging keeps because a message with results is a user's
  and the one with the calls an assistant's. From it `ConversationCallsAnswered`.
* `RequestInv` remembers of the last request that its turns are a beginning of the client's
  turns (`Remembered`). Each stage turns a beginning into a beginning (`Begins`): hoisting stops
  at the first user turn, the last turn of a request is not the model's, so it has no calls that
  later turns could answer, and merging only appends. From it `ConversationKeepsPrefix`.
* `ConversationStrictlyAccepted` needs besides that no turn makes or answers a call twice
  (`SoundTurns`, inductive). Normalised turns are then `Orderly`: results stand in the turn
  after their calls. Reconciled, they are `Strict`: each call has exactly one result. The last
  step is per wire: the tool messages after a message with calls are exactly those of its
  results (`RunOf`, `AnsweredOnce`); a merged message has the blocks of one run of
  neighbours, at most one of which has calls or results (`Fit`, `Paired`). The hypothesis
  `IdsDistinct`: upstreams give the calls of one answer different ids, which the code takes
  for granted.
* `ConversationNothingLost` takes two more inductive invariants. `WordsInv`: each turn says
  words of the client's or of a model's, none of the proxy's own, and a request's system prompt
  is that of its turns. `MadeInv`: every answer that the client did not drop stands as the turn
  at its place (`Held`). What a content tells (`Told`) and what messages tell (`Heard`) is a
  join over their blocks (`Spread`), and each stage is shown to keep it: stripping and
  demotion, reconciling (an answer taken into the message before moves, the order of words does
  not), the pieces of an OpenAI message, placeholders of images, which are the proxy's words
  and so filtered out on both sides, and merging. That a model's own answer comes back as it
  gave it follows one turn through each stage (`ComesThrough`, then `OpenAIShows` or
  `ConverseShows`), on Converse as a stretch of the message it was merged into (`Within`).

Only model-checked:

* all liveness properties (`WindowEnds`, `EveryRequestAnswered`, `OutboundEnds`,
  `StreamEnds`, `CapturesEnd`, `CatalogCatchesUp`, `EverythingSettles`): fairness is out of
  the prover's reach;
* `ReferencesSurvive`: the page may remove a field, and a file may hold a flat credential
  beside a pool, which validation drops with its reference. It is a property of the edits and
  files of the instance, not of all.

## 7. Where code and comments disagree

Each of these is a run that finds the violation:

* `find_turn_dropped`: a reload seeds the new store's numbers (`log-store.ts:584`) before it
  takes over, so they miss turns the old store still records or has not committed; a number
  given twice is dropped by INSERT OR IGNORE. Nothing fails in that run. A restart after a
  spooled batch drops turns in the same way: the reader is seeded before the writer replays.
* `find_replay`: a time to headers that is over, or a connection that fails, is retried
  (`http/upstream.ts:250`) although the upstream may have taken the message; the same file
  refuses to retry a status because the request may have been processed.

Met while modelling, without a run of their own.

Failover and outbound:

* `skipProvider` (`failover.ts:640`) remembers one provider. In a tier zai, aws, zai with
  both accounts blocked, zai is called a second time.
* `earliestReinstatementMs` (`failover.ts:213-228`) looks at every benched label of a
  provider, also of regions and pools this request cannot use, so `Retry-After` may end
  before any usable key is back.
* Flat credentials of different regions share the label "default", and cooldowns match by
  label (`failover.ts:155`), although `docs/VIRTUAL_MODELS.md:82` calls labels metadata. Nor does
  `validateCredentialPool` (`config.ts:89`) refuse two keys of one label: a 429 for one benches both.
* A count_tokens request stopped only by cooldowns is answered as unsupported, not as a rate
  limit (`failover.ts:607`).
* `FailoverOutcome.attempts` counts attempts that were skipped. `failover.ts:725` is marked
  unreachable; it is reached when the last slots of a plan are skipped.
* `docs/VIRTUAL_MODELS.md:119-120` says 404 where the code answers 429.

Conversation and streams:

* `normalize.ts:183-185` wants every tool_result to reference a known tool_use, but only the
  turn directly after a call is pruned: results whose call was dropped from the history, or
  that come a turn late, go out as orphans.
* Reasoning made by one model is replayed to z.ai, and unsigned to Converse, after a switch
  of models. Blocks that only the native route makes (`web_search_tool_result`, for one) stay in
  the history, and the translated wires refuse it with a 400 from then on.
* Two ids of one turn that `sanitizeToolCallId()` maps to one become indistinguishable.
* `keepalive-tee.ts` says that it puts pings between events. It does not know where events
  end: when a chunk ended inside an event, the ping lands there.

Runtime and configuration:

* `server.ts:1702-1703` promises no leaked CatalogManager timer; when `verifyWritable()`
  throws in a reload, the manager that was started goes on refreshing.
* `catalog.ts:706-709, 776-778` promise to keep the last good catalog, while
  `discoverCatalog` swallows source failures and yields an empty one.
* When the keys are with the regions of a provider and it has none of its own, validation
  calls it inactive (`config.ts:1114`). The comment on `inactiveReason` (`config.ts:330-334`)
  says that discovery skips it and routing answers 404. Routing does (`router.ts:104`), but
  discovery does not look at it (`catalog.ts:374`) and lists the models.
* Other models that are listed and cannot be asked for (`Unserved`): Converse models that
  have no profile, those of a provider that is called `virtual`, and those of a host that
  the router refuses where discovery took another URL.
* A save does not keep what it cannot look up: references to unset variables, a value two
  variables share (`config.ts:1594`), the references of a `baseUrl` (`config.ts:1712`). A
  literal that equals a variable's value becomes a reference to it, and a posted value that
  reads `${X}` is one at the next boot.
* A multi-region provider with an empty `modelsUrl` becomes active by a save
  (`config.ts:1103`, `1730`).
* The file is written in place (`config.ts:1808`): a crash leaves it torn and the next boot
  fails. Two pages that save after one another lose the first edit.

Writer, log and capture:

* A job that throws in the worker is answered by an error which never frees its slot
  (`writer.ts:959`); `flush()` and `close()` then wait forever.
* `writer.ts:1056-1064`: `#releaseWaiters` does not release a `flush()` that waits in
  `#drainApplied`. It hangs when `close()` gives up after four deaths.
* Jobs and control requests draw ids from two counters (`writer.ts:755-756`), so the
  error of job 3 answers request 3.
* `writer.ts:905-918`: a replacement worker that cannot be started is never tried again.
* `index-db.ts:1131`: prompt counts are written as absolute values, so a late replay
  moves them back.
* `capture.ts:873` drops queued chunks of the log branch when the client's branch has ended;
  the body stays "full", and the usage is lost when it was among them. `RecordHonest` says that
  this is the only way.

## 8. What is not modelled

* `InlineWriter`, the fallback of a host that cannot start workers at boot; prompt counts.
* Two failures in one batch: the commit fails and the spool cannot be appended to
  (`index-db.ts:1211`). The code reports the batch committed and logs the loss.
* A store that is disabled because its directory cannot be written; the prompt library,
  failover events, reads, export and pruning of the log store.
* Of a request: sampling parameters, tool declarations and choice, output configuration,
  cache points, the sources of images, URLs fetched for them. Of an answer: stop reasons,
  token details, ids.
* The byte level of streams: CRC, chunk boundaries, UTF-8; a chunk with several fields is
  handled as one per field would be. Backpressure.
* Of the configuration: limits, pricing, logging and thinking options, which are validated
  and written back as they are. Merging the model lists of one source.
* SigV4, the string grammar of canonical ids, inbound authentication, log lines: pure, or
  without state another part reads.
* Pages, ZIP export and the command line: static text and I/O in other processes.
* A clock that runs backwards.
