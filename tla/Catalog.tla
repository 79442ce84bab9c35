-------------------------------- MODULE Catalog ---------------------------------
(***************************************************************************)
(* Discovery and the catalog managers (model/catalog.ts).  A manager starts   *)
(* with one discovery and goes on refreshing on a timer that is set again     *)
(* when a refresh is over; a reload replaces it by another and stops it.      *)
(*                                                                           *)
(* A source is a pair <<provider, region>>.  The world gives each source an   *)
(* edition of its model list and may take it away; all the sources of one      *)
(* discovery answer at one moment between its beginning and its end.          *)
(***************************************************************************)
EXTENDS Router, FiniteSetsExt

CONSTANTS
    Source,        \* the sources there can be
    Lists(_, _),   \* what a source answers with, by its edition
    Revoked,       \* the credentials the endpoints reject with 401 or 403
    CooldownBase, CooldownCap, \* SOURCE_COOLDOWN_BASE_MS, SOURCE_COOLDOWN_CAP_MS
    MaxEvents      \* bound of the model: what comes from outside, all together

ASSUME SourceAssumption == \A x \in Source : x = <<x[1], x[2]>>

VARIABLES
    edition,  \* source -> the edition it would answer with
    out,      \* the sources that cannot be reached
    events,   \* how much came from outside
    managers  \* the managers of this process, in the order they were made

worldVars == <<edition, out, events>>
catalogVars == <<worldVars, managers>>

Happens == events < MaxEvents /\ events' = events + 1

Nothing == [x \in Source |-> 0]
NoFailures == [x \in Source |-> [count |-> 0, wait |-> 0]]

\* A manager: its configuration; what it knows, source by source; its timer,
\* "armed", "awaiting" the refresh it began, or "off"; the discoveries it awaits.
Manager(c) ==
    [config |-> c, models |-> Nothing, stopped |-> FALSE, timer |-> "off",
     flights |-> <<>>, failures |-> NoFailures]

------------------------------------------------------------------------------
(* One discovery.                                                          *)

\* The pool a source is asked with; a provider's own inactiveReason is not looked
\* at when it has regions.
SourcePool(c, x) ==
    LET p == c.external[x[1]]
    IN IF p.regions = None \/ p.regions[x[2]].pool = None THEN p.pool ELSE p.regions[x[2]].pool

\* The sources discoverCatalog() asks.
ActiveRegion(r) == ~r.inactive
ExternalSource(c, x) ==
    /\ x[1] \in DOMAIN c.external
    /\ LET p == c.external[x[1]]
       IN IF p.regions = None THEN x[2] = "global" /\ ~p.inactive
          ELSE x[2] \in DOMAIN p.regions /\ ActiveRegion(p.regions[x[2]])
    /\ UsablePool(SourcePool(c, x)) # <<>>
Asked(c, aws) ==
    {x \in Source : \/ x[1] = "bedrock" /\ x[2] \in DOMAIN c.regions /\ BedrockUsable(c, aws)
                    \/ ExternalSource(c, x)}

\* fetchModelsWithPool(): a rejected key gives way to the next.
Accepted(c, x) ==
    x[1] = "bedrock" \/ \E i \in DOMAIN UsablePool(SourcePool(c, x)) :
        UsablePool(SourcePool(c, x))[i].credential \notin Revoked
SafeUrl(c, x) ==
    x[1] = "bedrock" \/ LET p == c.external[x[1]] IN
        (IF p.regions = None THEN p.modelsUrl ELSE p.regions[x[2]].modelsUrl) \notin Blocked
Reachable(c, x) == x \notin out /\ SafeUrl(c, x) /\ Accepted(c, x)

\* SourceBackoff.  The first discovery of a manager goes without.
Power(n) == 2 ^ (n - 1)
Cooldown(n) == Min({CooldownBase * Power(n), CooldownCap})
Skipped(g) == {x \in Source : x[1] # "bedrock" /\ g.failures[x].wait > 0}
Recorded(f, asked, reached) ==
    [x \in Source |->
        IF x[1] = "bedrock" \/ x \notin asked THEN f[x]
        ELSE IF x \in reached THEN [count |-> 0, wait |-> 0]
        ELSE [count |-> Min({f[x].count + 1, CooldownCap}), wait |-> Cooldown(f[x].count + 1)]]

\* A discovery on its way: the sources it asks and, once they answered, what came.
Flight(asks, kept) == [asks |-> asks, kept |-> kept, back |-> FALSE, got |-> Nothing]

\* The models that are listed under the editions e: buildRegionCatalog() for
\* Bedrock, one model per id for the others.
Foundation(region, l) ==
    {Model("bedrock", region, "converse", f.id, f.onDemand,
           {q.family : q \in {q \in l.profiles : q.active /\ q.of = f.id}}) :
        f \in {f \in l.foundation : f.active}}
Mantle(region, l) ==
    {Model("bedrock", region, "mantle", f.id, TRUE, {}) : f \in {f \in l.mantle : f.active}}
External(c, x, l) ==
    {Model(x[1], x[2], c.external[x[1]].type, id, TRUE, {}) : id \in l}
ModelsOf(c, e) ==
    UNION {LET l == Lists(x, e[x])
           IN IF x[1] = "bedrock" THEN Foundation(x[2], l) \cup Mantle(x[2], l)
              ELSE External(c, x, l) : x \in {x \in Source : e[x] # 0}}

------------------------------------------------------------------------------
(* Manager i.                                                              *)

Set(i, g) == managers' = [managers EXCEPT ![i] = g]

\* refresh(): a refresh under way is shared.
Refreshing(g) == g.flights # <<>>
Begin(g, aws) ==
    IF Refreshing(g) THEN g
    ELSE [g EXCEPT !.flights = Append(@, Flight(Asked(g.config, aws) \ Skipped(g), TRUE))]

\* The callback of the timer.
TimerFires(i, aws) ==
    /\ managers[i].timer = "armed"
    /\ Set(i, [Begin(managers[i], aws) EXCEPT !.timer = "awaiting"])
    /\ UNCHANGED worldVars

\* The sources of discovery k answer.
SourcesAnswer(i, k) ==
    LET g == managers[i]
        d == g.flights[k]
        reached == {x \in d.asks : Reachable(g.config, x)}
    IN /\ ~d.back
       /\ Set(i, [g EXCEPT
            !.flights[k] = [d EXCEPT !.back = TRUE,
                !.got = [x \in Source |-> IF x \in reached THEN edition[x] ELSE 0]],
            !.failures = IF d.kept /\ ~g.stopped THEN Recorded(@, d.asks, reached) ELSE @])
       /\ UNCHANGED worldVars

\* Mutant: a manager that was stopped takes the result all the same.
TakesAlways(g) == TRUE
Takes(g) == ~g.stopped

\* scheduleRefresh(), from start() and from the finally of the timer's refresh.
\* Mutant: only the first time.
RearmNever(g) == IF g.timer = "awaiting" THEN [g EXCEPT !.timer = "off"] ELSE g
Rearm(g) ==
    IF g.timer = "awaiting"
    THEN [g EXCEPT !.timer = IF g.stopped THEN "off" ELSE "armed"] ELSE g

Without(s, k) == SubSeq(s, 1, k - 1) \o SubSeq(s, k + 1, Len(s))

\* A discovery is over: its result is taken, and the timer that awaits it goes on.
RefreshEnds(i, k) ==
    LET g == managers[i]
        d == g.flights[k]
    IN /\ d.kept /\ d.back
       /\ Set(i, Rearm([g EXCEPT !.models = IF Takes(g) THEN d.got ELSE @,
                                 !.flights = Without(@, k)]))
       /\ UNCHANGED worldVars

\* CatalogManager.start(): a first discovery, and then the timer.
Started(c, aws) == [Manager(c) EXCEPT !.flights = <<Flight(Asked(c, aws), FALSE)>>]
FirstBack(g) == g.flights # <<>> /\ ~g.flights[1].kept /\ g.flights[1].back
Running(g) == [g EXCEPT !.models = g.flights[1].got, !.flights = <<>>, !.timer = "armed"]

\* stop(): a timer that awaits its refresh has nothing left to clear.  The backoff
\* is not read any more and forgotten here.
Stopped(g) ==
    [g EXCEPT !.stopped = TRUE, !.failures = NoFailures,
              !.timer = IF @ = "armed" THEN "off" ELSE @]

\* A source that failed waits until the clock has gone on.
Waited(f) == [f EXCEPT !.wait = IF @ > 0 THEN @ - 1 ELSE 0]
Tick ==
    /\ \E i \in DOMAIN managers : Skipped(managers[i]) # {}
    /\ managers' = [i \in DOMAIN managers |-> [managers[i] EXCEPT
            !.failures = [x \in Source |-> Waited(@[x])]]]
    /\ UNCHANGED worldVars

\* The world moves on: a new edition, an outage, the end of one.
Changes(x) ==
    /\ Happens
    /\ \/ edition' = [edition EXCEPT ![x] = @ + 1] /\ UNCHANGED out
       \/ out' = out \cup {x} /\ x \notin out /\ UNCHANGED edition
       \/ out' = out \ {x} /\ x \in out /\ UNCHANGED edition
    /\ UNCHANGED managers

CatalogInit ==
    /\ edition = [x \in Source |-> 1]
    /\ out = {}
    /\ events = 0
    /\ managers = <<>>

ManagerNext(i, aws) ==
    \/ TimerFires(i, aws)
    \/ \E k \in DOMAIN managers[i].flights : SourcesAnswer(i, k) \/ RefreshEnds(i, k)
==============================================================================
