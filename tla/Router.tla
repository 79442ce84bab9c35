--------------------------------- MODULE Router ---------------------------------
(***************************************************************************)
(* From a canonical model id to the target it is sent to (router.ts), under  *)
(* a configuration and the models of a catalog (model/catalog.ts).           *)
(*                                                                           *)
(* An id is a record of its four segments, None one that does not parse.  A   *)
(* route that throws is a record with the reason; an origin is a host family  *)
(* with the value that its template is filled with.                           *)
(***************************************************************************)
EXTENDS ConfigFile

CONSTANTS
    Claude,   \* the native ids that name a Claude model
    Blocked   \* the hosts assertSafeExternalOrigin() refuses

\* An inference profile stands for itself in the region family "global", "us" ...
Model(provider, region, backend, native, onDemand, profiles) ==
    [provider |-> provider, region |-> region, backend |-> backend, native |-> native,
     onDemand |-> onDemand, profiles |-> profiles]

Fails(why) == [ok |-> FALSE, why |-> why]
IsAnthropic(native) == native \in Claude

AwsRegion(c, prefix) == c.regions[IF prefix = "global" THEN c.primary ELSE prefix]
KnownPrefix(c, prefix) == prefix = "global" \/ prefix \in DOMAIN c.regions
RegionKey(c, prefix) == IF prefix = "global" THEN c.primary ELSE prefix

------------------------------------------------------------------------------
(* External providers.                                                     *)

Template(v) == [template |-> TRUE, host |-> v]
BaseUrl(v) == [template |-> FALSE, host |-> v]

\* externalProviderOrigin(), and the origin of a region: without a template of its
\* own it has the base URL of its provider, unguarded.
ProviderOrigin(p) == IF p.template THEN Template(p.workspaceId) ELSE BaseUrl(p.baseUrl)
RegionOrigin(p, r) == IF r.template THEN Template(r.workspaceId) ELSE BaseUrl(p.baseUrl)

\* The pool a region draws on.
DrawsOn(p, r) == IF r.pool = None THEN p.pool ELSE r.pool

ExternalTarget(p, id, origin, pool) ==
    IF UsablePool(pool) = <<>> THEN Fails("no usable credential")
    ELSE [ok |-> TRUE, provider |-> id.provider,
          backend |-> p.type, path |-> IF p.type = "anthropic" THEN "passthrough" ELSE "mantle",
          origin |-> origin, invocation |-> id.native,
          counts |-> p.type = "anthropic" /\ p.countTokens,
          keys |-> UsablePool(pool)]

RouteRegion(p, id) ==
    LET r == p.regions[id.prefix]
    IN IF id.prefix \notin DOMAIN p.regions THEN Fails("no such region")
       ELSE IF r.inactive THEN Fails("region inactive")
       ELSE IF r.template /\ r.workspaceId \in Blocked THEN Fails("blocked host")
       ELSE ExternalTarget(p, id, RegionOrigin(p, r), DrawsOn(p, r))

RouteExternal(c, id) ==
    LET p == c.external[id.provider]
    IN IF id.provider \notin DOMAIN c.external THEN Fails("unsupported provider")
       ELSE IF p.inactive THEN Fails("provider inactive")
       ELSE IF p.regions # None THEN RouteRegion(p, id)
       ELSE IF ProviderOrigin(p).host \in Blocked THEN Fails("blocked host")
       ELSE ExternalTarget(p, id, ProviderOrigin(p), p.pool)

------------------------------------------------------------------------------
(* Bedrock.                                                                *)

BedrockTarget(c, id, backend, path, invocation) ==
    [ok |-> TRUE, provider |-> "bedrock", backend |-> backend, path |-> path,
     origin |-> Template(AwsRegion(c, id.prefix)), invocation |-> invocation,
     counts |-> backend = "mantle" /\ IsAnthropic(id.native), keys |-> <<>>]

RouteMantle(c, id) ==
    IF ~KnownPrefix(c, id.prefix) THEN Fails("unknown prefix")
    ELSE BedrockTarget(c, id, "mantle",
                       IF IsAnthropic(id.native) THEN "passthrough" ELSE "mantle", id.native)

\* Catalog.get().  Mutant: whatever the region.
FoundAnywhere(c, catalog, id) ==
    {m \in catalog : m.backend = "converse" /\ m.native = id.native}
Found(c, catalog, id) ==
    {m \in catalog : /\ m.region = RegionKey(c, id.prefix)
                     /\ m.backend = "converse" /\ m.native = id.native}

\* resolveInvocationId(): the ways to invoke m, in the order of preference.
Invocations(m, preference) ==
    LET family == IF preference = "regional" THEN <<m.region, "global">>
                  ELSE <<"global", m.region>>
    IN Only(family, m.profiles)
       \o (IF m.onDemand THEN <<m.native>> ELSE <<>>)

RouteConverse(c, catalog, id) ==
    LET ways == {Invocations(m, c.preference) : m \in Found(c, catalog, id)} \ {<<>>}
    IN IF ~KnownPrefix(c, id.prefix) THEN Fails("unknown prefix")
       ELSE IF ways # {}
       THEN BedrockTarget(c, id, "converse", "converse", Head(CHOOSE w \in ways : TRUE))
       ELSE IF c.fallback /\ IsAnthropic(id.native) THEN RouteMantle(c, id)
       ELSE Fails("not found or not invocable")

RouteBedrock(c, aws, catalog, id) ==
    IF ~BedrockUsable(c, aws) THEN Fails("bedrock disabled")
    ELSE IF id.backend = "converse" THEN RouteConverse(c, catalog, id)
    ELSE RouteMantle(c, id)

------------------------------------------------------------------------------
(* Tiers.  Their entries are no tiers themselves (ValidatedTiers).          *)

RoutePlain(c, aws, catalog, id) ==
    IF id.provider = "bedrock" THEN RouteBedrock(c, aws, catalog, id) ELSE RouteExternal(c, id)

\* routeCandidates(): the entries that route, in order.
Available(c, aws, catalog, entries) ==
    Only(entries, {id \in Range(entries) : RoutePlain(c, aws, catalog, id).ok})

RouteVirtual(c, aws, catalog, id) ==
    LET available == Available(c, aws, catalog, c.tiers[id.native])
    IN IF id.native \notin DOMAIN c.tiers THEN Fails("unknown tier")
       ELSE IF available = <<>> THEN Fails("no available candidate")
       ELSE RoutePlain(c, aws, catalog, Head(available))

Route(c, aws, catalog, id) ==
    IF id.provider = "virtual" THEN RouteVirtual(c, aws, catalog, id)
    ELSE RoutePlain(c, aws, catalog, id)
==============================================================================
