------------------------------- MODULE ConfigFile -------------------------------
(***************************************************************************)
(* The configuration (config.ts): what the file says, what validation makes *)
(* of it under an environment, what GET /api/config shows of a running one   *)
(* and what a save writes back.                                              *)
(*                                                                           *)
(* A raw configuration is a record.  In the file its strings are texts, a     *)
(* literal or a reference ${VAR:-default}; once interpolated, or posted by    *)
(* the page, they are values.  A URL is known by the one value it embeds, a   *)
(* host template by whether it is there: it has the placeholder workspaceId.  *)
(***************************************************************************)
EXTENDS Integers, Lists

CONSTANTS
    None,         \* an absent field
    Var,          \* the names of environment variables
    Ephemeral,    \* a key made by generateEphemeralInboundKey()
    InboundVar,   \* PROXY_INBOUND_KEY
    Placeholder,  \* the credentials that hold REPLACE_ME
    DevSentinel,  \* the Bedrock credentials for development mode
    Long,         \* the values of eight characters and more
    Insecure,     \* the URLs that are not https
    DefaultAttempts, DefaultLimit, DefaultRetention

ASSUME ConfigAssumption == InboundVar \in Var
ASSUME NoneAssumption == None \notin Var \cup STRING /\ "" \in STRING
ASSUME DefaultsAssumption ==
    DefaultAttempts \in 1..16 /\ DefaultLimit \in Nat \ {0} /\ None \notin {DefaultAttempts, DefaultLimit}

Literal(v) == [var |-> None, text |-> v]
Reference(x) == [var |-> x, text |-> ""]

------------------------------------------------------------------------------
(* The Raw interfaces: how a raw configuration is made up, its credentials in T. *)

Text == [var : Var \cup {None}, text : STRING]

Fields(r, names) == r = [f \in names |-> r[f]]
IsMap(f) == f = [x \in DOMAIN f |-> f[x]]

RawPool(T, p) ==
    /\ p.credential \in T \cup {None}
    /\ p.credentials # None =>
          /\ IsSeq(p.credentials)
          /\ \A i \in DOMAIN p.credentials :
                /\ Fields(p.credentials[i], {"credential", "label"})
                /\ p.credentials[i].credential \in T
RawRegion(T, r) ==
    /\ Fields(r, {"credential", "credentials", "modelsUrl", "template", "workspaceId"})
    /\ RawPool(T, r)
RawProvider(T, p) ==
    /\ Fields(p, {"type", "countTokens", "credential", "credentials", "baseUrl", "template",
                  "workspaceId", "modelsUrl", "regions"})
    /\ RawPool(T, p)
    /\ p.regions # None =>
          IsMap(p.regions) /\ \A k \in DOMAIN p.regions : RawRegion(T, p.regions[k])
RawConfig(T, raw) ==
    /\ Fields(raw, {"keys", "primary", "preference", "fallback", "regions", "bedrock", "external",
                    "tiers", "refreshMinutes", "maxFailoverAttempts", "maxMessages", "retentionDays"})
    /\ IsSeq(raw.keys)
    /\ IsMap(raw.external) /\ \A n \in DOMAIN raw.external :
                                 n # "bedrock" /\ RawProvider(T, raw.external[n])
    /\ IsMap(raw.tiers) /\ \A n \in DOMAIN raw.tiers : IsSeq(raw.tiers[n])

------------------------------------------------------------------------------
(* Interpolation and validation.                                           *)

\* interpolateEnv(): an unset or empty variable leaves the default, or nothing.
Interpolate(env, t) == IF t.var # None /\ env[t.var] # "" THEN env[t.var] ELSE t.text

Unless(F(_), x) == IF x = None THEN None ELSE F(x)

\* A pool with F applied to its credentials.
MapPool(F(_), pool) ==
    [i \in DOMAIN pool |-> [pool[i] EXCEPT !.credential = F(pool[i].credential)]]

\* A raw provider or region with F applied to its credentials and its workspace
\* and E to its discovery URL.
MapEndpoint(F(_), E(_), p) ==
    [p EXCEPT !.credential = Unless(F, p.credential),
              !.credentials = IF p.credentials = None THEN None ELSE MapPool(F, p.credentials),
              !.workspaceId = Unless(F, p.workspaceId),
              !.modelsUrl = Unless(E, p.modelsUrl)]
MapProvider(F(_), E(_), B(_), p) ==
    [MapEndpoint(F, E, p) EXCEPT
        !.baseUrl = Unless(B, p.baseUrl),
        !.regions = IF p.regions = None THEN None
                    ELSE [k \in DOMAIN p.regions |-> MapEndpoint(F, E, p.regions[k])]]

\* A raw configuration with K applied to its keys, F to its credentials and
\* workspaces, E to its discovery URLs, and B to its other texts.
MapTexts(K(_), F(_), E(_), B(_), raw) ==
    [raw EXCEPT
        !.keys = [i \in DOMAIN raw.keys |-> K(raw.keys[i])],
        !.bedrock = Unless(F, raw.bedrock),
        !.external = [n \in DOMAIN raw.external |-> MapProvider(F, E, B, raw.external[n])]]

Parsed(env, raw) ==
    LET value(t) == Interpolate(env, t) IN MapTexts(value, value, value, value, raw)

------------------------------------------------------------------------------
(* validateConfig(): Valid says whether it returns, Validated what.        *)

ASSUME ModesDisjoint == Placeholder \cap DevSentinel = {}

\* credentialState(), isCredentialSet(), and the usable part of a pool.
IsCredentialSet(c) == c # "" /\ c \notin Placeholder
UsablePool(pool) == Only(pool, {e \in Range(pool) : IsCredentialSet(e.credential)})

\* classifyBedrock(): development mode needs AWS credentials in the environment.
BedrockUsable(c, aws) ==
    c.bedrock # None /\ IsCredentialSet(c.bedrock) /\ (c.bedrock \in DevSentinel => aws)

\* validateCredentialPool(), and the flat form.
Default == "default"
PoolOf(p) ==
    IF p.credentials # None
    THEN Only(p.credentials, {e \in Range(p.credentials) : e.credential # ""})
    ELSE IF p.credential \in {None, ""} THEN <<>>
    ELSE <<[credential |-> p.credential, label |-> Default]>>

Secure(url) == url # None /\ url \notin Insecure

ValidRegion(r) == Secure(r.modelsUrl) /\ (r.template => r.workspaceId # None)

\* A region's pool: its own, or None for the provider's.
RegionPool(r) == IF r.credentials = None /\ r.credential = None THEN None ELSE PoolOf(r)

ValidatedRegion(r) ==
    [modelsUrl |-> r.modelsUrl, template |-> r.template, workspaceId |-> r.workspaceId,
     pool |-> RegionPool(r),
     inactive |-> \/ r.modelsUrl = ""
                  \/ r.template /\ r.workspaceId = ""
                  \/ RegionPool(r) = <<>>]

ValidProvider(p) ==
    /\ p.type \in {"anthropic", "openai"}
    /\ p.regions # None => \A k \in DOMAIN p.regions : ValidRegion(p.regions[k])
    /\ p.template => p.workspaceId # None
    /\ ~p.template /\ (p.baseUrl # None \/ p.regions = None) => Secure(p.baseUrl)
    /\ p.modelsUrl # None \/ p.regions = None => Secure(p.modelsUrl)

OrEmpty(x) == IF x = None THEN "" ELSE x

ValidatedProvider(p) ==
    [type |-> p.type, pool |-> PoolOf(p), countTokens |-> p.countTokens,
     baseUrl |-> OrEmpty(p.baseUrl), template |-> p.template,
     workspaceId |-> p.workspaceId, modelsUrl |-> OrEmpty(p.modelsUrl),
     regions |-> IF p.regions = None THEN None
                 ELSE [k \in DOMAIN p.regions |-> ValidatedRegion(p.regions[k])],
     inactive |-> \/ p.template /\ p.workspaceId = ""
                  \/ ~p.template /\ p.regions = None /\ p.baseUrl = ""
                  \/ p.modelsUrl = ""
                  \/ PoolOf(p) = <<>>]

\* validateInboundAuth(): empty and ephemeral keys go, and one is made when none
\* is left.
ValidatedKeys(keys) ==
    LET kept == Only(keys, Range(keys) \ {"", Ephemeral})
    IN IF kept = <<>> THEN <<Ephemeral>> ELSE kept

\* validateVirtualModels(): what parses and is no tier itself stays, in order, and
\* a tier with nothing left goes.
Backends == {"converse", "mantle", "anthropic", "openai"}
Parses(id) == id # None /\ id.backend \in Backends
KeptEntries(entries) ==
    Only(entries, {id \in Range(entries) : Parses(id) /\ id.provider # "virtual"})
ValidatedTiers(tiers) ==
    [n \in {n \in DOMAIN tiers : KeptEntries(tiers[n]) # <<>>} |-> KeptEntries(tiers[n])]

Within(n, low, high) == n # None /\ n >= low /\ n <= high

Valid(raw) ==
    /\ DOMAIN raw.regions \subseteq {"us", "eu"} /\ raw.primary \in DOMAIN raw.regions
    /\ raw.preference \in {"global", "regional", "auto"}
    /\ Within(raw.refreshMinutes, 1, 1440)
    /\ raw.maxFailoverAttempts # None => Within(raw.maxFailoverAttempts, 1, 16)
    /\ raw.maxMessages # None => raw.maxMessages > 0
    /\ \A n \in DOMAIN raw.external : ValidProvider(raw.external[n])

Validated(raw) ==
    [keys |-> ValidatedKeys(raw.keys), primary |-> raw.primary,
     preference |-> raw.preference, fallback |-> raw.fallback, regions |-> raw.regions,
     bedrock |-> raw.bedrock,
     external |-> [n \in DOMAIN raw.external |-> ValidatedProvider(raw.external[n])],
     tiers |-> ValidatedTiers(raw.tiers),
     refreshMinutes |-> raw.refreshMinutes,
     maxFailoverAttempts |->
        IF raw.maxFailoverAttempts = None THEN DefaultAttempts ELSE raw.maxFailoverAttempts,
     maxMessages |-> IF raw.maxMessages = None THEN DefaultLimit ELSE raw.maxMessages,
     \* validateLogging(): a value out of range falls back, it is no error
     retentionDays |->
        IF raw.retentionDays # None /\ raw.retentionDays >= 0 THEN raw.retentionDays
        ELSE DefaultRetention]

Loads(env, raw) == Valid(Parsed(env, raw))
Load(env, raw) == Validated(Parsed(env, raw))

\* The file is not there: DEFAULT_CONFIG_RAW.
DefaultConfig ==
    [keys |-> <<>>, primary |-> "us", preference |-> "global", fallback |-> FALSE,
     regions |-> [k \in {"us"} |-> "us-east-1"], bedrock |-> None, external |-> <<>>,
     tiers |-> <<>>, refreshMinutes |-> 60, maxFailoverAttempts |-> None,
     maxMessages |-> None, retentionDays |-> None]

------------------------------------------------------------------------------
(* serializeConfig(): Shown is the form of GET /api/config, Saved that of     *)
(* the file.                                                                  *)

\* serializePool()
FlatPool(pool) == Len(pool) = 0 \/ (Len(pool) = 1 /\ pool[1].label \in {None, Default})
FlatCredential(pool) == IF pool = <<>> THEN "" ELSE pool[1].credential

\* Mutant: a region shows the pool it draws on.
ShownRegionFlat(r) ==
    [credential |-> IF r.pool = None THEN "" ELSE FlatCredential(r.pool),
     credentials |-> None, modelsUrl |-> r.modelsUrl,
     template |-> r.template, workspaceId |-> r.workspaceId]
ShownRegion(r) ==
    [credential |-> IF r.pool # None /\ FlatPool(r.pool) THEN FlatCredential(r.pool) ELSE None,
     credentials |-> IF r.pool = None \/ FlatPool(r.pool) THEN None ELSE r.pool,
     modelsUrl |-> r.modelsUrl, template |-> r.template, workspaceId |-> r.workspaceId]

\* A field that resolved empty is shown when validation asks for it.
UnlessRegional(p, url) == IF url # "" \/ p.regions = None THEN url ELSE None

ShownProvider(p) ==
    [type |-> p.type, countTokens |-> p.countTokens,
     credential |-> IF FlatPool(p.pool) THEN FlatCredential(p.pool) ELSE None,
     credentials |-> IF FlatPool(p.pool) THEN None ELSE p.pool,
     baseUrl |-> UnlessRegional(p, p.baseUrl), template |-> p.template,
     workspaceId |-> p.workspaceId, modelsUrl |-> UnlessRegional(p, p.modelsUrl),
     regions |-> IF p.regions = None THEN None
                 ELSE [k \in DOMAIN p.regions |-> ShownRegion(p.regions[k])]]

Shown(c) == [c EXCEPT !.external = [n \in DOMAIN @ |-> ShownProvider(@[n])]]

\* buildEnvRefMap(), restoreExact(), restoreEmbedded(): a value that one variable
\* alone has is written as that variable.
Named(env, v) == {x \in Var : env[x] = v}
Restore(env, v) ==
    IF v # "" /\ \E x \in Var : Named(env, v) = {x}
    THEN Reference(CHOOSE x \in Var : Named(env, v) = {x})
    ELSE Literal(v)
RestoreKey(env, k) == IF k = Ephemeral THEN Reference(InboundVar) ELSE Restore(env, k)
RestoreEmbedded(env, v) == IF v \in Long THEN Restore(env, v) ELSE Literal(v)

Saved(env, c) ==
    LET key(k) == RestoreKey(env, k)
        exact(v) == Restore(env, v)
        embed(v) == RestoreEmbedded(env, v)
    IN MapTexts(key, exact, embed, Literal, Shown(c))

------------------------------------------------------------------------------
(* What a configuration says, for the properties: not the label of a pool of   *)
(* one, and not whether a provider is active that has regions and no URL of    *)
(* its own.                                                                    *)

MeantPool(s) ==
    IF FlatPool(s) /\ s # <<>> THEN <<[s[1] EXCEPT !.label = Default]>> ELSE s
MeantRegion(r) == [r EXCEPT !.pool = IF @ = None THEN None ELSE MeantPool(@)]
MeantRegions(f) == IF f = None THEN None ELSE [k \in DOMAIN f |-> MeantRegion(f[k])]
MeantProvider(p) ==
    [p EXCEPT !.pool = MeantPool(@),
              !.inactive = IF p.regions # None /\ p.modelsUrl = "" THEN None ELSE @,
              !.regions = MeantRegions(@)]
Meaning(c) == [c EXCEPT !.external = [n \in DOMAIN @ |-> MeantProvider(@[n])]]

\* A configuration and the file that it is loaded from again: the file loads, and
\* says what the configuration says, but for a key that is made anew.
Agrees(e, f, c) ==
    /\ Loads(e, f)
    /\ LET loaded == Load(e, f)
           keys == IF c.keys = <<Ephemeral>> THEN c.keys ELSE loaded.keys
       IN Meaning([loaded EXCEPT !.keys = keys]) = Meaning(c)
==============================================================================
