-------------------------------- MODULE Runtime ---------------------------------
(***************************************************************************)
(* The proxy process around its runtime (server.ts: main, buildRuntime,       *)
(* reloadRuntime): it boots from the file, discovers, serves; a posted        *)
(* configuration is validated, built, saved and swapped in, one at a time;    *)
(* crashes and failing writes fall between the steps.                         *)
(***************************************************************************)
EXTENDS Catalog

CONSTANTS
    Torn,        \* the file after a write that was cut
    Starts,      \* what to start from: [env, file, example]
    AwsVar,      \* AWS_ACCESS_KEY_ID and its secret, taken together
    Edits(_, _), \* what the page posts, the p-th time, when it shows this
    MaxPosts     \* bound of the model

ASSUME StartsAssumption ==
    \A s \in Starts :
        /\ s.env \in [Var -> STRING]
        /\ s.file \in {None, Torn} \/ RawConfig(Text, s.file)
        /\ s.example \in {None, Torn} \/ RawConfig(Text, s.example)

VARIABLES
    env,      \* Bun.env
    example,  \* config.example.jsonc, or None
    file,     \* the configuration file: None, Torn, or a raw configuration
    proc,     \* "down", "booting", "verifying", "up"
    runtime,  \* the manager of the runtime that serves, or 0
    posts     \* POST /api/config, in order: [body, at, built]

procVars == <<env, example, file, proc, runtime, posts>>
runtimeVars == <<catalogVars, procVars>>

Aws == env[AwsVar] # ""
Serving == managers[runtime]
Config == Serving.config

------------------------------------------------------------------------------
(* main()                                                                  *)

\* loadConfigResilient(): the file; the example, copied unless that fails; the
\* default.  A file that does not load is fatal: there is no boot.
BootLoads(raw) ==
    /\ raw # Torn /\ Loads(env, raw)
    /\ managers' = <<Started(Load(env, raw), Aws)>>
    /\ proc' = "booting"

Boot ==
    /\ proc = "down"
    /\ \/ file # None /\ BootLoads(file) /\ UNCHANGED <<events, file>>
       \/ /\ file = None /\ example # None
          /\ BootLoads(example)
          /\ \/ file' = example /\ UNCHANGED events
             \/ Happens /\ UNCHANGED file
       \/ file = None /\ example = None /\ BootLoads(DefaultConfig) /\ UNCHANGED <<events, file>>
    /\ UNCHANGED <<edition, out, env, example, runtime, posts>>

BootDiscovered ==
    /\ proc = "booting" /\ FirstBack(managers[1])
    /\ Set(1, Running(managers[1]))
    /\ proc' = "verifying"
    /\ UNCHANGED <<worldVars, env, example, file, runtime, posts>>

BootServes ==
    /\ proc = "verifying"
    /\ proc' = "up" /\ runtime' = 1
    /\ UNCHANGED <<catalogVars, env, example, file, posts>>

\* A crash at any point, the exit of a boot whose log directory is not writable
\* among them; in the middle of a write the file is left torn.
Writing == \E p \in DOMAIN posts : posts[p].at = "saving"
Crash ==
    /\ proc # "down" /\ Happens
    /\ proc' = "down" /\ runtime' = 0 /\ managers' = <<>> /\ posts' = <<>>
    /\ file' \in {file} \cup (IF Writing THEN {Torn} ELSE {})
    /\ UNCHANGED <<edition, out, env, example>>

------------------------------------------------------------------------------
(* reloadRuntime()                                                         *)

Settled(q) == q.at \in {"done", "invalid", "unwritable", "unsaved"}

\* createSerializer().
InTurn(p) == \A q \in 1..(p - 1) : Settled(posts[q])

\* The page posts what it shows, edited.
Post ==
    /\ proc = "up" /\ Len(posts) < MaxPosts
    /\ Happens
    /\ \E body \in Edits(Len(posts) + 1, Shown(Config)) :
          posts' = Append(posts, [body |-> body, at |-> "waiting", built |-> 0])
    /\ UNCHANGED <<edition, out, managers, env, example, file, proc, runtime>>

Step(p, at) == posts' = [posts EXCEPT ![p].at = at]

\* validateConfig(), then CatalogManager.start() discovers.
Build(p) ==
    /\ posts[p].at = "waiting" /\ InTurn(p)
    /\ \/ ~Valid(posts[p].body) /\ Step(p, "invalid") /\ UNCHANGED managers
       \/ /\ Valid(posts[p].body)
          /\ managers' = Append(managers, Started(Validated(posts[p].body), Aws))
          /\ posts' = [posts EXCEPT ![p].at = "building", ![p].built = Len(managers')]
    /\ UNCHANGED <<worldVars, env, example, file, proc, runtime>>

Built(p) ==
    /\ posts[p].at = "building" /\ FirstBack(managers[posts[p].built])
    /\ Set(posts[p].built, Running(managers[posts[p].built]))
    /\ Step(p, "verifying")
    /\ UNCHANGED <<worldVars, env, example, file, proc, runtime>>

\* verifyWritable(): when it throws, nobody stops the manager that was started.
Verify(p) ==
    /\ posts[p].at = "verifying"
    /\ \/ Step(p, "saving") /\ UNCHANGED events
       \/ Step(p, "unwritable") /\ Happens
    /\ UNCHANGED <<edition, out, managers, env, example, file, proc, runtime>>

\* What a save writes.  Mutant: the posted text as it is, references lost.
WrittenLiterally(c) == MapTexts(Literal, Literal, Literal, Literal, Shown(c))
Written(c) == Saved(env, c)

\* saveConfig() writes in place; when it fails the new manager is stopped.
\* Mutant: it is not.
DiscardNothing(i) == UNCHANGED managers
Discard(i) == Set(i, Stopped(managers[i]))
Save(p) ==
    /\ posts[p].at = "saving"
    /\ \/ /\ file' = Written(managers[posts[p].built].config)
          /\ Step(p, "saved")
          /\ UNCHANGED <<managers, events>>
       \/ /\ Happens
          /\ file' \in {file, Torn}
          /\ Discard(posts[p].built)
          /\ Step(p, "unsaved")
    /\ UNCHANGED <<edition, out, env, example, proc, runtime>>

\* The runtime is swapped and the one it replaces is stopped.
Swap(p) ==
    /\ posts[p].at = "saved"
    /\ runtime' = posts[p].built
    /\ Set(runtime, Stopped(managers[runtime]))
    /\ Step(p, "done")
    /\ UNCHANGED <<worldVars, env, example, file, proc>>

Reload(p) == Build(p) \/ Built(p) \/ Verify(p) \/ Save(p) \/ Swap(p)

------------------------------------------------------------------------------

RuntimeInit ==
    /\ CatalogInit
    /\ \E s \in Starts : env = s.env /\ file = s.file /\ example = s.example
    /\ proc = "down" /\ runtime = 0 /\ posts = <<>>

Managers == \E i \in DOMAIN managers : ManagerNext(i, Aws) /\ UNCHANGED procVars

\* What no manager asks does not matter.
Watched == UNION {Asked(managers[i].config, Aws) : i \in DOMAIN managers}

RuntimeNext ==
    \/ Boot \/ BootDiscovered \/ BootServes \/ Crash
    \/ Post \/ \E p \in DOMAIN posts : Reload(p)
    \/ Managers
    \/ Tick /\ UNCHANGED procVars
    \/ \E x \in Watched : Changes(x) /\ UNCHANGED procVars

RuntimeSpec == RuntimeInit /\ [][RuntimeNext]_runtimeVars

\* The process is restarted, its awaits and timers go on, every discovery has its
\* timeout, and the clock runs; posts, crashes and the world are free.
FairRuntimeSpec ==
    /\ RuntimeSpec
    /\ WF_runtimeVars(Boot \/ BootDiscovered \/ BootServes)
    /\ \A p \in 1..MaxPosts : WF_runtimeVars(p \in DOMAIN posts /\ Reload(p))
    /\ \A i \in 1..(MaxPosts + 1) :
          WF_runtimeVars(i \in DOMAIN managers /\ ManagerNext(i, Aws) /\ UNCHANGED procVars)
    /\ WF_runtimeVars(Tick /\ UNCHANGED procVars)

------------------------------------------------------------------------------

\* Exactly the managers that serve or are being built go on refreshing, and the
\* ones a log directory that cannot be written left behind (reloadRuntime(),
\* buildRuntime()): concurrent posts, failed saves and swaps leak no timer.
NoManagerLeaked ==
    \A i \in DOMAIN managers : managers[i].timer = "armed" \/ ~managers[i].stopped =>
        \/ i = runtime \/ proc # "up"
        \/ \E p \in DOMAIN posts :
              posts[p].built = i /\ posts[p].at \notin {"done", "invalid", "unsaved"}

\* The configuration that serves is the one a restart would load (saveConfig(),
\* configFromText()), whatever of it came from the environment, over reloads that
\* fail at any step; but for a key that is made anew and for the reason a provider
\* with regions loses with its empty modelsUrl.
SavedIsRunning ==
    proc = "up" /\ file \notin {None, Torn} /\ (\A p \in DOMAIN posts : posts[p].at # "saved")
    => Agrees(env, file, Config)

\* What the page shows and posts back unedited is the configuration that serves,
\* over all the reloads before: an edit of one field changes no pool, region or
\* tier (serializeConfig(), validateConfig()).
ShownIsRunning ==
    proc = "up" => /\ Valid(Shown(Config))
                   /\ Meaning(Validated(Shown(Config))) = Meaning(Config)

\* One configuration: what serves, what a restart loads and what the page shows
\* are the same, whichever reloads and crashes came before.
OneConfiguration == SavedIsRunning /\ ShownIsRunning

\* A save writes no secret that is meant to live in the environment: where the
\* file had a reference it has one afterwards, unless two variables have the value
\* or the variable is not set (saveConfig(), buildEnvRefMap()).
Secrets(raw) ==
    LET pools(p) == {p.credential, p.workspaceId}
                    \cup IF p.credentials = None THEN {} ELSE {e.credential : e \in Range(p.credentials)}
        endpoints(p) == {p} \cup IF p.regions = None THEN {} ELSE Range(p.regions)
    IN Range(raw.keys) \cup {raw.bedrock}
       \cup UNION {UNION {pools(q) : q \in endpoints(raw.external[n])} : n \in DOMAIN raw.external}
References(raw) == {t.var : t \in Secrets(raw) \ {None}} \ {None}
ReferencesSurvive ==
    [][file \notin {None, Torn} /\ file' \notin {None, Torn} =>
        \A x \in References(file) :
            env[x] # "" /\ Named(env, env[x]) = {x} => x \in References(file')]_runtimeVars

\* A catalog goes back to no older edition of a source, and one that was stopped
\* does not change any more (CatalogManager.refresh()).
CatalogForward ==
    [][\A i \in DOMAIN managers \cap DOMAIN managers' :
        /\ \A x \in Source : managers'[i].models[x] \in {0} \cup managers[i].models[x]..edition[x]
        /\ managers[i].stopped => managers'[i].models = managers[i].models]_runtimeVars

\* The catalog that serves catches up with the world: in the end it lists what the
\* sources offer, however long one was out and however often it was backed off
\* from (scheduleRefresh(), SourceBackoff).
CatalogCatchesUp ==
    <>[](proc = "up" => \A x \in Asked(Config, Aws) :
            Serving.models[x] = IF Reachable(Config, x) THEN edition[x] ELSE 0)

\* What is listed and cannot be asked for: a Converse model that nothing can invoke,
\* the models of a provider that has the name of the tiers, those of a provider with
\* regions that is itself inactive, which discovery does not look at, and those of a
\* host that is refused where the URL it was discovered at is not.
Unserved(c, m) ==
    \/ m.backend = "converse" /\ Invocations(m, c.preference) = <<>>
    \/ m.provider = "virtual"
    \/ /\ m.provider # "bedrock"
       /\ LET p == c.external[m.provider]
          IN IF p.regions = None THEN ProviderOrigin(p).host \in Blocked
             ELSE \/ p.inactive
                  \/ p.regions[m.region].template /\ p.regions[m.region].workspaceId \in Blocked

\* What GET /v1/models lists can be asked for: a discovered model is routed to the
\* host that listed it, with the keys it was discovered with, and under its own name
\* or a profile of it (discoverCatalog(), route()).
ListedModelsRoute ==
    proc = "up" =>
    LET catalog == ModelsOf(Config, Serving.models)
    IN \A m \in {m \in catalog : ~Unserved(Config, m)} :
        LET target == Route(Config, Aws, catalog,
                            [provider |-> m.provider, backend |-> m.backend,
                             prefix |-> m.region, native |-> m.native])
        IN /\ target.ok /\ target.invocation \in {m.native} \cup m.profiles
           /\ IF m.provider = "bedrock" THEN target.origin.host = Config.regions[m.region]
              ELSE target.keys = UsablePool(SourcePool(Config, <<m.provider, m.region>>))

\* A tier that routes goes to its first entry that would be routed by itself, and
\* a Converse entry of another region, or of none, is served by Mantle only when
\* that is asked for and the model is Claude (routeVirtual(), routeConverse()).
TierSound ==
    proc = "up" =>
    LET catalog == ModelsOf(Config, Serving.models)
        listed(id) == \E m \in catalog :
            /\ m.backend = "converse" /\ m.native = id.native
            /\ IF id.prefix = "global" THEN m.region = Config.primary ELSE m.region = id.prefix
    IN \A n \in DOMAIN Config.tiers :
        LET entries == Config.tiers[n]
            target == Route(Config, Aws, catalog,
                            [provider |-> "virtual", backend |-> "anthropic",
                             prefix |-> "global", native |-> n])
            to(i) == Route(Config, Aws, catalog, entries[i])
        IN target.ok => \E i \in DOMAIN entries :
            /\ target = to(i)
            /\ \A j \in 1..(i - 1) : ~to(j).ok
            /\ entries[i].provider = "bedrock" /\ entries[i].backend = "converse" =>
                  listed(entries[i])
                  \/ (target.backend = "mantle" /\ Config.fallback /\ entries[i].native \in Claude)

\* Requests are routed to what is listed, directly and by tier.
RoutesSound == ListedModelsRoute /\ TierSound
==============================================================================
