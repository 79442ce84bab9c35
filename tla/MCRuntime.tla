------------------------------- MODULE MCRuntime --------------------------------
(* Runtime for TLC: a file with Bedrock and a single-endpoint provider, and one *)
(* with a provider of two regions, one without its workspace.                   *)
EXTENDS Runtime, TLC

MCVar == {"INBOUND", "BEDROCK", "ZAI", "WORKSPACE", "AWS"}
Unset == [x \in MCVar |-> ""]
KeyEnv ==
    [Unset EXCEPT !["INBOUND"] = "inbound", !["BEDROCK"] = "bedrockKey", !["ZAI"] = "zaiKey"]
DevEnv == [Unset EXCEPT !["BEDROCK"] = "dev", !["ZAI"] = "zaiKey", !["AWS"] = "yes"]

Key(c, l) == [credential |-> c, label |-> l]
Flat(url) ==
    [type |-> "anthropic", countTokens |-> TRUE, credential |-> None,
     credentials |-> <<Key(Reference("ZAI"), "main"), Key(Literal("spare"), "spare")>>,
     baseUrl |-> Literal(url), template |-> FALSE, workspaceId |-> None,
     modelsUrl |-> Literal(url), regions |-> None]
Region(credential, workspace) ==
    [credential |-> credential, credentials |-> None, modelsUrl |-> Literal("ali"),
     template |-> TRUE, workspaceId |-> workspace]
Regional ==
    [type |-> "openai", countTokens |-> FALSE, credential |-> Reference("ZAI"),
     credentials |-> None, baseUrl |-> None, template |-> FALSE, workspaceId |-> None,
     modelsUrl |-> None,
     regions |-> "sg" :> Region(Literal("sgKey"), Literal("shared"))
              @@ "eu" :> Region(None, Reference("WORKSPACE"))]

Id(provider, backend, prefix, native) ==
    [provider |-> provider, backend |-> backend, prefix |-> prefix, native |-> native]
Tiers ==
    "large" :> <<Id("bedrock", "converse", "eu", "nova"), None,
                 Id("bedrock", "converse", "global", "claude"),
                 Id("bedrock", "converse", "us", "nova"), Id("ali", "openai", "sg", "qwen")>>
    @@ "nested" :> <<Id("virtual", "anthropic", "global", "large")>>

Base == [DefaultConfig EXCEPT !.keys = <<Reference("INBOUND")>>, !.preference = "auto",
                              !.tiers = Tiers]
BedrockFile ==
    [Base EXCEPT !.bedrock = Reference("BEDROCK"), !.fallback = TRUE,
                 !.regions = "us" :> "us-east-1" @@ "eu" :> "eu-west-1",
                 !.external = "zai" :> Flat("zai")]
RegionalFile == [Base EXCEPT !.external = "ali" :> Regional]
Start(e, f, x) == [env |-> e, file |-> f, example |-> x]
MCStarts == {Start(KeyEnv, BedrockFile, None), Start(DevEnv, None, RegionalFile),
             Start(KeyEnv, None, None)}

\* The page: one setting is edited, and then another one, or a mistake is made.
MCEdits(p, shown) ==
    IF p = 1 THEN {[shown EXCEPT !.maxMessages = 7]}
    ELSE {[shown EXCEPT !.fallback = ~@], [shown EXCEPT !.primary = "mars"]}

MCSource == {<<"bedrock", "us">>, <<"zai", "global">>, <<"ali", "sg">>, <<"ali", "eu">>}
MCLists(x, e) ==
    IF x[1] # "bedrock" THEN IF e = 1 THEN {"qwen"} ELSE {"qwen", "qwen2"}
    ELSE [foundation |-> {[id |-> "claude", onDemand |-> FALSE, active |-> e = 1],
                          [id |-> "nova", onDemand |-> e # 1, active |-> TRUE]},
          profiles |-> {[family |-> "us", of |-> "claude", active |-> TRUE]},
          mantle |-> {[id |-> "claude", active |-> TRUE]}]
==============================================================================
