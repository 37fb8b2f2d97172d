------------------------------- MODULE Catalog -------------------------------
(***************************************************************************)
(* The providers faultkit knows (inject/proxy/providers.go) and its        *)
(* fixtures (inject/proxy/fixtures): how each failure mode looks on each   *)
(* provider that has it, and the response that a fault turns into.         *)
(***************************************************************************)
EXTENDS Scenario, SequencesExt

-----------------------------------------------------------------------------
(* Providers *)

\* A provider without environment variables for its base URL is served by the
\* forward proxy only.
Provider(id, upstream, env, prefix, base) ==
    [id |-> id, upstream |-> upstream, env |-> env, pathPrefix |-> prefix, apiBase |-> base]

ProviderRegistry == <<
    Provider("openai", <<"api", ".", "openai", ".", "com">>,
             {"OPENAI_BASE_URL", "OPENAI_API_BASE"}, <<"/", "__fk", "/", "openai">>, <<"/", "v1">>),
    Provider("anthropic", <<"api", ".", "anthropic", ".", "com">>,
             {"ANTHROPIC_BASE_URL"}, <<"/", "__fk", "/", "anthropic">>, <<>>),
    Provider("bedrock", <<"bedrock-runtime", ".", "*", ".", "amazonaws", ".", "com">>, {}, <<>>, <<>>),
    Provider("pinecone", <<"*", ".", "pinecone", ".", "io">>, {}, <<>>, <<>>),
    Provider("qdrant", <<"*", ".", "cloud", ".", "qdrant", ".", "io">>, {}, <<>>, <<>>) >>

Registered == {ProviderRegistry[i] : i \in DOMAIN ProviderRegistry}

ProviderIDs == {p.id : p \in Registered}

ProviderByID(id) == CHOOSE p \in Registered : p.id = id

ForwardProxyOnly(p) == p.env = {}

-----------------------------------------------------------------------------
(* The fixture catalog *)

\* A status of 0 leaves the upstream's own, a cutoff of 0 its whole stream.
Fixture(path, status, headers, body, cutoff) ==
    [path |-> path, fault |-> [NoFault EXCEPT !.status = status, !.headers = headers,
                                              !.body = body, !.cutoff = cutoff]]

Chat       == <<"/", "v1", "/", "chat", "/", "completions">>
Embeddings == <<"/", "v1", "/", "embeddings">>
Messages   == <<"/", "v1", "/", "messages">>
V1         == <<"/", "v1", "/", "*">>
Model      == <<"/", "model", "/", "*">>
Converse   == <<"/", "model", "/", "*", "/", "converse">>
Invoke     == <<"/", "model", "/", "*", "embed", "*", "/", "invoke">>
Query      == <<"/", "query">>
Points     == <<"/", "collections", "/", "*", "/", "points", "/", "query">>

\* A 200 with an explicit body, the same way on three providers.
BodyModes == {"malformed-json", "max-tokens-truncation", "malformed-tool-use", "empty-response"}

BodyFixtures == [openai    |-> Fixture(Chat, 200, FALSE, TRUE, 0),
                 anthropic |-> Fixture(Messages, 200, FALSE, TRUE, 0),
                 bedrock   |-> Fixture(Converse, 200, FALSE, TRUE, 0)]

Modes == BodyModes \cup
    {"rate-limited", "streaming-cutoff", "overloaded", "embeddings-unavailable",
     "context-length-exceeded", "stream-error", "tool-use-cutoff", "refusal",
     "request-too-large", "model-timeout", "service-unavailable", "stale-results"}

\* The fixtures of a failure mode, by the provider's id.
Catalog == [mode \in Modes |->
    CASE mode \in BodyModes -> BodyFixtures
      [] mode = "rate-limited" -> [openai    |-> Fixture(V1, 429, TRUE, FALSE, 0),
                                   anthropic |-> Fixture(V1, 429, TRUE, FALSE, 0),
                                   bedrock   |-> Fixture(Model, 429, TRUE, FALSE, 0)]
      [] mode = "streaming-cutoff" -> [openai    |-> Fixture(Chat, 0, FALSE, FALSE, 80),
                                       anthropic |-> Fixture(Messages, 0, FALSE, FALSE, 80)]
      [] mode = "overloaded" -> [anthropic |-> Fixture(V1, 529, FALSE, FALSE, 0)]
      [] mode = "embeddings-unavailable" -> [openai  |-> Fixture(Embeddings, 503, FALSE, FALSE, 0),
                                             bedrock |-> Fixture(Invoke, 503, TRUE, FALSE, 0)]
      [] mode = "context-length-exceeded" -> [openai    |-> Fixture(Chat, 400, FALSE, TRUE, 0),
                                              anthropic |-> Fixture(Messages, 400, FALSE, TRUE, 0),
                                              bedrock   |-> Fixture(Converse, 400, TRUE, TRUE, 0)]
      [] mode = "stream-error" -> [anthropic |-> Fixture(Messages, 200, TRUE, TRUE, 0)]
      [] mode = "tool-use-cutoff" -> [anthropic |-> Fixture(Messages, 200, FALSE, TRUE, 0)]
      [] mode = "refusal" -> [anthropic |-> Fixture(Messages, 200, FALSE, TRUE, 0)]
      [] mode = "request-too-large" -> [anthropic |-> Fixture(V1, 413, FALSE, FALSE, 0)]
      [] mode = "model-timeout" -> [bedrock |-> Fixture(Model, 408, TRUE, FALSE, 0)]
      [] mode = "service-unavailable" -> [bedrock |-> Fixture(Model, 503, TRUE, FALSE, 0)]
      [] mode = "stale-results" -> [pinecone |-> Fixture(Query, 200, FALSE, TRUE, 0),
                                    qdrant   |-> Fixture(Points, 200, FALSE, TRUE, 0)]]

KnownMode(mode) == mode \in Modes

\* The ids of the providers that have the mode.
ProvidersWith(mode) == IF KnownMode(mode) THEN DOMAIN Catalog[mode] ELSE {}

-----------------------------------------------------------------------------
(* The response a fault turns into *)

\* A host test that takes the fips endpoints for Bedrock and loses the others.
IsBedrockFipsHost(host) ==
    /\ IsPrefix(<<"bedrock-runtime-fips", ".">>, host)
    /\ IsSuffix(<<".", "amazonaws", ".", "com">>, host)

IsBedrockHost(host) ==
    /\ IsPrefix(<<"bedrock-runtime", ".">>, host)
    /\ IsSuffix(<<".", "amazonaws", ".", "com">>, host)

\* Whose error body a host gets: the first vendor template that takes it.
VendorTemplate(host) ==
    CASE host = <<"api", ".", "openai", ".", "com">>    -> "openai"
      [] host = <<"api", ".", "anthropic", ".", "com">> -> "anthropic"
      [] IsBedrockHost(host)                            -> "bedrock"
      [] OTHER                                          -> "generic"

DefaultStatus(fault) == IF fault.status # 0 THEN fault.status ELSE 200

\* The caller's body verbatim, the vendor's error body, or an empty object.
Build(host, fault) ==
    [status |-> DefaultStatus(fault),
     body   |-> IF fault.body THEN "verbatim"
                ELSE IF DefaultStatus(fault) >= 400 THEN VendorTemplate(host) ELSE "{}"]

=============================================================================
