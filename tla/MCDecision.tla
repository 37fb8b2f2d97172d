----------------------------- MODULE MCDecision -----------------------------
(***************************************************************************)
(* Command lines, scenarios, machines and requests for checking Decision.  *)
(***************************************************************************)
EXTENDS Decision

-----------------------------------------------------------------------------
(* Experiments *)

Exp(name) == [name |-> <<name>>, failure |-> Absent, provider |-> Absent, fault |-> NoFault,
              match |-> NoMatch, probability |-> 5000]

Fixed(name, mode, provider) == [Exp(name) EXCEPT !.failure = mode, !.provider = provider]

Raw(name, status, host, path) ==
    [Exp(name) EXCEPT !.fault.status = status, !.match.host = host, !.match.path = path]

Syscall(name, call, errno, probability) ==
    [Exp(name) EXCEPT !.fault.errno = errno, !.match.syscall = call, !.probability = probability]

Valid == {
    Fixed("limited", "rate-limited", Absent),
    Fixed("limitedA", "rate-limited", "anthropic"),
    Fixed("embeddings", "embeddings-unavailable", Absent),
    Fixed("stale", "stale-results", Absent),
    Fixed("cut", "streaming-cutoff", Absent),
    Raw("general", 500, <<"api", ".", "*", ".", "com">>, <<>>),
    [Raw("never", 503, <<"bedrock-runtime", ".", "*">>, Model) EXCEPT !.probability = 0],
    [Raw("pathOnly", 429, <<>>, V1) EXCEPT !.probability = Certain],
    Syscall("recv", "recvmsg", "ECONNRESET", 1000),
    Syscall("open", "openat", "EACCES", 5) }

\* Accepted by validation, refused by the injector.
Unserved == {
    Fixed("typo", "rate-limitd", Absent),
    Fixed("other", "overloaded", "openai"),
    Fixed("nobody", "overloaded", "nosuch"),
    Syscall("unhooked", "recvmsg", "EACCES", 1000) }

Invalid == {
    [Exp("nameless") EXCEPT !.name = <<>>, !.failure = "rate-limited"],
    [Fixed("likely", "rate-limited", Absent) EXCEPT !.probability = Certain + 1],
    [Fixed("mixed", "rate-limited", Absent) EXCEPT !.match.host = <<"api">>],
    [Raw("provided", 500, <<"api">>, <<>>) EXCEPT !.provider = "openai"],
    Raw("status", 99, <<"api">>, <<>>),
    [Raw("negative", 500, <<"api">>, <<>>) EXCEPT !.fault.cutoff = -1],
    [Raw("errno", 500, <<"api">>, <<>>) EXCEPT !.fault.errno = "EACCES"],
    [Exp("unlevelled") EXCEPT !.fault.errno = "EACCES", !.match.host = <<"api">>],
    Exp("empty") }

Named(exps) == [name |-> <<"lower", "dash", "digit">>, experiments |-> exps]

\* Two of the experiments in either order, or one.
Good == {Named(<<e>>) : e \in Valid} \cup
        {Named(<<p[1], p[2]>>) : p \in {q \in Valid \X Valid : q[1] # q[2]}}

Bad == {Named(<<e>>) : e \in Unserved \cup Invalid} \cup
       {Named(<<>>), [Named(<<Fixed("limited", "rate-limited", Absent)>>) EXCEPT !.name = <<"dash">>]}

-----------------------------------------------------------------------------
(* Command lines and machines *)

Opts(mode, baseURL, provider) ==
    [source |-> "config", found |-> TRUE, target |-> TRUE,
     mode |-> mode, baseURL |-> baseURL, provider |-> provider]

Kernel(major, minor) == [readable |-> TRUE, dotted |-> TRUE, major |-> major, minor |-> minor]

Root == [os |-> "linux", arch |-> "amd64", release |-> Kernel(5, 8), root |-> TRUE, caps |-> {}]

MCMachines == {
    Root,
    [Root EXCEPT !.root = FALSE, !.caps = BPFCaps],
    [Root EXCEPT !.root = FALSE, !.caps = {"CAP_BPF", "CAP_PERFMON"}],
    [Root EXCEPT !.release = Kernel(5, 7)],
    [Root EXCEPT !.release = Kernel(6, -1)],
    [Root EXCEPT !.release.dotted = FALSE],
    [Root EXCEPT !.release.readable = FALSE],
    [Root EXCEPT !.arch = "arm64"],
    [Root EXCEPT !.os = "darwin"] }

-----------------------------------------------------------------------------
(* Requests *)

Request(host, path) == [NoRequest EXCEPT !.host = host, !.path = path]

OpenAI    == <<"api", ".", "openai", ".", "com">>
Anthropic == <<"api", ".", "anthropic", ".", "com">>
Bedrock   == <<"bedrock-runtime", ".", "us-east-1", ".", "amazonaws", ".", "com">>
Embed     == <<"/", "model", "/", "titan", "embed", "v2", "/", "invoke">>

Requests == {
    Request(OpenAI, Chat),
    Request(OpenAI, <<"/", "v1", "/", "embeddings">>),
    [Request(OpenAI, Chat) EXCEPT !.capitals = TRUE, !.dot = TRUE, !.port = TRUE],
    [Request(OpenAI, <<>>) EXCEPT !.connect = TRUE, !.port = TRUE],
    Request(Anthropic, Messages),
    Request(Anthropic, <<"/", "__fk", "/", "openai">>),
    Request(Bedrock, Embed),
    Request(<<"bedrock-runtime-fips", ".", "us-east-1", ".", "amazonaws", ".", "com">>, Embed),
    Request(<<"a", ".", "pinecone", ".", "io">>, <<"/", "query">>),
    Request(<<"example", ".", "org">>, V1) }

Case(opts, file, machine, requests) ==
    [opts |-> opts, file |-> file, machine |-> machine, requests |-> requests]

\* All globs of up to three of two words and the wildcards, and hosts for them.
Globs == UNION {[1 .. n -> {"a", "*", "?"}] : n \in 1 .. 3}
GlobHosts == UNION {[1 .. n -> {"a", "b"}] : n \in 1 .. 3}

MCCases ==
    {Case(Opts("auto", baseURL, provider), file, Root, Requests) :
        baseURL \in BOOLEAN, provider \in {Absent, "openai", "bedrock"}, file \in Good}
    \cup
    {Case(Opts(mode, FALSE, Absent), file, Root, Requests) : mode \in {"proxy", "ebpf"}, file \in Good}
    \cup
    {Case(Opts(mode, baseURL, provider), Named(<<Syscall("recv", "recvmsg", "ECONNRESET", 1000)>>),
          machine, {}) :
        mode \in {"auto", "ebpf", "proxy", "other"}, baseURL \in BOOLEAN,
        provider \in {Absent, "anthropic", "nosuch"}, machine \in MCMachines}
    \cup
    {Case([Opts("auto", FALSE, Absent) EXCEPT !.source = source, !.found = found, !.target = target],
          Named(<<Fixed("limited", "rate-limited", Absent)>>), Root, {}) :
        source \in {"none", "both", "builtin", "config"}, found \in BOOLEAN, target \in BOOLEAN}
    \cup
    {Case(Opts("auto", FALSE, Absent), file, Root, {}) : file \in Bad}
    \cup
    {Case(Opts("proxy", FALSE, Absent), Named(<<Raw("glob", 500, glob, <<>>)>>), Root,
          {Request(host, V1) : host \in GlobHosts}) : glob \in Globs}

=============================================================================
