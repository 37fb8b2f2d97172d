------------------------------ MODULE Matching ------------------------------
(***************************************************************************)
(* How a request finds its experiment: globs and the first match           *)
(* (inject/proxy/matcher.go), failure modes expanded into experiments      *)
(* (expand.go), and the routes of base-URL mode (providers.go).            *)
(***************************************************************************)
EXTENDS Catalog

-----------------------------------------------------------------------------
(* Globs *)

\* from[i]: the places in s from which on it matches the pattern from i on.
GlobMatch(pattern, s) ==
    LET from[i \in 1 .. Len(pattern) + 1] ==
          IF i > Len(pattern) THEN {Len(s) + 1}
          ELSE IF pattern[i] = "*"
               THEN {j \in 1 .. Len(s) + 1 : \E k \in from[i + 1] : j <= k}
               ELSE {j \in 1 .. Len(s) : pattern[i] \in {"?", s[j]} /\ j + 1 \in from[i + 1]}
    IN  1 \in from[1]

\* A host as it stands in a request may have capitals, one trailing dot and a
\* port; Lower knows the capitals in use.
Lower(word) == IF word = "OPENAI" THEN "openai" ELSE word

StripPort(host) ==
    IF Len(host) >= 2 /\ host[Len(host) - 1] = ":" THEN SubSeq(host, 1, Len(host) - 2) ELSE host

StripDot(host) == IF host # <<>> /\ Last(host) = "." THEN Front(host) ELSE host

NormalizeHost(host) ==
    LET bare == StripDot(StripPort(host)) IN [i \in DOMAIN bare |-> Lower(bare[i])]

-----------------------------------------------------------------------------
(* The matcher *)

\* Experiments for the proxy, by their place: the others do not apply to its
\* traffic.
HTTPExperiments(exps) == {i \in DOMAIN exps : MatchIsHTTP(exps[i].match)}

Fits(exp, host, path) ==
    /\ GlobMatch(exp.match.host, host)
    /\ exp.match.path # <<>> => GlobMatch(exp.match.path, path)

Fitting(exps, host, path) == {i \in HTTPExperiments(exps) : Fits(exps[i], NormalizeHost(host), path)}

\* The last experiment that fits instead of the first.
MatchLastHostPath(exps, host, path) ==
    LET fitting == Fitting(exps, host, path)
    IN  IF fitting = {} THEN <<>> ELSE <<exps[Max(fitting)]>>

\* The first experiment that fits, in a sequence that is empty if none does.
MatchHostPath(exps, host, path) ==
    LET fitting == Fitting(exps, host, path)
    IN  IF fitting = {} THEN <<>> ELSE <<exps[Min(fitting)]>>

\* The CONNECT that opens a tunnel is never matched.
MatchRequest(exps, request) ==
    IF request.connect THEN <<>> ELSE MatchHostPath(exps, request.host, request.path)

-----------------------------------------------------------------------------
(* Expansion of failure modes *)

InScope(p, mode, scope) == (scope = Absent \/ p.id = scope) /\ p.id \in ProvidersWith(mode)

\* Providers in the order of the registry; those outside the scope are skipped.
ProvidersForMode(mode, scope) ==
    FlattenSeq([i \in DOMAIN ProviderRegistry |->
        IF InScope(ProviderRegistry[i], mode, scope) THEN <<ProviderRegistry[i]>> ELSE <<>>])

\* --provider wins over the provider the experiment names.
ScopeOverridden(exp, providerScope) == IF providerScope # Absent THEN providerScope ELSE exp.provider

\* The provider an experiment names wins over --provider.
Scope(exp, providerScope) == IF exp.provider # Absent THEN exp.provider ELSE providerScope

\* An unknown mode, an unknown provider, or no fixture of the one on the other.
Expandable(exp, providerScope) ==
    IsFixtureDriven(exp) =>
        /\ KnownMode(exp.failure)
        /\ Scope(exp, providerScope) \in ProviderIDs \cup {Absent}
        /\ ProvidersForMode(exp.failure, Scope(exp, providerScope)) # <<>>

\* A realized experiment that still names its failure mode.
RealizeKeepingMode(exp, p) ==
    LET fixture == Catalog[exp.failure][p.id]
    IN  [exp EXCEPT !.name = exp.name \o <<p.id>>, !.fault = fixture.fault,
                    !.match = [NoMatch EXCEPT !.host = p.upstream, !.path = fixture.path]]

Realize(exp, p) ==
    LET fixture == Catalog[exp.failure][p.id]
    IN  [exp EXCEPT !.name = exp.name \o <<p.id>>, !.failure = Absent, !.provider = Absent,
                    !.fault = fixture.fault,
                    !.match = [NoMatch EXCEPT !.host = p.upstream, !.path = fixture.path]]

ExpandOne(exp, providerScope) ==
    IF ~IsFixtureDriven(exp) THEN <<exp>>
    ELSE LET providers == ProvidersForMode(exp.failure, Scope(exp, providerScope))
         IN  [i \in DOMAIN providers |-> Realize(exp, providers[i])]

\* Expanded scenarios are flat lists in the order of the YAML.
ExpandScenario(exps, providerScope) ==
    FlattenSeq([i \in DOMAIN exps |-> ExpandOne(exps[i], providerScope)])

-----------------------------------------------------------------------------
(* The routes of base-URL mode *)

\* A base URL that lacks the API base path the SDK builds on.
BaseURLBare(p) == p.pathPrefix

\* The path of the URL an SDK is pointed at, to which it appends its own.
BaseURL(p) == p.pathPrefix \o p.apiBase

\* The provider whose prefix a path has and the path behind it; no two
\* prefixes begin with one another, so there is at most one.
Routes(path) ==
    {[provider |-> p,
      rest |-> IF path = p.pathPrefix THEN <<"/">>
               ELSE SubSeq(path, Len(p.pathPrefix) + 1, Len(path))] :
        p \in {q \in Registered :
                  /\ ~ForwardProxyOnly(q)
                  /\ path = q.pathPrefix \/ IsPrefix(q.pathPrefix \o <<"/">>, path)}}

ScenarioHTTPHosts(exps) ==
    {exps[i].match.host : i \in {j \in DOMAIN exps : exps[j].match.host # <<>>}}

\* Providers whose SDK is pointed at faultkit, though they have no variable.
ProvidersForAnyHost(globs) ==
    {p \in Registered : \E glob \in globs : GlobMatch(glob, p.upstream)}

ProvidersForHostGlobs(globs) ==
    {p \in Registered : ~ForwardProxyOnly(p) /\ \E glob \in globs : GlobMatch(glob, p.upstream)}

=============================================================================
