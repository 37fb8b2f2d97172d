--------------------------- MODULE DecisionProofs ---------------------------
(***************************************************************************)
(* Theorems about Decision, for any set of cases: any command lines,       *)
(* scenarios, machines and requests.                                       *)
(***************************************************************************)
EXTENDS MatchingProofs

\* If a command line is refused as the user's mistake on one machine, it is on
\* every other: pickInjector asks the machine last.
LEMMA UsageOnEveryMachine ==
    ASSUME NEW file, NEW opts, NEW m1, NEW m2, PickInjector(file, opts, m1) = "usage"
    PROVE  PickInjector(file, opts, m2) = "usage"
<1>1. PickEbpf(opts, m1) = "usage" => PickEbpf(opts, m2) = "usage"
  BY DEF PickEbpf
<1>2. CASE opts.provider \notin ProviderIDs \cup {Absent}
  BY <1>2 DEF PickInjector
<1>3. CASE opts.provider \in ProviderIDs \cup {Absent} /\ opts.mode = "auto"
  BY <1>1, <1>3 DEF PickInjector
<1>4. CASE opts.provider \in ProviderIDs \cup {Absent} /\ opts.mode = "proxy"
  BY <1>4 DEF PickInjector
<1>5. CASE opts.provider \in ProviderIDs \cup {Absent} /\ opts.mode = "ebpf"
  BY <1>1, <1>5 DEF PickInjector
<1>6. CASE opts.provider \in ProviderIDs \cup {Absent} /\ opts.mode \notin {"auto", "proxy", "ebpf"}
  BY <1>6 DEF PickInjector
<1> QED  BY <1>2, <1>3, <1>4, <1>5, <1>6

\* Where pickInjector refuses the command line, it does so on every machine.
LEMMA UsageIsMachineIndependent ==
    ASSUME case \in Cases
    PROVE  PickInjector(case.file, case.opts, case.machine) = "usage" <=>
              \A machine \in Machines : PickInjector(case.file, case.opts, machine) = "usage"
<1>1. case.machine \in Machines  BY DEF Machines
<1> QED  BY <1>1, UsageOnEveryMachine

-----------------------------------------------------------------------------
(* What is known of the case *)

\* What is known of the case stays so, whatever happens next.
LEMMA KnownIsInductive == Known /\ [Next]_vars => Known'
<1> SUFFICES ASSUME Known, [Next]_vars PROVE Known'
  OBVIOUS
<1> USE DEF Running, ExitUsage
<1>1. case \in Cases  BY DEF Known
<1>2. CASE LoadScenario
  BY <1>2 DEF LoadScenario, Known
<1>3. CASE LoadFails
  <2>1. case' = case /\ stage' = "exited" /\ exit' = ExitUsage
    BY <1>3 DEF LoadFails, EndsWith, ExitCode
  <2>2. ~(ScenarioLoads(case'.opts, case'.file) /\ case'.opts.target)
    BY <1>3, <2>1 DEF LoadFails
  <2>3. UsageIsTheUsers'  BY <2>1, <2>2 DEF UsageIsTheUsers
  <2> QED  BY <1>1, <2>1, <2>3 DEF Known
<1>4. CASE Pick
  <2> DEFINE picked == PickInjector(case.file, case.opts, case.machine)
  <2>1. ScenarioLoads(case.opts, case.file) /\ case.opts.target
    BY <1>4 DEF Known, Pick
  <2>2. CASE picked \in {"usage", "internal"}
    <3>1. case' = case /\ stage' = "exited" /\ exit' = ExitCode(picked)
      BY <1>4, <2>2 DEF Pick, EndsWith
    <3>2. exit' = ExitUsage <=> picked = "usage"
      BY <2>2, <3>1 DEF ExitCode, ExitInternalError
    <3>3. exit' = ExitUsage <=>
             \A machine \in Machines : PickInjector(case.file, case.opts, machine) = "usage"
      BY <1>1, <3>2, UsageIsMachineIndependent
    <3>4. UsageIsTheUsers'  BY <2>1, <3>1, <3>3 DEF UsageIsTheUsers
    <3> QED  BY <1>1, <3>1, <3>4 DEF Known
  <2>3. CASE picked \notin {"usage", "internal"}
    <3>1. case' = case /\ stage' = "start" /\ kind' = picked /\ exit' = exit /\ exit = Running
      BY <1>4, <2>3 DEF Pick, Known
    <3> QED  BY <1>1, <2>1, <2>3, <3>1 DEF Known
  <2> QED  BY <2>2, <2>3
<1>5. CASE StartForward \/ StartBaseURL \/ StartEbpf
  <2>1. stage = "start" /\ stage' = "serving" /\ UNCHANGED <<case, kind, exit>>
    BY <1>5 DEF StartForward, StartBaseURL, StartEbpf, Starts
  <2> QED  BY <2>1 DEF Known
<1>6. CASE StartFails
  <2>1. /\ stage = "start" /\ stage' = "exited" /\ case' = case
        /\ exit' = ExitCode("internal")
    BY <1>6 DEF StartFails, EndsWith
  <2>2. exit' # ExitUsage  BY <2>1 DEF ExitCode, ExitInternalError
  <2>3. /\ ScenarioLoads(case.opts, case.file) /\ case.opts.target
        /\ PickInjector(case.file, case.opts, case.machine) # "usage"
    BY <2>1 DEF Known
  <2>4. UsageIsTheUsers'
    BY <1>1, <2>1, <2>2, <2>3, UsageIsMachineIndependent DEF UsageIsTheUsers
  <2> QED  BY <1>1, <2>1, <2>4 DEF Known
<1>7. CASE UNCHANGED selectionVars
  BY <1>7 DEF Known, UsageIsTheUsers, selectionVars
<1>8. ASSUME NEW request, ForwardRequest(request) \/ OriginRequest(request)
                             \/ StrayRequest(request)
      PROVE  UNCHANGED selectionVars
  BY <1>8 DEF ForwardRequest, OriginRequest, StrayRequest
<1>9. ASSUME NEW call, SystemCall(call)
      PROVE  UNCHANGED selectionVars
  BY <1>9 DEF SystemCall
<1> QED
  BY <1>2, <1>3, <1>4, <1>5, <1>6, <1>7, <1>8, <1>9 DEF Next, Select, vars

\* For any set of command lines, scenarios and machines: exit code 4 says that
\* the user has to change something, and says it whenever that is so.
THEOREM UsageIsAlwaysTheUsers == Spec => []UsageIsTheUsers
<1>1. Init => Known
  BY DEF Init, SelectionInit, Known, Running
<1>2. Known /\ [Next]_vars => Known'  BY KnownIsInductive
<1>3. Known => UsageIsTheUsers
  BY DEF Known, UsageIsTheUsers
<1> QED  BY <1>1, <1>2, <1>3, PTL DEF Spec

-----------------------------------------------------------------------------
(* What an injector is started with *)

\* What is known of the injector at each stage, and of the replies: an injector
\* that runs still has what it was started with, and one that does not has not
\* replied.
Started ==
    /\ stage \in {"load", "pick", "start", "serving", "exited"}
    /\ kind \in {"none", "forward", "origin", "ebpf"}
    /\ exit \in {Running, ExitUsage, ExitInternalError}
    /\ stage # "serving" => armed = <<>> /\ targets = {} /\ reply = NoReply
    /\ stage = "serving" /\ kind = "ebpf" =>
          /\ SyscallExperiments # {} /\ targets = {}
          /\ armed = <<case.file.experiments[Min(SyscallExperiments)]>>
    /\ stage = "serving" /\ kind # "ebpf" =>
          /\ kind \in {"forward", "origin"} /\ AllExpandable /\ armed = Expanded
    /\ stage = "serving" /\ kind = "forward" => targets = {}
    /\ stage = "serving" /\ kind = "origin" =>
          targets = ProvidersForHostGlobs(ScenarioHTTPHosts(Expanded))

\* What is known of a reply by its shape.
Replied ==
    /\ seen \in BOOLEAN
    /\ Len(reply.found) <= 1 /\ (reply.fired => reply.found # <<>>)

\* Only an injector that runs changes a reply, and it changes nothing else.
LEMMA RequestsChangeReplies ==
    ASSUME [Next]_vars
    PROVE  \/ Select /\ UNCHANGED <<seen, reply>>
           \/ stage = "serving" /\ UNCHANGED selectionVars
           \/ UNCHANGED vars
<1>1. ASSUME NEW request, ForwardRequest(request) \/ OriginRequest(request)
                             \/ StrayRequest(request)
      PROVE  stage = "serving" /\ UNCHANGED selectionVars
  BY <1>1 DEF ForwardRequest, OriginRequest, StrayRequest
<1>2. ASSUME NEW call, SystemCall(call)
      PROVE  stage = "serving" /\ UNCHANGED selectionVars
  BY <1>2 DEF SystemCall
<1> QED  BY <1>1, <1>2 DEF Next

\* What an injector was started with stays, whatever happens next.
LEMMA StartedIsInductive == Started /\ [Next]_vars => Started'
<1> SUFFICES ASSUME Started, [Next]_vars PROVE Started'
  OBVIOUS
<1>1. CASE Select /\ UNCHANGED <<seen, reply>>
  <2>1. CASE LoadScenario
    BY <1>1, <2>1 DEF Started, LoadScenario
  <2>2. ASSUME NEW outcome \in {"usage", "internal"}, stage # "serving", EndsWith(outcome)
        PROVE  Started'
    <3>1. stage' = "exited" /\ exit' \in {ExitUsage, ExitInternalError}
          /\ UNCHANGED <<kind, armed, targets, reply>>
      BY <1>1, <2>2 DEF EndsWith, ExitCode
    <3> QED  BY <2>2, <3>1 DEF Started
  <2>3. CASE LoadFails
    BY <2>2, <2>3 DEF LoadFails
  <2>4. CASE Pick
    <3> DEFINE picked == PickInjector(case.file, case.opts, case.machine)
    <3>1. stage = "pick"  BY <2>4 DEF Pick
    <3>2. CASE picked \in {"usage", "internal"}
      BY <2>2, <2>4, <3>1, <3>2 DEF Pick
    <3>3. CASE picked \notin {"usage", "internal"}
      <4>1. stage' = "start" /\ kind' = picked /\ UNCHANGED <<case, armed, targets, exit>>
        BY <2>4, <3>3 DEF Pick
      <4>2. picked \in {"forward", "origin", "ebpf"}
        BY <3>3 DEF PickInjector, PickEbpf, ProxyKind
      <4> QED  BY <1>1, <3>1, <4>1, <4>2 DEF Started
    <3> QED  BY <3>2, <3>3
  <2>5. CASE StartForward
    <3>1. /\ kind = "forward" /\ AllExpandable /\ stage' = "serving"
          /\ armed' = Expanded /\ targets' = {} /\ UNCHANGED <<case, kind, exit>>
      BY <2>5 DEF StartForward, Starts
    <3>2. AllExpandable' /\ Expanded' = Expanded  BY <3>1 DEF AllExpandable, Expanded
    <3> QED  BY <3>1, <3>2 DEF Started
  <2>6. CASE StartBaseURL
    <3> DEFINE providers == ProvidersForHostGlobs(ScenarioHTTPHosts(Expanded))
    <3>1. /\ kind = "origin" /\ AllExpandable /\ stage' = "serving"
          /\ armed' = Expanded /\ targets' = providers
          /\ UNCHANGED <<case, kind, exit>>
      BY <2>6 DEF StartBaseURL, Starts
    <3>2. AllExpandable' /\ Expanded' = Expanded  BY <3>1 DEF AllExpandable, Expanded
    <3>3. providers' = providers  BY <3>2
    <3> HIDE DEF providers
    <3>4. /\ stage' = "serving" /\ kind' = "origin" /\ exit' = exit /\ targets' = providers'
          /\ armed' = Expanded' /\ AllExpandable'
      BY <3>1, <3>2, <3>3
    <3> QED  BY <3>4 DEF Started, providers
  <2>7. CASE StartEbpf
    <3>1. /\ kind = "ebpf" /\ stage' = "serving" /\ SyscallExperiments # {}
          /\ armed' = <<case.file.experiments[Min(SyscallExperiments)]>>
          /\ targets' = {} /\ UNCHANGED <<case, kind, exit>>
      BY <2>7 DEF StartEbpf, Starts
    <3>2. SyscallExperiments' = SyscallExperiments  BY <3>1 DEF SyscallExperiments
    <3> QED  BY <3>1, <3>2 DEF Started
  <2>8. CASE StartFails
    BY <2>2, <2>8 DEF StartFails
  <2> QED  BY <1>1, <2>1, <2>3, <2>4, <2>5, <2>6, <2>7, <2>8 DEF Select
<1>2. CASE UNCHANGED selectionVars /\ (stage = "serving" \/ UNCHANGED reply)
  <2>1. UNCHANGED <<case, stage, kind, armed, targets, exit>>  BY <1>2 DEF selectionVars
  <2>2. /\ SyscallExperiments' = SyscallExperiments /\ AllExpandable' = AllExpandable
        /\ Expanded' = Expanded
    BY <2>1 DEF SyscallExperiments, AllExpandable, Expanded
  <2> QED  BY <1>2, <2>1, <2>2 DEF Started
<1> QED
  BY <1>1, <1>2, RequestsChangeReplies DEF vars

-----------------------------------------------------------------------------
(* What an injector is armed with *)

\* The decoder types the experiments of a case.
LEMMA CaseIsTyped ==
    ASSUME Known
    PROVE  /\ case.file.experiments \in Seq(ExperimentType)
           /\ \A i \in DOMAIN case.file.experiments : Len(case.file.experiments[i].name) <= 1
  BY CasesAssumption DEF Known

\* No injector is picked or started for a scenario that Validate refuses.
LEMMA LoadedIsValid ==
    ASSUME Known, stage \in {"pick", "start", "serving"}
    PROVE  \A i \in DOMAIN case.file.experiments : ExperimentValid(case.file.experiments[i])
<1>1. case \in Cases /\ ScenarioLoads(case.opts, case.file)  BY DEF Known
<1>2. ScenarioValid(case.file)  BY <1>1, CasesAssumption DEF ScenarioLoads
<1> QED  BY <1>2 DEF ScenarioValid

\* What the proxies are armed with comes from the scenario, in its order.
LEMMA ArmedIsExpanded ==
    ASSUME Known, Started, stage = "serving", kind # "ebpf"
    PROVE  \E origin : Origin(case.file.experiments, case.opts.provider, armed, origin)
<1>1. armed = Expanded  BY DEF Started
<1>2. case.file.experiments \in Seq(ExperimentType)  BY CaseIsTyped
<1> QED  BY <1>1, <1>2, ExpandScenarioIs DEF Expanded

\* eBPF mode is armed with the first experiment of the scenario on a system
\* call.
LEMMA ArmedIsFirst ==
    ASSUME Known, Started, stage = "serving", kind = "ebpf"
    PROVE  \E i \in SyscallExperiments :
              /\ armed = <<case.file.experiments[i]>>
              /\ \A j \in SyscallExperiments : i <= j
<1>1. SyscallExperiments # {} /\ armed = <<case.file.experiments[Min(SyscallExperiments)]>>
  BY DEF Started
<1>2. SyscallExperiments \subseteq Nat  BY CaseIsTyped DEF SyscallExperiments
<1>3. Min(SyscallExperiments) \in SyscallExperiments
      /\ \A j \in SyscallExperiments : Min(SyscallExperiments) <= j
  BY <1>1, <1>2, LeastElement
<1> QED  BY <1>1, <1>3

\* Whatever runs, it is armed with raw experiments that Validate accepts.
LEMMA ArmedAreValid ==
    ASSUME Known, Started
    PROVE  \A i \in DOMAIN armed : ExperimentValid(armed[i]) /\ ~IsFixtureDriven(armed[i])
<1>1. CASE stage # "serving"
  <2>1. armed = <<>>  BY <1>1 DEF Started
  <2> QED  BY <2>1
<1>2. CASE stage = "serving" /\ kind # "ebpf"
  <2> DEFINE exps == case.file.experiments
  <2>1. PICK origin : Origin(exps, case.opts.provider, armed, origin)
    BY <1>2, ArmedIsExpanded
  <2>2. exps \in Seq(ExperimentType) /\ \A i \in DOMAIN exps : ExperimentValid(exps[i])
    BY <1>2, CaseIsTyped, LoadedIsValid
  <2> SUFFICES ASSUME NEW a \in DOMAIN armed
               PROVE  ExperimentValid(armed[a]) /\ ~IsFixtureDriven(armed[a])
    OBVIOUS
  <2>3. origin[a] \in DOMAIN exps /\ armed[a] \in Expansions(exps[origin[a]], case.opts.provider)
    BY <2>1 DEF Origin
  <2>4. exps[origin[a]] \in ExperimentType /\ ExperimentValid(exps[origin[a]])  BY <2>2, <2>3
  <2> QED  BY <2>3, <2>4, ExpansionsAreValid
<1>3. CASE stage = "serving" /\ kind = "ebpf"
  <2>1. PICK i \in SyscallExperiments : armed = <<case.file.experiments[i]>>
    BY <1>3, ArmedIsFirst
  <2> DEFINE exp == case.file.experiments[i]
  <2>2. ExperimentValid(exp) /\ MatchIsSyscall(exp.match)
    BY <1>3, <2>1, LoadedIsValid DEF SyscallExperiments
  <2>3. ~IsFixtureDriven(exp)  BY <2>2 DEF ExperimentValid, FixtureValid
  <2> HIDE DEF exp
  <2>4. armed = <<exp>>  BY <2>1 DEF exp
  <2>5. DOMAIN armed = {1} /\ armed[1] = exp  BY <2>4
  <2> QED  BY <2>2, <2>3, <2>5
<1> QED  BY <1>1, <1>2, <1>3

\* A provider is in the scope of a failure mode as ArmedCompletely puts it and
\* as the expansion does.
LEMMA ScopeIsInScope ==
    ASSUME NEW exp, NEW providerScope, NEW id \in ProvidersWith(exp.failure),
           exp.provider # Absent => id = exp.provider,
           exp.provider = Absent /\ providerScope # Absent => id = providerScope
    PROVE  /\ ProviderByID(id) \in Registered /\ ProviderByID(id).id = id
           /\ InScope(ProviderByID(id), exp.failure, Scope(exp, providerScope))
<1>1. id \in ProviderIDs  BY FixtureInScope
<1>2. PICK p \in Registered : p.id = id  BY <1>1 DEF ProviderIDs
<1>3. ProviderByID(id) = p  BY <1>2, ProviderIsItsID
<1>4. Scope(exp, providerScope) = Absent \/ id = Scope(exp, providerScope)  BY DEF Scope
<1> QED  BY <1>2, <1>3, <1>4 DEF InScope

\* For any set of cases: an injector that has started is armed with all it is
\* for, so no experiment of a scenario is silently dropped on the way from the
\* file to the injector.
LEMMA StartedIsComplete ==
    ASSUME Known, Started
    PROVE  ArmedCompletely
<1> SUFFICES ASSUME stage = "serving" PROVE ArmedCompletely
  BY DEF ArmedCompletely
<1>1. CASE kind = "ebpf"
  <2>1. armed # <<>>
    <3>1. PICK i \in SyscallExperiments : armed = <<case.file.experiments[i]>>
      BY <1>1, ArmedIsFirst
    <3>2. Len(<<case.file.experiments[i]>>) = 1 /\ Len(<<>>) = 0  OBVIOUS
    <3> QED  BY <3>1, <3>2
  <2>2. PickInjector(case.file, case.opts, case.machine) = "ebpf"  BY <1>1 DEF Known
  <2>3. ~case.opts.baseURL /\ case.opts.provider = Absent
    BY <2>2 DEF PickInjector, PickEbpf, ProxyKind
  <2> QED  BY <1>1, <2>1, <2>3 DEF ArmedCompletely
<1>2. CASE kind # "ebpf"
  <2> DEFINE exps == case.file.experiments
             scope == case.opts.provider
             Wanted(exp, id) ==
                 /\ id \in ProvidersWith(exp.failure)
                 /\ exp.provider # Absent => id = exp.provider
                 /\ exp.provider = Absent /\ scope # Absent => id = scope
             inScope(exp) == {id \in ProvidersWith(exp.failure) :
                                 /\ exp.provider # Absent => id = exp.provider
                                 /\ exp.provider = Absent /\ scope # Absent => id = scope}
             Armed(exp, id) == \E k \in DOMAIN armed :
                 /\ armed[k].fault = Catalog[exp.failure][id].fault
                 /\ armed[k].match.path = Catalog[exp.failure][id].path
                 /\ armed[k].match.host = ProviderByID(id).upstream
  <2>1. PICK origin : Origin(exps, scope, armed, origin)
    BY <1>2, ArmedIsExpanded
  <2>2. exps \in Seq(ExperimentType)  BY CaseIsTyped
  <2>3. AllExpandable  BY <1>2 DEF Started
  <2> HIDE DEF Armed
  <2>4. \A i \in DOMAIN exps : \A x \in Expansions(exps[i], scope) :
           \E k \in DOMAIN armed : armed[k] = x
    BY <2>1, Zenon DEF Origin
  <2>5. ASSUME NEW i \in DOMAIN exps, ~IsFixtureDriven(exps[i])
        PROVE  \E k \in DOMAIN armed : armed[k] = exps[i]
    <3>1. exps[i] \in Expansions(exps[i], scope)  BY <2>5 DEF Expansions
    <3> QED  BY <2>4, <3>1, Zenon
  <2>6. ASSUME NEW i \in DOMAIN exps, IsFixtureDriven(exps[i]), NEW id, Wanted(exps[i], id)
        PROVE  Armed(exps[i], id)
    <3> DEFINE exp == exps[i]
               p == ProviderByID(id)
    <3>1. p \in Registered /\ p.id = id /\ InScope(p, exp.failure, Scope(exp, scope))
      BY <2>6, ScopeIsInScope
    <3>2. Realize(exp, p) \in Expansions(exp, scope)  BY <2>6, <3>1 DEF Expansions
    <3>3. PICK k \in DOMAIN armed : armed[k] = Realize(exp, p)  BY <2>4, <3>2, Zenon
    <3>4. exp \in ExperimentType  BY <2>2
    <3>5. /\ armed[k].fault = Catalog[exp.failure][id].fault
          /\ armed[k].match.path = Catalog[exp.failure][id].path
          /\ armed[k].match.host = p.upstream
      <4> DEFINE x == Realize(exp, p)
      <4>1. /\ x.fault = Catalog[exp.failure][p.id].fault
            /\ x.match.host = p.upstream /\ x.match.path = Catalog[exp.failure][p.id].path
        BY <3>4, RealizeFields
      <4> HIDE DEF x, p, exp
      <4> QED  BY <3>1, <3>3, <4>1 DEF x
    <3> QED  BY <3>5, Zenon DEF Armed
  <2>7. ASSUME NEW i \in DOMAIN exps, IsFixtureDriven(exps[i])
        PROVE  \E id : Wanted(exps[i], id)
    <3> DEFINE exp == exps[i]
               providers == ProvidersForMode(exp.failure, Scope(exp, scope))
    <3>1. providers # <<>>  BY <2>3, <2>7 DEF AllExpandable, Expandable
    <3>2. providers \in Seq(Registered)  BY ProvidersForModeIs
    <3>3. 1 \in DOMAIN providers  BY <3>1, <3>2
    <3>4. InScope(providers[1], exp.failure, Scope(exp, scope))  BY <3>3, ProvidersForModeIs
    <3>5. Wanted(exp, providers[1].id)  BY <3>4 DEF InScope, Scope
    <3> QED  BY <3>5
  <2>8. \A i \in DOMAIN exps : IsFixtureDriven(exps[i]) =>
           inScope(exps[i]) # {} /\ \A id \in inScope(exps[i]) : Armed(exps[i], id)
    BY <2>6, <2>7
  <2>9. \A i \in DOMAIN exps :
           IF ~IsFixtureDriven(exps[i]) THEN \E k \in DOMAIN armed : armed[k] = exps[i]
           ELSE inScope(exps[i]) # {} /\ \A id \in inScope(exps[i]) : Armed(exps[i], id)
    BY <2>5, <2>8
  <2> QED  BY <1>2, <2>9 DEF ArmedCompletely, Armed
<1> QED  BY <1>1, <1>2

-----------------------------------------------------------------------------
(* The shape of a reply *)

\* A request has at most one match, an experiment that applies to the proxy and
\* fits.
LEMMA MatchIsOne ==
    ASSUME NEW E, NEW exps \in Seq(E), NEW host, NEW path
    PROVE  IF Fitting(exps, host, path) = {} THEN MatchHostPath(exps, host, path) = <<>>
           ELSE \E i \in Fitting(exps, host, path) :
                   /\ MatchHostPath(exps, host, path) = <<exps[i]>>
                   /\ \A j \in Fitting(exps, host, path) : i <= j
<1> DEFINE fitting == Fitting(exps, host, path)
<1>1. fitting \subseteq Nat  BY DEF Fitting, HTTPExperiments
<1>2. CASE fitting = {}
  BY <1>2 DEF MatchHostPath
<1>3. CASE fitting # {}
  <2>1. Min(fitting) \in fitting /\ \A j \in fitting : Min(fitting) <= j
    BY <1>1, <1>3, LeastElement
  <2>2. MatchHostPath(exps, host, path) = <<exps[Min(fitting)]>>
    BY <1>3 DEF MatchHostPath
  <2> QED  BY <1>3, <2>1, <2>2
<1> QED  BY <1>2, <1>3

\* A reply is for at most one experiment, and a fault fires only if there is
\* one.
LEMMA DecideReplies ==
    ASSUME NEW request, NEW host, NEW found, Decide(request, host, found),
           found = <<>> \/ \E exp : found = <<exp>>
    PROVE  /\ reply'.request = request /\ reply'.found = found
           /\ Len(reply'.found) <= 1 /\ (reply'.fired => reply'.found # <<>>)
           /\ reply'.fired => reply'.body = Answer(host, Head(found)).body
<1>1. PICK hit \in IF found = <<>> THEN {FALSE} ELSE Rolls(Head(found).probability) :
         LET answer == IF hit THEN Answer(host, Head(found)) ELSE [status |-> 0, body |-> "upstream"]
         IN  reply' = [request |-> request, found |-> found, fired |-> hit,
                       status |-> answer.status, body |-> answer.body]
  BY DEF Decide
<1>2. /\ reply'.request = request /\ reply'.found = found /\ reply'.fired = hit
      /\ hit => reply'.body = Answer(host, Head(found)).body
  BY <1>1
<1>3. hit => found # <<>>  BY <1>1
<1>4. Len(found) <= 1
  <2>1. CASE found = <<>>
    BY <2>1
  <2>2. ASSUME NEW exp, found = <<exp>>  PROVE Len(found) <= 1
    BY <2>2
  <2> QED  BY <2>1, <2>2
<1> QED  BY <1>2, <1>3, <1>4, Zenon

\* What the proxies are armed with is a sequence.
LEMMA ArmedIsSequence ==
    ASSUME Known, Started, stage = "serving"
    PROVE  \E E : armed \in Seq(E)
<1>1. CASE kind # "ebpf"
  <2>1. PICK origin : Origin(case.file.experiments, case.opts.provider, armed, origin)
    BY <1>1, ArmedIsExpanded
  <2> DEFINE exps == case.file.experiments
             E == UNION {Expansions(exps[i], case.opts.provider) : i \in DOMAIN exps}
  <2>2. armed \in Seq(E)  BY <2>1 DEF Origin
  <2> HIDE DEF E
  <2> QED  BY <2>2
<1>2. CASE kind = "ebpf"
  <2>1. PICK i \in SyscallExperiments : armed = <<case.file.experiments[i]>>
    BY <1>2, ArmedIsFirst
  <2>2. armed \in Seq({case.file.experiments[i]})  BY <2>1
  <2> QED  BY <2>2
<1> QED  BY <1>1, <1>2

\* A request and what the forward proxy finds for it.
LEMMA ForwardFinds ==
    ASSUME NEW exps, NEW request \in RequestType, NEW host
    PROVE  MatchRequest(exps, [request EXCEPT !.host = host]) =
              IF request.connect THEN <<>> ELSE MatchHostPath(exps, host, request.path)
<1>1. /\ [request EXCEPT !.host = host].connect = request.connect
      /\ [request EXCEPT !.host = host].host = host
      /\ [request EXCEPT !.host = host].path = request.path
  BY DEF RequestType
<1> QED  BY <1>1 DEF MatchRequest

\* Whatever is found is at most one experiment.
LEMMA AtMostOneMatch ==
    ASSUME Known, Started, stage = "serving", NEW host, NEW path
    PROVE  \/ MatchHostPath(armed, host, path) = <<>>
           \/ \E exp : MatchHostPath(armed, host, path) = <<exp>>
  BY ArmedIsSequence, MatchIsOne, Zenon

\* A fault fires only for an experiment that was found.
LEMMA RepliedIsInductive == Known /\ Started /\ Replied /\ [Next]_vars => Replied'
<1> SUFFICES ASSUME Known, Started, Replied, [Next]_vars PROVE Replied'
  OBVIOUS
<1>1. ASSUME NEW request \in case.requests, ForwardRequest(request)  PROVE Replied'
  <2> DEFINE found == MatchRequest(armed, [request EXCEPT !.host = RawHost(request)])
             host == NormalizeHost(RawHost(request))
  <2>1. stage = "serving" /\ seen' = (seen \/ ~request.connect) /\ Decide(request, host, found)
    BY <1>1 DEF ForwardRequest
  <2>2. request \in RequestType  BY RequestsAssumption DEF Known
  <2>3. found = <<>> \/ \E exp : found = <<exp>>
    <3>1. found = IF request.connect THEN <<>>
                  ELSE MatchHostPath(armed, RawHost(request), request.path)
      BY <2>2, ForwardFinds
    <3>2. \/ MatchHostPath(armed, RawHost(request), request.path) = <<>>
          \/ \E exp : MatchHostPath(armed, RawHost(request), request.path) = <<exp>>
      BY <2>1, AtMostOneMatch
    <3> HIDE DEF found
    <3> QED  BY <3>1, <3>2, Zenon
  <2> HIDE DEF found, host
  <2>4. Len(reply'.found) <= 1 /\ (reply'.fired => reply'.found # <<>>)
    BY <2>1, <2>3, DecideReplies
  <2>5. seen' \in BOOLEAN  BY <2>1
  <2> QED  BY <2>4, <2>5 DEF Replied
<1>2. ASSUME NEW request \in case.requests, OriginRequest(request)  PROVE Replied'
  <2>1. PICK route : Decide(request, route.provider.upstream,
                            MatchHostPath(armed, route.provider.upstream, route.rest))
    BY <1>2 DEF OriginRequest
  <2> DEFINE found == MatchHostPath(armed, route.provider.upstream, route.rest)
  <2>2. found = <<>> \/ \E exp : found = <<exp>>
    BY <1>2, AtMostOneMatch DEF OriginRequest
  <2> HIDE DEF found
  <2>3. Decide(request, route.provider.upstream, found)  BY <2>1 DEF found
  <2>4. Len(reply'.found) <= 1 /\ (reply'.fired => reply'.found # <<>>)
    BY <2>2, <2>3, DecideReplies
  <2>5. seen' \in BOOLEAN  BY <1>2 DEF OriginRequest
  <2> QED  BY <2>4, <2>5 DEF Replied
<1>3. ASSUME NEW request, StrayRequest(request)  PROVE Replied'
  <2>1. reply' = [NoReply EXCEPT !.status = 404, !.body = "unrecognized"] /\ seen' = TRUE
    BY <1>3 DEF StrayRequest
  <2>2. reply'.found = <<>> /\ reply'.fired = FALSE  BY <2>1 DEF NoReply
  <2>3. Len(<<>>) = 0  OBVIOUS
  <2> QED  BY <2>1, <2>2, <2>3 DEF Replied
<1>4. ASSUME NEW call, SystemCall(call)  PROVE Replied'
  <2>1. PICK hit :
           reply' = [NoReply EXCEPT !.found = armed, !.fired = hit,
                                    !.body = IF hit THEN Head(armed).fault.errno ELSE "kernel"]
    BY <1>4, Zenon DEF SystemCall
  <2>2. reply'.found = armed  BY <2>1 DEF NoReply
  <2>3. stage = "serving" /\ kind = "ebpf" /\ seen' = seen  BY <1>4 DEF SystemCall
  <2>4. PICK i \in SyscallExperiments : armed = <<case.file.experiments[i]>>
    BY <2>3, ArmedIsFirst
  <2>5. Len(armed) = 1 /\ Len(<<>>) = 0  BY <2>4
  <2> QED  BY <2>2, <2>3, <2>5 DEF Replied
<1>5. CASE UNCHANGED <<seen, reply>>
  BY <1>5 DEF Replied
<1> QED  BY <1>1, <1>2, <1>3, <1>4, <1>5 DEF Next, vars

\* In every initial state nothing has been started, nor has anything replied.
LEMMA Initially == Init => Known /\ Started /\ Replied
<1>1. Init => Known
  BY DEF Init, SelectionInit, Known, Running
<1>2. Init => Started
  BY DEF Init, SelectionInit, Started, Running
<1>3. Init => Replied
  <2> SUFFICES ASSUME Init PROVE Replied
    OBVIOUS
  <2>1. reply.found = <<>> /\ reply.fired = FALSE /\ seen = FALSE  BY DEF Init, NoReply
  <2>2. Len(<<>>) = 0  OBVIOUS
  <2>3. Len(reply.found) <= 1  BY <2>1, <2>2
  <2> QED  BY <2>1, <2>3, Zenon DEF Replied
<1> QED  BY <1>1, <1>2, <1>3

\* For any set of cases: every variable ranges over what the code can give it.
\* In particular no injector is ever armed with an experiment that Validate
\* would refuse or that still names a failure mode, whatever it was expanded
\* from.
THEOREM DecisionIsTyped == Spec => []TypeOK
<1> DEFINE Inv == Known /\ Started /\ Replied
<1>1. Init => Inv
  BY Initially
<1>2. Inv /\ [Next]_vars => Inv'
  BY KnownIsInductive, StartedIsInductive, RepliedIsInductive
<1>3. Inv => TypeOK
  <2> SUFFICES ASSUME Inv PROVE TypeOK
    OBVIOUS
  <2>1. \A i \in DOMAIN armed : ExperimentValid(armed[i]) /\ ~IsFixtureDriven(armed[i])
    BY ArmedAreValid
  <2>2. targets \subseteq Registered
    <3>1. \A globs : ProvidersForHostGlobs(globs) \subseteq Registered
      BY DEF ProvidersForHostGlobs
    <3>2. targets = {} \/ \E globs : targets = ProvidersForHostGlobs(globs)
      BY DEF Started
    <3> QED  BY <3>1, <3>2
  <2>3. SelectionTypeOK  BY <2>1, <2>2 DEF SelectionTypeOK, Started
  <2> QED  BY <2>3 DEF TypeOK, Replied
<1> QED  BY <1>1, <1>2, <1>3, PTL DEF Spec

\* For any set of cases: an injector that has started is armed with all it is
\* for, so no experiment of a scenario is silently dropped on the way from the
\* file to the injector.
THEOREM InjectorsAreArmedCompletely == Spec => []ArmedCompletely
<1> DEFINE Inv == Known /\ Started
<1>1. Init => Inv
  BY Initially
<1>2. Inv /\ [Next]_vars => Inv'
  BY KnownIsInductive, StartedIsInductive
<1>3. Inv => ArmedCompletely
  BY StartedIsComplete
<1> QED  BY <1>1, <1>2, <1>3, PTL DEF Spec

-----------------------------------------------------------------------------
(* The experiment of a request *)

\* What an experiment concerns is what one of its expansions fits: the fan-out
\* over the providers neither adds a request nor drops one.
LEMMA ConcernsIsFits ==
    ASSUME NEW exp \in ExperimentType, ExperimentValid(exp),
           NEW host, Len(host) \in Nat \ {0}, NEW path, Len(path) \in Nat
    PROVE  Concerns(exp, host, path) <=>
              \E x \in Expansions(exp, case.opts.provider) :
                 MatchIsHTTP(x.match) /\ Fits(x, host, path)
<1> DEFINE scope == case.opts.provider
           Applies(x) == MatchIsHTTP(x.match) /\ Fits(x, host, path)
<1>1. CASE ~IsFixtureDriven(exp)
  <2> DEFINE m == exp.match
  <2>1. Expansions(exp, scope) = {exp}  BY <1>1 DEF Expansions
  <2>2. Concerns(exp, host, path) <=>
           /\ m.host # <<>> /\ Covers(m.host, host)
           /\ m.path # <<>> => Covers(m.path, path)
    BY <1>1 DEF Concerns
  <2>3. Applies(exp) <=>
           /\ MatchIsHTTP(m) /\ GlobMatch(m.host, host)
           /\ m.path # <<>> => GlobMatch(m.path, path)
    BY DEF Fits
  <2>4. Len(m.host) \in Nat /\ Len(m.path) \in Nat
    BY DEF ExperimentType, MatchType
  <2>5. GlobMatch(m.host, host) <=> Covers(m.host, host)  BY <2>4, GlobMatchIsCovers
  <2>6. GlobMatch(m.path, path) <=> Covers(m.path, path)  BY <2>4, GlobMatchIsCovers
  <2>7. Covers(m.host, host) => m.host # <<>>
    <3>1. ~Covers(<<>>, host)  BY EmptyGlob
    <3> QED  BY <3>1
  <2>8. m.host # <<>> => MatchIsHTTP(m)  BY DEF MatchIsHTTP
  <2> HIDE DEF m, Applies
  <2>9. Concerns(exp, host, path) <=> Applies(exp)
    BY <2>2, <2>3, <2>5, <2>6, <2>7, <2>8
  <2>10. Concerns(exp, host, path) <=> \E x \in Expansions(exp, scope) : Applies(x)
    BY <2>1, <2>9
  <2> QED  BY <2>10 DEF Applies
<1>2. CASE IsFixtureDriven(exp)
  <2> DEFINE ForUs(id) == \/ id = exp.provider
                          \/ exp.provider = Absent /\ scope \in {Absent, id}
             Meets(id) == /\ Covers(ProviderByID(id).upstream, host)
                          /\ Covers(Catalog[exp.failure][id].path, path)
  <2>1. Concerns(exp, host, path) <=> \E id \in ProvidersWith(exp.failure) : ForUs(id) /\ Meets(id)
    BY <1>2 DEF Concerns
  <2>2. \A x : x \in Expansions(exp, scope) <=>
           \E p \in Registered : x = Realize(exp, p) /\ InScope(p, exp.failure, Scope(exp, scope))
    BY <1>2 DEF Expansions
  <2>3. ASSUME NEW p \in Registered, p.id \in ProvidersWith(exp.failure)
        PROVE  /\ InScope(p, exp.failure, Scope(exp, scope)) <=> ForUs(p.id)
               /\ Applies(Realize(exp, p)) <=> Meets(p.id)
    <3> DEFINE fixture == Catalog[exp.failure][p.id]
               x == Realize(exp, p)
    <3>1. p.id # Absent /\ ProviderByID(p.id) = p  BY ProviderIsItsID
    <3>2. InScope(p, exp.failure, Scope(exp, scope)) <=> ForUs(p.id)
      BY <2>3, <3>1 DEF InScope, Scope
    <3>3. x.match.host = p.upstream /\ x.match.path = fixture.path
      BY RealizeFields
    <3>4. Len(fixture.path) \in Nat /\ fixture.path # <<>>
      BY <2>3, FixtureInScope DEF FixtureOK
    <3>5. Len(p.upstream) \in Nat /\ p.upstream # <<>>  BY UpstreamsArePatterns
    <3>6. GlobMatch(p.upstream, host) <=> Covers(p.upstream, host)
      BY <3>5, GlobMatchIsCovers
    <3>7. GlobMatch(fixture.path, path) <=> Covers(fixture.path, path)
      BY <3>4, GlobMatchIsCovers
    <3>8. Meets(p.id) <=> Covers(p.upstream, host) /\ Covers(fixture.path, path)
      BY <3>1
    <3> HIDE DEF fixture, Meets, x
    <3>9. Applies(x) <=> GlobMatch(p.upstream, host) /\ GlobMatch(fixture.path, path)
      BY <3>3, <3>4, <3>5 DEF MatchIsHTTP, Fits
    <3>10. Applies(x) <=> Meets(p.id)  BY <3>6, <3>7, <3>8, <3>9
    <3> QED  BY <3>2, <3>10 DEF x
  <2>4. ASSUME NEW id \in ProvidersWith(exp.failure)
        PROVE  \E p \in Registered : p.id = id
    BY FixtureInScope DEF ProviderIDs
  <2>5. \A p : InScope(p, exp.failure, Scope(exp, scope)) => p.id \in ProvidersWith(exp.failure)
    BY DEF InScope
  <2> HIDE DEF ForUs, Meets, Applies
  <2>6. ASSUME NEW id \in ProvidersWith(exp.failure), ForUs(id), Meets(id)
        PROVE  \E x \in Expansions(exp, scope) : Applies(x)
    <3>1. PICK p \in Registered : p.id = id  BY <2>4
    <3>2. InScope(p, exp.failure, Scope(exp, scope)) /\ Applies(Realize(exp, p))
      BY <2>3, <2>6, <3>1
    <3>3. Realize(exp, p) \in Expansions(exp, scope)  BY <2>2, <3>2
    <3> QED  BY <3>2, <3>3
  <2>7. ASSUME NEW x \in Expansions(exp, scope), Applies(x)
        PROVE  \E id \in ProvidersWith(exp.failure) : ForUs(id) /\ Meets(id)
    <3>1. PICK p \in Registered : x = Realize(exp, p) /\ InScope(p, exp.failure, Scope(exp, scope))
      BY <2>2
    <3>2. p.id \in ProvidersWith(exp.failure)  BY <2>5, <3>1
    <3>3. ForUs(p.id) /\ Meets(p.id)  BY <2>3, <2>7, <3>1, <3>2
    <3> QED  BY <3>2, <3>3
  <2>8. Concerns(exp, host, path) <=> \E x \in Expansions(exp, scope) : Applies(x)
    BY <2>1, <2>6, <2>7
  <2> QED  BY <2>8 DEF Applies
<1> QED  BY <1>1, <1>2

\* The name of an experiment begins that of each of its expansions.
LEMMA NamesBegin ==
    ASSUME NEW exp \in ExperimentType, NEW providerScope, NEW x \in Expansions(exp, providerScope)
    PROVE  IsPrefix(exp.name, x.name)
<1> DEFINE name == exp.name
<1>1. name \in Seq(Word)  BY DEF ExperimentType
<1>2. CASE ~IsFixtureDriven(exp)
  <2>1. x = exp  BY <1>2 DEF Expansions
  <2>2. IsPrefix(name, name)  BY <1>1 DEF IsPrefix
  <2> QED  BY <2>1, <2>2
<1>3. CASE IsFixtureDriven(exp)
  <2>1. PICK p \in Registered : x = Realize(exp, p)  BY <1>3 DEF Expansions
  <2>2. x.name = name \o <<p.id>>  BY <2>1, RealizeFields
  <2> DEFINE E == Word \cup {p.id}
  <2>3. name \in Seq(E) /\ <<p.id>> \in Seq(E) /\ Len(<<p.id>>) = 1  BY <1>1
  <2> HIDE DEF E, name
  <2> DEFINE both == name \o <<p.id>>
  <2>4. both \in Seq(E) /\ Len(both) = Len(name) + 1 /\ \A i \in 1 .. Len(name) : both[i] = name[i]
    BY <2>3, Concatenation
  <2> HIDE DEF both
  <2>5. Len(name) \in Nat  BY <2>3
  <2>6. SubSeq(both, 1, Len(name)) = [i \in 1 .. Len(name) |-> both[i]]  BY <2>4, <2>5
  <2>7. SubSeq(name, 1, Len(name)) = [i \in 1 .. Len(name) |-> name[i]]  BY <2>3
  <2>8. IsPrefix(name, both)  BY <2>4, <2>5, <2>6, <2>7 DEF IsPrefix
  <2> QED  BY <2>2, <2>8 DEF both, name
<1> QED  BY <1>2, <1>3

\* The experiment that a proxy finds for a request is the first of the scenario
\* that concerns it, though the proxy searches the expanded list.
LEMMA FirstConcerned ==
    ASSUME Known, Started, stage = "serving", kind # "ebpf",
           NEW raw, NEW host, Len(host) \in Nat \ {0}, NormalizeHost(raw) = host,
           NEW path, Len(path) \in Nat
    PROVE  LET exps == case.file.experiments
               concerned == {i \in DOMAIN exps : Concerns(exps[i], host, path)}
               found == MatchHostPath(armed, raw, path)
           IN  IF concerned = {} THEN found = <<>>
               ELSE found # <<>> /\ IsPrefix(exps[Min(concerned)].name, Head(found).name)
<1> DEFINE exps == case.file.experiments
           concerned == {i \in DOMAIN exps : Concerns(exps[i], host, path)}
           found == MatchHostPath(armed, raw, path)
           fitting == Fitting(armed, raw, path)
           Applies(x) == MatchIsHTTP(x.match) /\ Fits(x, host, path)
           scope == case.opts.provider
<1>1. exps \in Seq(ExperimentType) /\ \A i \in DOMAIN exps : ExperimentValid(exps[i])
  BY CaseIsTyped, LoadedIsValid
<1>2. PICK origin : Origin(exps, scope, armed, origin)
  BY ArmedIsExpanded
<1>3. PICK E : armed \in Seq(E)  BY ArmedIsSequence
<1>4. \A a : a \in fitting <=> a \in DOMAIN armed /\ Applies(armed[a])
  BY DEF Fitting, HTTPExperiments
<1>5. IF fitting = {} THEN found = <<>>
      ELSE \E i \in fitting : found = <<armed[i]>> /\ \A j \in fitting : i <= j
  BY <1>3, MatchIsOne
<1>6. \A i \in DOMAIN exps : i \in concerned <=> \E x \in Expansions(exps[i], scope) : Applies(x)
  BY <1>1, ConcernsIsFits
<1>7. /\ \A a, b \in DOMAIN armed : a <= b => origin[a] <= origin[b]
      /\ \A a \in DOMAIN armed : origin[a] \in DOMAIN exps /\ armed[a] \in Expansions(exps[origin[a]], scope)
      /\ \A i \in DOMAIN exps : \A x \in Expansions(exps[i], scope) :
            \E a \in DOMAIN armed : origin[a] = i /\ armed[a] = x
  BY <1>2 DEF Origin
<1>8. concerned \subseteq DOMAIN exps /\ concerned \subseteq Nat  BY <1>1
<1>9. DOMAIN armed \subseteq Nat  BY <1>3
<1> HIDE DEF exps, concerned, found, fitting, Applies, scope
<1>10. \A a \in fitting : origin[a] \in concerned
  BY <1>4, <1>6, <1>7
<1>11. \A i \in concerned : \E a \in fitting : origin[a] = i
  BY <1>4, <1>6, <1>7, <1>8
<1>12. CASE concerned = {}
  <2>1. fitting = {}  BY <1>10, <1>12
  <2> QED  BY <1>5, <1>12, <2>1 DEF exps, concerned, found
<1>13. CASE concerned # {}
  <2> DEFINE m == Min(concerned)
  <2>1. m \in concerned /\ \A i \in concerned : m <= i
    BY <1>8, <1>13, LeastElement
  <2> HIDE DEF m
  <2>2. PICK a \in fitting : origin[a] = m  BY <1>11, <2>1
  <2>3. PICK i \in fitting : found = <<armed[i]>> /\ \A j \in fitting : i <= j
    BY <1>5, <2>2
  <2>4. i \in DOMAIN armed /\ a \in DOMAIN armed /\ i <= a  BY <1>4, <2>2, <2>3
  <2>5. origin[i] <= m /\ m <= origin[i]  BY <1>7, <1>10, <2>1, <2>2, <2>3, <2>4
  <2>6. origin[i] \in Nat /\ m \in Nat  BY <1>8, <1>10, <2>1, <2>3
  <2>7. origin[i] = m  BY <2>5, <2>6
  <2>8. armed[i] \in Expansions(exps[m], scope)  BY <1>7, <2>4, <2>7
  <2>9. exps[m] \in ExperimentType  BY <1>1, <1>8, <2>1
  <2>10. IsPrefix(exps[m].name, armed[i].name)  BY <2>8, <2>9, NamesBegin
  <2>11. found # <<>> /\ Head(found) = armed[i]
    <3>1. Len(<<armed[i]>>) = 1 /\ Len(<<>>) = 0 /\ Head(<<armed[i]>>) = armed[i]  OBVIOUS
    <3> QED  BY <2>3, <3>1
  <2> QED  BY <1>13, <2>10, <2>11 DEF exps, concerned, found, m
<1> QED  BY <1>12, <1>13

-----------------------------------------------------------------------------
(* First match *)

\* What is known of the requests of a case: its client writes the host in some
\* way that the matcher undoes, or in its plain form.
LEMMA RequestIsPlain ==
    ASSUME Known, NEW request \in case.requests
    PROVE  /\ request \in RequestType /\ request # NoRequest
           /\ NormalizeHost(RawHost(request)) = request.host
           /\ NormalizeHost(request.host) = request.host
           /\ Len(request.host) \in Nat \ {0} /\ Len(request.path) \in Nat
           /\ ~request.connect => IsPrefix(<<"/">>, request.path)
<1>1. /\ request \in RequestType
      /\ \A i \in DOMAIN request.host : request.host[i] \notin {":", "OPENAI"}
      /\ Last(request.host) # "."
      /\ ~request.connect => IsPrefix(<<"/">>, request.path)
  BY RequestsAssumption DEF Known
<1>2. request.host \in Seq(Word) /\ request.host # <<>> /\ request.path \in Seq(Word)
  BY <1>1 DEF RequestType
<1>3. NormalizeHost(RawHost(request)) = request.host  BY <1>1, NormalizeUndoesRawHost
<1>4. NormalizeHost(request.host) = request.host  BY <1>1, <1>2, PlainHostIsNormal
<1>5. Len(request.host) \in Nat \ {0} /\ Len(request.path) \in Nat  BY <1>2
<1>6. NoRequest.host = <<>>  BY DEF NoRequest
<1> QED  BY <1>1, <1>2, <1>3, <1>4, <1>5, <1>6

\* A reply is the right one if it was made for the right experiment of the case
\* that is still the same.
LEMMA RightWhen ==
    ASSUME UNCHANGED case, NEW request, NEW match,
           LET exps == case.file.experiments
               concerned == {i \in DOMAIN exps : Concerns(exps[i], request.host, request.path)}
           IN  IF concerned = {} THEN match = <<>>
               ELSE match # <<>> /\ IsPrefix(exps[Min(concerned)].name, Head(match).name),
           reply'.request = request,
           reply'.found = IF request.connect THEN <<>> ELSE match
    PROVE  RightExperiment'
<1> DEFINE exps == case.file.experiments
           concerned == {i \in DOMAIN exps : Concerns(exps[i], request.host, request.path)}
           after == {i \in DOMAIN exps : Concerns(exps[i], reply.request.host, reply.request.path)}'
<1>1. case' = case /\ reply'.request = request  OBVIOUS
<1>2. after = concerned  BY <1>1 DEF Concerns
<1>3. RightExperiment' <=>
         IF after = {} \/ reply'.request.connect THEN reply'.found = <<>>
         ELSE /\ reply'.found # <<>>
              /\ IsPrefix(exps[Min(after)].name, Head(reply'.found).name)
  BY <1>1 DEF RightExperiment
<1> QED  BY <1>1, <1>2, <1>3

\* The forward proxy replies for the first experiment that concerns a request.
LEMMA ForwardIsRight ==
    ASSUME Known, Started, NEW request \in case.requests, ForwardRequest(request)
    PROVE  RightExperiment'
<1> DEFINE exps == case.file.experiments
           concerned == {i \in DOMAIN exps : Concerns(exps[i], request.host, request.path)}
           found == MatchRequest(armed, [request EXCEPT !.host = RawHost(request)])
           match == MatchHostPath(armed, RawHost(request), request.path)
           host == NormalizeHost(RawHost(request))
<1>1. stage = "serving" /\ kind = "forward" /\ Decide(request, host, found) /\ UNCHANGED selectionVars
  BY DEF ForwardRequest
<1>2. /\ request \in RequestType /\ host = request.host
      /\ Len(request.host) \in Nat \ {0} /\ Len(request.path) \in Nat
  BY RequestIsPlain
<1>3. found = IF request.connect THEN <<>> ELSE match
  BY <1>2, ForwardFinds
<1>4. match = <<>> \/ \E exp : match = <<exp>>
  BY <1>1, AtMostOneMatch
<1>5. IF concerned = {} THEN match = <<>>
      ELSE match # <<>> /\ IsPrefix(exps[Min(concerned)].name, Head(match).name)
  BY <1>1, <1>2, FirstConcerned
<1>6. reply'.request = request /\ reply'.found = found
  <2> HIDE DEF found, match, host
  <2>1. found = <<>> \/ \E exp : found = <<exp>>  BY <1>3, <1>4, Zenon
  <2> QED  BY <1>1, <2>1, DecideReplies
<1>7. case' = case  BY <1>1 DEF selectionVars
<1> QED  BY <1>3, <1>5, <1>6, <1>7, RightWhen

\* In base-URL mode the call of an SDK gets the reply that the same call of the
\* API gets in the forward proxy.
LEMMA OriginFinds ==
    ASSUME Known, Started, NEW request \in case.requests, OriginRequest(request)
    PROVE  /\ stage = "serving" /\ kind = "origin" /\ ~request.connect /\ UNCHANGED selectionVars
           /\ Decide(request, request.host, MatchHostPath(armed, request.host, request.path))
<1>1. stage = "serving" /\ kind = "origin" /\ ~request.connect /\ UNCHANGED selectionVars
  BY DEF OriginRequest
<1>2. PICK p \in targets :
         /\ p.upstream = request.host
         /\ IsPrefix(p.apiBase, request.path)
         /\ \E route \in Routes(SDKPath(p, request)) :
               Decide(request, route.provider.upstream,
                      MatchHostPath(armed, route.provider.upstream, route.rest))
  BY DEF OriginRequest
<1>3. PICK route \in Routes(SDKPath(p, request)) :
         Decide(request, route.provider.upstream,
                MatchHostPath(armed, route.provider.upstream, route.rest))
  BY <1>2
<1>4. p \in Registered /\ ~ForwardProxyOnly(p)
  BY <1>1, <1>2 DEF Started, ProvidersForHostGlobs
<1>5. request.path \in Seq(Word) /\ IsPrefix(<<"/">>, request.path)
  BY <1>1, RequestIsPlain DEF RequestType
<1>6. route.provider = p /\ route.rest = request.path
  BY <1>2, <1>3, <1>4, <1>5, RouteOfSDKPath
<1>7. Decide(request, request.host, MatchHostPath(armed, request.host, request.path))
  BY <1>2, <1>3, <1>6
<1> QED  BY <1>1, <1>7

\* So the reply is for the first experiment that concerns the request.
LEMMA OriginIsRight ==
    ASSUME Known, Started, NEW request \in case.requests, OriginRequest(request)
    PROVE  RightExperiment'
<1> DEFINE exps == case.file.experiments
           concerned == {i \in DOMAIN exps : Concerns(exps[i], request.host, request.path)}
           match == MatchHostPath(armed, request.host, request.path)
<1>1. /\ stage = "serving" /\ kind = "origin" /\ ~request.connect /\ UNCHANGED selectionVars
      /\ Decide(request, request.host, match)
  BY OriginFinds
<1>2. /\ NormalizeHost(request.host) = request.host
      /\ Len(request.host) \in Nat \ {0} /\ Len(request.path) \in Nat
  BY RequestIsPlain
<1>3. match = <<>> \/ \E exp : match = <<exp>>
  BY <1>1, AtMostOneMatch
<1>4. IF concerned = {} THEN match = <<>>
      ELSE match # <<>> /\ IsPrefix(exps[Min(concerned)].name, Head(match).name)
  BY <1>1, <1>2, FirstConcerned
<1>5. reply'.request = request /\ reply'.found = match
  <2> HIDE DEF match
  <2> QED  BY <1>1, <1>3, DecideReplies
<1>6. case' = case  BY <1>1 DEF selectionVars
<1> QED  BY <1>1, <1>4, <1>5, <1>6, RightWhen

\* The right experiment stays so while nothing happens to the reply.
LEMMA RightStays ==
    ASSUME UNCHANGED <<case, reply>>, RightExperiment
    PROVE  RightExperiment'
<1>1. ASSUME NEW exp, NEW host, NEW path
      PROVE  Concerns(exp, host, path)' = Concerns(exp, host, path)
  BY Zenon DEF Concerns
<1>2. case' = case /\ reply' = reply  OBVIOUS
<1> HIDE DEF Concerns
<1> QED  BY <1>1, <1>2 DEF RightExperiment

\* What becomes of the replies in a step: none before an injector runs, and
\* then that of a request, of a stray one, of a system call, or the last one.
LEMMA ReplyCases ==
    ASSUME Known, Started, [Next]_vars, Answered'
    PROVE  \/ \E request \in case.requests : ForwardRequest(request) \/ OriginRequest(request)
           \/ Answered /\ stage = "serving" /\ UNCHANGED <<case, kind, reply>>
<1>1. ASSUME NEW request, StrayRequest(request)  PROVE FALSE
  <2>1. reply' = [NoReply EXCEPT !.status = 404, !.body = "unrecognized"]
    BY <1>1 DEF StrayRequest
  <2>2. reply'.request = NoRequest  BY <2>1 DEF NoReply
  <2> QED  BY <2>2 DEF Answered
<1>2. ASSUME NEW call, SystemCall(call)  PROVE FALSE
  <2>1. PICK hit :
           reply' = [NoReply EXCEPT !.found = armed, !.fired = hit,
                                    !.body = IF hit THEN Head(armed).fault.errno ELSE "kernel"]
    BY <1>2, Zenon DEF SystemCall
  <2>2. reply'.request = NoRequest  BY <2>1 DEF NoReply
  <2> QED  BY <2>2 DEF Answered
<1>3. CASE UNCHANGED reply
  <2>1. Answered  BY <1>3 DEF Answered
  <2>2. stage = "serving"
    <3>1. NoReply.request = NoRequest  BY DEF NoReply
    <3> QED  BY <2>1, <3>1 DEF Answered, Started
  <2>3. UNCHANGED selectionVars
    <3>1. ~Select
      BY <2>2 DEF Select, LoadScenario, LoadFails, Pick, StartForward, StartBaseURL, StartEbpf,
                  StartFails
    <3> QED  BY <3>1, RequestsChangeReplies DEF vars
  <2> QED  BY <1>3, <2>1, <2>2, <2>3 DEF selectionVars
<1> QED  BY <1>1, <1>2, <1>3 DEF Next, vars

\* For any set of cases, both proxies: a request gets the reply of the first
\* experiment of the scenario that concerns it, in the order of the YAML, and
\* none if none does.
LEMMA RightIsInductive ==
    Known /\ Started /\ (Answered => RightExperiment) /\ [Next]_vars => (Answered => RightExperiment)'
<1> SUFFICES ASSUME Known, Started, Answered => RightExperiment, [Next]_vars, Answered'
             PROVE  RightExperiment'
  OBVIOUS
<1>1. CASE \E request \in case.requests : ForwardRequest(request) \/ OriginRequest(request)
  BY <1>1, ForwardIsRight, OriginIsRight
<1>2. CASE Answered /\ stage = "serving" /\ UNCHANGED <<case, kind, reply>>
  BY <1>2, RightStays
<1> QED  BY <1>1, <1>2, ReplyCases

\* For any set of cases: through the forward proxy the first experiment that
\* concerns a request wins, whatever its host looks like in the request and
\* whatever else the scenario is expanded to.
THEOREM FirstMatchAlwaysWins == Spec => []FirstMatchWins
<1> DEFINE Inv == Known /\ Started /\ (Answered => RightExperiment)
<1>1. Init => Inv
  BY Initially DEF Init, Answered, NoReply
<1>2. Inv /\ [Next]_vars => Inv'
  BY KnownIsInductive, StartedIsInductive, RightIsInductive
<1>3. Inv => FirstMatchWins
  BY DEF FirstMatchWins
<1> QED  BY <1>1, <1>2, <1>3, PTL DEF Spec

\* For any set of cases: in base-URL mode an SDK call meets the experiment that
\* the same API call meets in the forward proxy.
THEOREM BaseURLModeAlwaysAgrees == Spec => []BaseURLModeAgrees
<1> DEFINE Inv == Known /\ Started /\ (Answered => RightExperiment)
<1>1. Init => Inv
  BY Initially DEF Init, Answered, NoReply
<1>2. Inv /\ [Next]_vars => Inv'
  BY KnownIsInductive, StartedIsInductive, RightIsInductive
<1>3. Inv => BaseURLModeAgrees
  BY DEF BaseURLModeAgrees
<1> QED  BY <1>1, <1>2, <1>3, PTL DEF Spec

-----------------------------------------------------------------------------
(* The providers of base-URL mode *)

\* The host glob of whatever a proxy is armed with is a sequence: the one of
\* the file or that of a provider.
LEMMA ArmedHostsAreGlobs ==
    ASSUME Known, Started, stage = "serving", kind # "ebpf", NEW a \in DOMAIN armed
    PROVE  Len(armed[a].match.host) \in Nat
<1> DEFINE exps == case.file.experiments
           scope == case.opts.provider
<1>1. PICK origin : Origin(exps, scope, armed, origin)
  BY ArmedIsExpanded
<1>2. origin[a] \in DOMAIN exps /\ armed[a] \in Expansions(exps[origin[a]], scope)
  BY <1>1 DEF Origin
<1> DEFINE exp == exps[origin[a]]
<1>3. exp \in ExperimentType  BY <1>2, CaseIsTyped
<1>4. armed[a] \in Expansions(exp, scope)  BY <1>2
<1> HIDE DEF exp
<1>5. CASE ~IsFixtureDriven(exp)
  <2>1. armed[a] = exp  BY <1>4, <1>5 DEF Expansions
  <2> QED  BY <1>3, <2>1 DEF ExperimentType, MatchType
<1>6. CASE IsFixtureDriven(exp)
  <2>1. PICK p \in Registered : armed[a] = Realize(exp, p)  BY <1>4, <1>6 DEF Expansions
  <2>2. armed[a].match.host = p.upstream  BY <1>3, <2>1, RealizeFields
  <2> QED  BY <2>2, UpstreamsArePatterns
<1> QED  BY <1>5, <1>6

\* The providers whose upstream a host of the scenario covers are those that
\* an armed experiment is about; one without a host is about none.
LEMMA StartedIsConcerned ==
    ASSUME Known, Started
    PROVE  TargetsAreConcerned
<1> SUFFICES ASSUME stage = "serving", kind = "origin" PROVE TargetsAreConcerned
  BY DEF TargetsAreConcerned
<1> DEFINE hosts == ScenarioHTTPHosts(Expanded)
           Concerned(p) == \E i \in DOMAIN armed : Covers(armed[i].match.host, p.upstream)
<1>1. armed = Expanded /\ targets = ProvidersForHostGlobs(hosts)
  BY DEF Started
<1>2. \A h : h \in hosts <=> \E i \in DOMAIN armed : h = armed[i].match.host /\ h # <<>>
  BY <1>1 DEF ScenarioHTTPHosts
<1> HIDE DEF hosts
<1>3. \A p : p \in targets <=>
         p \in Registered /\ ~ForwardProxyOnly(p) /\ \E h \in hosts : GlobMatch(h, p.upstream)
  BY <1>1 DEF ProvidersForHostGlobs
<1>4. ASSUME NEW p \in Registered
      PROVE  (\E h \in hosts : GlobMatch(h, p.upstream)) <=> Concerned(p)
  <2>1. Len(p.upstream) \in Nat /\ Len(p.upstream) # 0  BY UpstreamsArePatterns
  <2>2. ~Covers(<<>>, p.upstream)  BY <2>1, EmptyGlob
  <2>3. \A i \in DOMAIN armed :
           GlobMatch(armed[i].match.host, p.upstream) <=> Covers(armed[i].match.host, p.upstream)
    BY <1>1, <2>1, ArmedHostsAreGlobs, GlobMatchIsCovers
  <2>4. ASSUME NEW h \in hosts, GlobMatch(h, p.upstream)  PROVE Concerned(p)
    <3>1. PICK i \in DOMAIN armed : h = armed[i].match.host  BY <1>2
    <3>2. Covers(armed[i].match.host, p.upstream)  BY <2>3, <2>4, <3>1
    <3> QED  BY <3>2
  <2>5. ASSUME NEW i \in DOMAIN armed, Covers(armed[i].match.host, p.upstream)
        PROVE  \E h \in hosts : GlobMatch(h, p.upstream)
    <3>1. armed[i].match.host \in hosts  BY <1>2, <2>2, <2>5, Zenon
    <3>2. GlobMatch(armed[i].match.host, p.upstream)  BY <2>3, <2>5
    <3> QED  BY <3>1, <3>2
  <2> QED  BY <2>4, <2>5
<1> HIDE DEF Concerned
<1>5. targets = {p \in Registered : ~ForwardProxyOnly(p) /\ Concerned(p)}
  BY <1>3, <1>4
<1> QED  BY <1>5 DEF TargetsAreConcerned, Concerned

\* For any set of cases: in base-URL mode the SDK of a provider is pointed at
\* faultkit if and only if an armed experiment is about the provider's host.
THEOREM TargetsAreAlwaysConcerned == Spec => []TargetsAreConcerned
<1> DEFINE Inv == Known /\ Started
<1>1. Init => Inv
  BY Initially
<1>2. Inv /\ [Next]_vars => Inv'
  BY KnownIsInductive, StartedIsInductive
<1>3. Inv => TargetsAreConcerned
  BY StartedIsConcerned
<1> QED  BY <1>1, <1>2, <1>3, PTL DEF Spec

-----------------------------------------------------------------------------
(* The vendor of an error *)

\* The body that an experiment of two words, a failure mode's, may answer with.
Accurate(body, exp) == body \in {"verbatim", "{}", "cut", exp.name[2]}

\* Whatever is found for a host and was made by a failure mode has that host
\* answered in the shape of its provider, whose id ends its name.
LEMMA VendorOfMatch ==
    ASSUME Known, Started, stage = "serving", kind # "ebpf",
           NEW host \in Seq(Word), NEW raw, NormalizeHost(raw) = host, NEW path,
           NEW exp, MatchHostPath(armed, raw, path) = <<exp>>, Len(exp.name) = 2
    PROVE  Accurate(Answer(host, exp).body, exp)
<1> DEFINE exps == case.file.experiments
           scope == case.opts.provider
           fitting == Fitting(armed, raw, path)
<1>1. PICK origin : Origin(exps, scope, armed, origin)
  BY ArmedIsExpanded
<1>2. PICK a \in fitting : exp = armed[a]
  <2>1. PICK F : armed \in Seq(F)  BY ArmedIsSequence
  <2>2. IF fitting = {} THEN <<exp>> = <<>>
        ELSE \E i \in fitting : <<exp>> = <<armed[i]>>
    BY <2>1, MatchIsOne
  <2>3. Len(<<exp>>) = 1 /\ Len(<<>>) = 0  OBVIOUS
  <2>4. \A i : <<exp>> = <<armed[i]>> => exp = armed[i]  OBVIOUS
  <2> QED  BY <2>2, <2>3, <2>4
<1>3. a \in DOMAIN armed /\ GlobMatch(exp.match.host, host)
  BY <1>2 DEF Fitting, HTTPExperiments, Fits
<1>4. origin[a] \in DOMAIN exps /\ armed[a] \in Expansions(exps[origin[a]], scope)
  BY <1>1, <1>3 DEF Origin
<1> DEFINE e == exps[origin[a]]
<1>5. e \in ExperimentType /\ Len(e.name) <= 1  BY <1>4, CaseIsTyped
<1>6. exp \in Expansions(e, scope)  BY <1>2, <1>4
<1> HIDE DEF e
<1>7. IsFixtureDriven(e)
  <2> SUFFICES ASSUME ~IsFixtureDriven(e) PROVE FALSE
    OBVIOUS
  <2>1. exp = e  BY <1>6 DEF Expansions
  <2>2. Len(e.name) = 2  BY <2>1
  <2> QED  BY <1>5, <2>2
<1>8. PICK p \in Registered : exp = Realize(e, p) /\ InScope(p, e.failure, Scope(e, scope))
  BY <1>6, <1>7 DEF Expansions
<1>9. /\ exp.name = e.name \o <<p.id>> /\ exp.fault = Catalog[e.failure][p.id].fault
      /\ exp.match.host = p.upstream
  BY <1>5, <1>8, RealizeFields
<1>10. exp.name[2] = p.id
  <2> DEFINE S == Word \cup {p.id}
  <2>1. e.name \in Seq(S) /\ <<p.id>> \in Seq(S) /\ Len(<<p.id>>) = 1 /\ <<p.id>>[1] = p.id
    BY <1>5 DEF ExperimentType
  <2> HIDE DEF S
  <2>2. /\ Len(exp.name) = Len(e.name) + 1
        /\ \A i \in 1 .. 1 : exp.name[Len(e.name) + i] = <<p.id>>[i]
    BY <1>9, <2>1, Concatenation
  <2>3. Len(e.name) = 1
    <3>1. Len(e.name) \in Nat  BY <2>1
    <3>2. Len(e.name) + 1 = 2  BY <2>2, Zenon
    <3>3. \A n \in Nat : n + 1 = 2 => n = 1  OBVIOUS
    <3> QED  BY <3>1, <3>2, <3>3, Zenon
  <2>4. exp.name[Len(e.name) + 1] = <<p.id>>[1]  BY <2>2
  <2> QED  BY <2>1, <2>3, <2>4
<1>11. FixtureOK(p.id, Catalog[e.failure][p.id])
  BY <1>8, FixtureInScope DEF InScope
<1>12. p.id \in {"pinecone", "qdrant"} => exp.fault.body = TRUE
  BY <1>9, <1>11 DEF FixtureOK
<1>13. p.id \notin {"pinecone", "qdrant"} => VendorTemplate(host) = p.id
  BY <1>3, <1>9, TemplateFitsGlob
<1>14. Answer(host, exp).body = IF exp.fault.cutoff # 0 THEN "cut"
                                ELSE IF exp.fault.body THEN "verbatim"
                                ELSE IF DefaultStatus(exp.fault) >= 400 THEN VendorTemplate(host)
                                ELSE "{}"
  BY DEF Answer, Build
<1> QED  BY <1>10, <1>12, <1>13, <1>14 DEF Accurate

\* So is the reply to a request, whichever proxy has found it.
LEMMA DecidedAccurately ==
    ASSUME Known, Started, stage = "serving", kind # "ebpf",
           NEW request \in case.requests, NEW raw, NormalizeHost(raw) = request.host, NEW path,
           NEW found, found = <<>> \/ found = MatchHostPath(armed, raw, path),
           Decide(request, request.host, found)
    PROVE  VendorAccurate'
<1>1. \/ MatchHostPath(armed, raw, path) = <<>>
      \/ \E exp : MatchHostPath(armed, raw, path) = <<exp>>
  BY AtMostOneMatch
<1>2. found = <<>> \/ \E exp : found = <<exp>> /\ MatchHostPath(armed, raw, path) = <<exp>>
  BY <1>1, Zenon
<1>3. /\ reply'.found = found /\ (reply'.fired => found # <<>>)
      /\ reply'.fired => reply'.body = Answer(request.host, Head(found)).body
  <2>1. found = <<>> \/ \E exp : found = <<exp>>  BY <1>2
  <2> QED  BY <2>1, DecideReplies
<1>4. ASSUME reply'.fired, Len(Head(found).name) = 2
      PROVE  Accurate(reply'.body, Head(found))
  <2>1. PICK exp : found = <<exp>> /\ MatchHostPath(armed, raw, path) = <<exp>>
    BY <1>2, <1>3, <1>4
  <2>2. Head(found) = exp  BY <2>1
  <2>3. request.host \in Seq(Word)  BY RequestIsPlain DEF RequestType
  <2>4. MatchHostPath(armed, raw, path) = <<exp>>  BY <2>1
  <2>5. Len(exp.name) = 2  BY <1>4, <2>2
  <2>6. Accurate(Answer(request.host, exp).body, exp)
    BY <2>3, <2>4, <2>5, VendorOfMatch
  <2> QED  BY <1>3, <1>4, <2>2, <2>6
<1> QED  BY <1>3, <1>4 DEF VendorAccurate, Accurate

\* The shape of the errors stays accurate in every step.
LEMMA VendorIsInductive == Known /\ Started /\ VendorAccurate /\ [Next]_vars => VendorAccurate'
<1> SUFFICES ASSUME Known, Started, VendorAccurate, [Next]_vars, Answered' PROVE VendorAccurate'
  BY DEF VendorAccurate
<1>1. ASSUME NEW request \in case.requests, ForwardRequest(request)  PROVE VendorAccurate'
  <2> DEFINE found == MatchRequest(armed, [request EXCEPT !.host = RawHost(request)])
             host == NormalizeHost(RawHost(request))
  <2>1. stage = "serving" /\ kind = "forward" /\ Decide(request, host, found)
    BY <1>1 DEF ForwardRequest
  <2>2. request \in RequestType /\ host = request.host  BY RequestIsPlain
  <2>3. found = <<>> \/ found = MatchHostPath(armed, RawHost(request), request.path)
    BY <2>2, ForwardFinds
  <2> HIDE DEF found
  <2>4. Decide(request, request.host, found)  BY <2>1, <2>2
  <2>5. kind # "ebpf"  BY <2>1
  <2> QED  BY <2>1, <2>2, <2>3, <2>4, <2>5, DecidedAccurately
<1>2. ASSUME NEW request \in case.requests, OriginRequest(request)  PROVE VendorAccurate'
  <2>1. /\ stage = "serving" /\ kind = "origin"
        /\ Decide(request, request.host, MatchHostPath(armed, request.host, request.path))
    BY <1>2, OriginFinds
  <2>2. NormalizeHost(request.host) = request.host  BY RequestIsPlain
  <2>3. kind # "ebpf"  BY <2>1
  <2> QED  BY <2>1, <2>2, <2>3, DecidedAccurately
<1>3. CASE Answered /\ UNCHANGED reply
  BY <1>3 DEF VendorAccurate, Answered
<1> QED  BY <1>1, <1>2, <1>3, ReplyCases

\* For any set of cases: an error that a failure mode makes up has the shape of
\* its provider, for every host that the provider's glob takes.
THEOREM VendorIsAlwaysAccurate == Spec => []VendorAccurate
<1> DEFINE Inv == Known /\ Started /\ VendorAccurate
<1>1. Init => Inv
  <2>1. Init => VendorAccurate
    BY DEF Init, VendorAccurate, Answered, NoReply
  <2> QED  BY <2>1, Initially
<1>2. Inv /\ [Next]_vars => Inv'
  BY KnownIsInductive, StartedIsInductive, VendorIsInductive
<1>3. Inv => VendorAccurate
  OBVIOUS
<1> QED  BY <1>1, <1>2, <1>3, PTL DEF Spec

=============================================================================
