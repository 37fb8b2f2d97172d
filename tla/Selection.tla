----------------------------- MODULE Selection -----------------------------
(***************************************************************************)
(* From the command line to a started injector: loadScenario, pickInjector *)
(* and the part of Start that decides what the injector is armed with      *)
(* (cli/run.go, inject/inject_linux.go, inject/proxy/proxy.go,             *)
(* inject/ebpf/ebpf_linux.go).                                             *)
(***************************************************************************)
EXTENDS Matching, Verdict

CONSTANT Cases   \* command lines, scenarios and machines to start from

\* A file is typed by the decoder, and the name it gives an experiment counts
\* as one word; a builtin scenario was validated when it was registered.
ASSUME CasesAssumption ==
    \A c \in Cases :
        /\ c.file.experiments \in Seq(ExperimentType)
        /\ \A i \in DOMAIN c.file.experiments : Len(c.file.experiments[i].name) <= 1
        /\ c.opts.source = "builtin" => ScenarioValid(c.file)

VARIABLES
    case,     \* the case: opts, file and machine, and the requests to come
    stage,    \* how far runFaultkit has come
    kind,     \* the injector it picked
    armed,    \* the experiments the injector applies, expanded
    targets,  \* providers whose SDK is pointed at faultkit
    exit      \* the exit code, once it has ended

selectionVars == <<case, stage, kind, armed, targets, exit>>

Running == -1

SelectionInit ==
    /\ case \in Cases
    /\ stage = "load" /\ kind = "none" /\ armed = <<>> /\ targets = {}
    /\ exit = Running

EndsWith(outcome) ==
    /\ stage' = "exited" /\ exit' = ExitCode(outcome)
    /\ UNCHANGED <<case, kind, armed, targets>>

-----------------------------------------------------------------------------
(* loadScenario and the test for a target command *)

\* A builtin scenario is not validated again.
ScenarioLoads(opts, file) ==
    \/ opts.source = "builtin" /\ opts.found
    \/ opts.source = "config" /\ opts.found /\ ScenarioValid(file)

LoadScenario ==
    /\ stage = "load" /\ ScenarioLoads(case.opts, case.file) /\ case.opts.target
    /\ stage' = "pick"
    /\ UNCHANGED <<case, kind, armed, targets, exit>>

\* No scenario or two, an unknown or invalid one, or no target.
LoadFails ==
    /\ stage = "load" /\ ~(ScenarioLoads(case.opts, case.file) /\ case.opts.target)
    /\ EndsWith("usage")

-----------------------------------------------------------------------------
(* pickInjector *)

HasHTTP(file) ==
    \E i \in DOMAIN file.experiments :
        IsFixtureDriven(file.experiments[i]) \/ MatchIsHTTP(file.experiments[i].match)

HasSyscall(file) == \E i \in DOMAIN file.experiments : MatchIsSyscall(file.experiments[i].match)

\* The leading <major>.<minor> of the kernel's release; -1 is not a number.
KernelAtLeast(release, major, minor) ==
    /\ release.dotted /\ release.major # -1
    /\ \/ release.major > major
       \/ release.major = major /\ release.minor # -1 /\ release.minor >= minor

BPFCaps == {"CAP_NET_ADMIN", "CAP_PERFMON", "CAP_BPF"}

\* A release that cannot be read is not held against the machine.
EbpfAvailable(machine) ==
    /\ machine.os = "linux" /\ machine.arch = "amd64"
    /\ machine.release.readable => KernelAtLeast(machine.release, 5, 8)
    /\ machine.root \/ BPFCaps \subseteq machine.caps

ProxyKind(opts) == IF opts.baseURL THEN "origin" ELSE "forward"

\* The tests for eBPF mode with the machine asked first.
PickEbpfMachineFirst(opts, machine) ==
    IF ~EbpfAvailable(machine) THEN "internal"
    ELSE IF opts.baseURL \/ opts.provider # Absent THEN "usage" ELSE "ebpf"

\* The flags of the proxy are refused before the machine is asked.
PickEbpf(opts, machine) ==
    IF opts.baseURL \/ opts.provider # Absent THEN "usage"
    ELSE IF EbpfAvailable(machine) THEN "ebpf" ELSE "internal"

\* The injector, or the kind of error.
PickInjector(file, opts, machine) ==
    IF opts.provider \notin ProviderIDs \cup {Absent} THEN "usage"
    ELSE CASE opts.mode = "auto"  -> IF HasHTTP(file) THEN ProxyKind(opts)
                                     ELSE IF HasSyscall(file) THEN PickEbpf(opts, machine)
                                     ELSE "internal"
           [] opts.mode = "proxy" -> IF HasHTTP(file) THEN ProxyKind(opts) ELSE "usage"
           [] opts.mode = "ebpf"  -> IF HasSyscall(file) THEN PickEbpf(opts, machine) ELSE "usage"
           [] OTHER               -> "usage"

Pick ==
    /\ stage = "pick"
    /\ LET picked == PickInjector(case.file, case.opts, case.machine)
       IN  IF picked \in {"usage", "internal"} THEN EndsWith(picked)
           ELSE /\ stage' = "start" /\ kind' = picked
                /\ UNCHANGED <<case, armed, targets, exit>>

-----------------------------------------------------------------------------
(* Start *)

Expanded == ExpandScenario(case.file.experiments, case.opts.provider)

AllExpandable ==
    \A i \in DOMAIN case.file.experiments :
        Expandable(case.file.experiments[i], case.opts.provider)

Starts(exps, providers) ==
    /\ stage' = "serving" /\ armed' = exps /\ targets' = providers
    /\ UNCHANGED <<case, kind, exit>>

StartForward ==
    /\ stage = "start" /\ kind = "forward" /\ AllExpandable
    /\ Starts(Expanded, {})

\* The base URLs of the providers that the scenario's hosts cover.
StartBaseURL ==
    /\ stage = "start" /\ kind = "origin" /\ AllExpandable
    /\ LET providers == ProvidersForHostGlobs(ScenarioHTTPHosts(Expanded))
       IN  providers # {} /\ Starts(Expanded, providers)

SyscallExperiments ==
    {i \in DOMAIN case.file.experiments : MatchIsSyscall(case.file.experiments[i].match)}

\* The gate: there are two programs.
HasProgram(exp) ==
    <<exp.match.syscall, exp.fault.errno>> \in {<<"recvmsg", "ECONNRESET">>, <<"openat", "EACCES">>}

\* The first system call experiment chooses the program; there are no others.
StartEbpf ==
    /\ stage = "start" /\ kind = "ebpf"
    /\ SyscallExperiments # {}
    /\ LET exp == case.file.experiments[Min(SyscallExperiments)]
       IN  HasProgram(exp) /\ Starts(<<exp>>, {})

\* Nothing to expand to, no provider, no program; or the certificate, the
\* listener or the kernel fails.
StartFails == stage = "start" /\ EndsWith("internal")

Select ==
    \/ LoadScenario \/ LoadFails \/ Pick
    \/ StartForward \/ StartBaseURL \/ StartEbpf \/ StartFails

-----------------------------------------------------------------------------
(* Properties *)

\* Every variable ranges over the values the code can give it.
SelectionTypeOK ==
    /\ stage \in {"load", "pick", "start", "serving", "exited"}
    /\ kind \in {"none", "forward", "origin", "ebpf"}
    /\ \A i \in DOMAIN armed : ExperimentValid(armed[i]) /\ ~IsFixtureDriven(armed[i])
    /\ targets \subseteq Registered
    /\ exit \in {Running, ExitUsage, ExitInternalError}

Machines == {c.machine : c \in Cases}

\* Exit code 4 blames the user and nothing else: the same command line ends
\* with it on every machine, and a machine that lacks something never hides it.
UsageIsTheUsers ==
    exit # Running =>
        (exit = ExitUsage <=>
            \/ ~ScenarioLoads(case.opts, case.file) \/ ~case.opts.target
            \/ \A machine \in Machines :
                  PickInjector(case.file, case.opts, machine) = "usage")

\* What is known of the case at each stage: the inductive form of the last.
Known ==
    /\ case \in Cases
    /\ stage # "exited" => exit = Running
    /\ stage \in {"pick", "start", "serving"} =>
          ScenarioLoads(case.opts, case.file) /\ case.opts.target
    /\ stage \in {"start", "serving"} =>
          kind = PickInjector(case.file, case.opts, case.machine) /\ kind # "usage"
    /\ stage = "exited" => UsageIsTheUsers

\* An injector runs only if it can apply what it is for: a proxy all of the
\* scenario's experiments for HTTP and, for a failure mode, each fixture in
\* scope; eBPF mode the first experiment on a system call.
ArmedCompletely ==
    stage = "serving" =>
        IF kind = "ebpf" THEN
            armed # <<>> /\ ~case.opts.baseURL /\ case.opts.provider = Absent
        ELSE \A i \in DOMAIN case.file.experiments :
            LET exp == case.file.experiments[i]
                inScope == {id \in ProvidersWith(exp.failure) :
                               /\ exp.provider # Absent => id = exp.provider
                               /\ exp.provider = Absent /\ case.opts.provider # Absent =>
                                     id = case.opts.provider}
            IN  IF ~IsFixtureDriven(exp) THEN \E k \in DOMAIN armed : armed[k] = exp
                ELSE /\ inScope # {}
                     /\ \A id \in inScope : \E k \in DOMAIN armed :
                            LET fixture == Catalog[exp.failure][id]
                            IN  /\ armed[k].fault = fixture.fault
                                /\ armed[k].match.path = fixture.path
                                /\ armed[k].match.host = ProviderByID(id).upstream

=============================================================================
