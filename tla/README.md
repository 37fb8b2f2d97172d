# A verification development of faultkit

faultkit runs a target program under injected faults and reports, by its exit
code and a JSON report, what the run proves. A run is worth as much as the
evidence chain behind it: a fault applied, its event recorded, drained, counted
and judged, with nothing left behind on the host. The modules here model that
chain, from the kernel hook or proxied response up to the exit code, together
with the concurrency it has to survive; TLC checks them on small instances and
TLAPS proves the main results for every value of the constants.

## 1. Inventory

| Component (source) | State | Operations | What is hard about it | What makes it correct |
|---|---|---|---|---|
| Contract and event channel (`internal/inject/inject.go`) | bounded channel | `TrySend`, `Start`, `Stop`, `Events` | drops when full; closed by `Stop` | a drop never loses the last evidence; nobody sends after the close |
| Forward proxy (`inject/proxy/proxy.go`, `server.go`, `faulter.go`, `ca.go`, vendored `martian/v3/proxy.go`) | listener, accept loop, a handler per connection, CA file, `seen` | `Start`, accept, CONNECT tunnel, `ModifyRequest`, `ModifyResponse`, write, `Stop` | connections accepted while `Close` runs, wait under a lock, keep-alive, clients that leave | handlers quiesced before the CA and channel go; fault recorded before it is seen; `Stop` ends |
| SSE cut-off (`inject/proxy/streaming.go`) | a goroutine and pipe per wrapped response | scan, forward, cut, `Close` | goroutine outlives its handler, scanner errors | budget of deltas kept; goroutine exits; no late event |
| Run (`cli/run.go`, `runner/runner.go`) | injector, child process, signal context, drain goroutine | load, start, spawn, wait, stop, drain, judge | signals, SIGINT ignored, spawn failures | target never runs without its injector; run ends; report complete |
| Verdict (`report/report.go`, `cli/run.go`, `cli/cli.go`) | pure | `verdictFor`, outcome, exit code | two derivations of one fact | codes 0 and 3 mean what they say |
| eBPF injector (`inject/ebpf/ebpf_linux.go`) | BPF objects, kprobes, ring-buffer reader, reader goroutine | `Start`, `SetTargetPID`, `readEvents`, `Stop` | partial attach, reader racing `Stop`, read errors | host left clean; reader joined; evidence kept |
| BPF programs (`bpf/*.c`, `common.bpf.h`) | `fault_config` LRU map, `fault_events` ring | `maybe_inject`, fork hook, exit hook | hooks race each other, PIDs are reused, map fills | only the target's tree, and all of it |
| Base-URL mode (`inject/proxy/origin.go`, `proxy.go`) | HTTP server, a handler per request, cut-off goroutines | `ServeHTTP`, reverse proxy, `Start`, `Stop` | `Close` does not wait for handlers; the event follows the write | a fault the target has whole is on record; nothing reaches the target after `Stop`; handlers left behind end |
| Scenario (`pkg/scenario`) | a parsed file | `Validate` | which combinations of fields are refused | what is refused is what no injector could apply |
| Catalog, expansion (`providers.go`, `expand.go`, `fixtures/`, `response.go`) | tables of providers and failure modes | fan-out over providers, scope, response | two flags and two fields select the fixtures; hosts described twice | a failure mode arms every fixture in scope and answers in its provider's shape |
| Matcher (`matcher.go`, base URLs in `providers.go`) | ordered experiments | `globMatch`, first match, prefix routes | shadowing by order, hosts in capitals, ports, paths split between SDK and base URL | the experiment that fires is the first that concerns the call, in both modes |
| Selection (`cli/run.go`, `inject_linux.go`, `modes.go`) | none beyond the run | `pickInjector`, probes of the machine | several errors at once | exit code 4 is the user's error and nothing else |
| Other commands (`cli/*.go`) | none | list, show, print | little | covered by unit tests |

The command line starts one injector, then the target under the runner, and
stops the injector once the target is reaped. The proxy learns of the target
through its connections, the eBPF injector through `SetTargetPID`. Both report
through the event channel only; the CLI drains it in a goroutine of its own and
reads nothing else, except the proxy's count of requests.

`PROJECT.json` lists the components with their status, the hazards at their
lines, the source lines of every definition, the runs, mutants, findings and
theorems.

## 2. Modules

| Module | Models |
|---|---|
| `Events` | `TrySend` on a bounded channel; used by all injectors |
| `InjectorContract` | what `inject.Injector` promises: an abstract injector, with faults offered, observed by the target, queued and collected |
| `ForwardProxy` (+ `MCForwardProxy`) | forward proxy, martian and the cut-off goroutine, in one module because their interleaving is the point |
| `OriginProxy` | base-URL mode: `http.Server`, the handler, `httputil.ReverseProxy`, the cut-off goroutine and `Stop` |
| `Verdict` | verdict, outcome and exit code as functions |
| `FaultkitRun` | `runFaultkit` and the runner over an `InjectorContract` |
| `EbpfInjector` | the user-space half of eBPF mode, with `maybe_inject` as the source of records |
| `ProcessTree` (+ `MCProcessTree`) | the `fault_config` map and the kernel's processes: who is faulted |
| `Scenario` | experiments and `Validate` |
| `Catalog` | the provider registry, the failure modes with their fixtures, the status and shape of a made-up response |
| `Matching` | `globMatch`, host normalisation, first match, fixture expansion, base URLs and routes |
| `Selection` | command line to started injector: `loadScenario`, `pickInjector`, the probes, what `Start` arms |
| `Decision` (+ `MCDecision`) | `Selection`, and then one request or system call after the other: which experiment, the dice, the answer |
| `MatchingProofs` | lemmas and theorems about the operators of `Catalog`, `Matching` and `Decision` |
| `EventsProofs`, `ForwardProxyProofs`, `OriginProxyProofs`, `FaultkitRunProofs`, `EbpfInjectorProofs`, `ProcessTreeProofs`, `DecisionProofs` | the theorems about the specifications |

Composition: `FaultkitRun` extends `InjectorContract`, so it holds over any
injector that keeps the contract. `ForwardProxy` and `OriginProxy` each
instantiate the contract with a refinement mapping and are shown to implement
it, the one with synthetic faults, the other until a cut-off is decided: the
goroutine of a cut-off may offer a second event, and late. `EbpfInjector`
implements it but for the event of a failed read, which is no fault; it promises
nothing of the order in which a fault is offered and seen, since the kernel
applies the fault before its record is read. `Decision` extends
`Selection`, `Matching`, `Catalog` and `Scenario` and refines choices the other
modules leave open: `PrepareFails` of `FaultkitRun` is `LoadFails` and the
errors of `Pick`, and the fault chosen in `HandleRequest` (`ForwardProxy`) and
`Request` (`OriginProxy`) is that of `Decide`. `EbpfInjector` and
`ProcessTree` split eBPF mode along the ring buffer: the first takes which calls
are hit as given, the second decides whose they are.

### ForwardProxy

`life` is how far `Start` and `Stop` have come, with `Stop` in its six steps:
`close(p.closing)`, the lock and wait of `Proxy.Close`, the listener, the CA
file, `close(i.events)`. `serve` is martian's accept loop, `pc[c]` the handler
of a connection: registering, reading, tunnel, round trip, response modifier,
and the write of the response in the three phases in which it can fail
differently (head, body, flush). `stream[r]` is the cut-off goroutine of a
wrapped response. A pipe write and the read it meets are one step, `ReadPipe`,
since `io.Pipe` is unbuffered. Hosts, paths and payloads are left out: which
experiment matches, and the dice, are the choice in `HandleRequest`. A client
does not pipeline and may leave at any moment. The round trip can end with a
plain body, an SSE body or an error. A panic in any goroutine ends the process,
so every action requires `Alive`.

### OriginProxy

Each request has its connection and its handler `pc[r]`. A synthetic response is
written first (`WriteSynthetic`), then its event is emitted, and only the return
of the handler completes the response for the target (`Finish`): what of it
arrives before is the choice in `MayReceive`. A forwarded request goes through
the round trip, `ModifyResponse` (the wrap and the event) and the copy loop,
which takes the stream of a cut-off out of its pipe line by line. `Stop` closes
the connections and the event channel while handlers go on: `Cancelled` is the
context that net/http cancels with the connection, `EmitPanics` the panic of a
send on the closed channel that net/http recovers, `ReportError` the one in the
cut-off goroutine, where nothing does. net/http and ReverseProxy are external,
and modelled as far as the handler depends on them.

### Selection and Decision

`stage` follows `runFaultkit` up to the running injector: `load`, `pick`,
`start`, `serving`, or `exited` with an exit code. A case is a command line, a
scenario file and a machine (system, architecture, kernel release, root,
capabilities), with the requests the target is going to make. `Pick` is
`pickInjector` with its tests in their order; `StartForward`, `StartBaseURL` and
`StartEbpf` are what each `Start` arms the injector with. While it serves, a
request is matched and rolled for (`Decide`): through the forward proxy under
the host it names, in base-URL mode under the path the SDK builds from the base
URL it was given. Hosts, paths and globs are sequences of words; `*` stands for
any number of words and `?` for one. Probabilities are integers out of 10000.
The catalog maps a failure mode to a map from provider to fixture, as the Go
tables do.

Two assumptions say what a case is. `CasesAssumption`: the decoder has given
the experiments the types of their fields, a name counts as one word (expansion
puts the provider behind it), and a builtin scenario is valid, since it was
validated when it was registered. `RequestsAssumption`: a request has its host
in plain form, without a colon or a final dot, and flags for how the client
writes it (capitals, a final dot, a port); only a CONNECT lacks a path.

`Covers` and `Concerns` say, without following the code, what a glob, an
experiment and a failure mode are about; the properties compare the two.

### FaultkitRun

`main` follows `runFaultkit` statement by statement; `target` is the child,
`ctxDone` the signal context, `KillTarget` the WaitDelay timer of `os/exec`.
Faults fire and are seen only while the target runs, by the actions of the
contract. A target interrupted by a signal ends with an error of `Wait`, as
`os/exec` does, even if it exits with 0.

### EbpfInjector

`main` follows `Start` (load, the kprobes one by one, reader goroutine) with the
cleanup each failure does, and `Stop` line by line. `Inject` is `maybe_inject`
of a registered process: it overrides the call whether or not the ring has
room, as the C code does. A failed attach closes links and collection but not
the reader, which keeps the ring mapped until `Stop` or the end of the process;
`HostLeftClean` claims a closed reader only of a `Stop` that is done. `Stop` may be called after a `Start` that failed: the
CLI does not do so, the package's tests do.

### ProcessTree

`proc[p]` is the process that holds a PID, if any; `headless` is a process whose
main thread is gone while others run. The fork hook is two steps, lookup and
update (`Fork` or `Clone`, then `TrackFork`), because other threads of the same
process run beside it; the child itself cannot run before the hook has finished.
`threads` is chosen once per behaviour. An update may evict any other entries, since the LRU map of the
kernel takes a node before it looks for the key and may reclaim before it is
full; it must when the map is full. `marked` is a history variable:
processes entered during their life and not evicted. The processes and PIDs of
the kernel are external; what the hooks do is the code's.

## 3. Runs

| Run | Shows | Instance |
|---|---|---|
| `ForwardProxySynthetic` | no handler serves after `Close`, whatever is accepted meanwhile; no late send; faults recorded before their first byte is written; evidence survives drops; CA file tidy; implements the contract | 2 connections, 2 requests, channel of 1 |
| `ForwardProxyCutoff` | cut-offs: a stream is cut at its budget of deltas exactly; `Stop` completes if upstreams answer; a cut-off goroutine exits in any case once its handler failed in mid-stream | 2 connections, 1 request, cut at 2, 2 lines, channel of 1 |
| `OriginProxy` | a complete fault is on record, a fault applied leaves its event unless `Stop` came first, nothing is delivered after `Close`, only a cut-off can end the process, `Stop` completes and the handlers left behind end, evidence survives drops; implements the contract | 2 requests, both kinds of fault, cut at 1, channel of 1 |
| `Decision` | the first experiment that concerns a call wins, in both modes; the providers intercepted are those concerned; made-up errors have their provider's shape; exit code 4 is the user's; all that is in scope is armed | the cases of `MCDecision` |
| `FaultkitRun` | exit codes 0 and 3 are earned, shutdown is orderly, evidence is kept, a cancelled run ends | 3 faults, channel of 1 |
| `EbpfInjector` | reader joined before the close, host left clean, evidence survives a full ring and a full channel, `Stop` completes; implements the contract | 3 calls, 4 kprobes, ring of 2, channel of 1 |
| `ProcessTree` | entered processes stay entered unless evicted; without threads the fault stays in the tree | 3 PIDs, map of 2 |
| `LateEvent` | *violated*: a cut-off goroutine sends after the channel is closed, and the process panics | 1 connection, 1 request |
| `FiredUnapplied` | *violated*: an event says fired, the response went through whole | 1 connection, 1 request |
| `VerdictDisagrees` | *violated*: exit code 1 with verdict `invalid_evidence` | 1 fault |
| `EbpfStopHangs` | *violated*: `Stop` after a failed attach waits for ever | 1 call |
| `EarlyFork` | *violated*: a child forked before `SetTargetPID` is never registered | 3 PIDs |

The violated properties state what a comment or document of the repository
says; `findings` in `PROJECT.json` quotes it. Each property of the passing runs
has a mutant: a plausible bug in a mapped definition that makes the property
fail.

**Why the bounds are enough.** The channel, ring and map are smaller than what
goes into them, so every run drops and evicts. Two connections give one that is
served while another is accepted during `Close`, and two requests a keep-alive
connection with a second request after a fault. A cut at 2 with 2 lines has streams that
end before the cut and streams that reach it; non-delta lines are a choice per line.
In `ForwardProxyCutoff` the second connection is the one that is accepted while
`Close` waits for the first. `OriginProxy` needs no bound on the lines of a
stream, since they are not counted; its two requests are enough for a handler
that outlives `Stop` beside one that fills the channel. `MCDecision` has ten
valid experiments alone and in ordered pairs, so that each comes before and
behind each other one; four that no injector can serve and nine invalid ones;
the modes, `--provider` and `--base-url`; nine machines; requests for each kind
of host in the registry and one outside; and every glob of one to three words
against every host of one to three, which `FirstMatchWins` compares with `Covers`. Four
kprobes are what the larger program has. Three PIDs give the target, a child
and an outsider, and reuse of each other's PIDs. The bounds in guards are
`MaxLines` (lines of an upstream stream of `ForwardProxy`), and the sizes of `Conn`, `Req`,
`Call` and `Occurrence`, each element of which is used once. `seen` grows with the
requests only.

Runs disable the deadlock check: a run of faultkit ends, and so do its models.

**Fairness.** `ProgramFairness` is the Go scheduler (a goroutine that can step
does), together with the socket deadline that martian sets and that ends an
idle read. `UpstreamFairness` says that upstreams answer and their bodies end;
nothing in the code enforces it, since the round trip has no timeout and `Stop`
ignores its context, so it is an explicit premise of `StopCompletes` and absent
from `StreamExits`. It uses strong fairness for the end of a body because a
handler may leave the copy and the next request come back to it. `OriginProxy` asks nothing of upstreams: the scheduler is fair, and so, strongly,
is the read with which a scanner meets the cancelled body, since the lines it
has buffered before are finitely many. In
`FaultkitRun` the scheduler, the delivery of the cancellation and the WaitDelay
timer are fair; the target's own exit is not. The fairness of `Main` includes
that `injector.Stop` returns, so `CancelEnds` holds of a real run as far as its
injector's `StopCompletes` does: in base-URL mode, and in eBPF mode once `Start`
has succeeded, without further condition; with the forward proxy only if the
upstreams answer, since a handler in a round trip keeps `Close` waiting and a
second signal has no effect. In `EbpfInjector` the reader,
`Stop` and the drain are; `StopCompletes` is claimed for an injector whose
reader goroutine was started, and `EbpfStopHangs` shows why.

## 4. Proofs

Theorems say `Spec => []P`, or that a specification implements the contract, for
every finite or infinite set of connections, requests, calls, occurrences and
cases and every capacity (PIDs are finite), from the named assumptions in the
modules that declare the constants. Those of `MatchingProofs` are about
operators, for all arguments. Every safety property that a passing run checks is
stated by a theorem.

- `EventsProofs`: what `TrySend` returns. It never exceeds the capacity and
  never leaves the channel empty: the one fact all evidence results rest on. A
  channel of events mapped to the requests they are about takes and drops with
  the channel itself (`RequestsTrySend`, `RequestsDrain`): the refinement
  mapping of both proxies.
- `ForwardProxyProofs`: `TypeCorrect`, `Quiesced`, `EvidenceIsKept`,
  `RecordedFirst`, `CutBudgetHolds`, `CAFileIsTidy`, and `NoLateSend` for
  scenarios without cut-offs. They share the inductive invariant `IInv`.
  `HandlersQuiesced` alone is inductive only because a handler that registers
  late finds `closing` set; `CutBudget` needs that a request is held by one
  handler and wrapped at most once (`OneHandlerPerRequest`), `RecordedBeforeSeen`
  that a body is synthetic or wrapped only after its event was offered
  (`RecordedBeforeWritten`) and that a handler past `ModifyResponse` has offered
  it (`RecordedBeforeFirstByte`), and `CAFileLifetime` the lifecycle of the file
  relative to `life` (`Lifecycle`). `NoLateSend` needs in addition that no
  cut-off goroutine exists. `Implements` maps every step to the contract; the
  steps that matter are `ApplySynthetic` (an `Offer`, once per request and while
  the contract's injector runs, from `Pending`, `HandlersQuiesced` and
  `Lifecycle`) and `FlushOK` (an `Observe`, from `RecordedBeforeWritten`).
  `HandlersQuiesced`, `RecordedBeforeSeen` and `EvidenceKept` are proved with
  cut-offs too, and run with synthetic faults only.
- `OriginProxyProofs`: `TypeCorrect`, `RecordedFirst`, `AppliedIsOnRecord`,
  `EvidenceSurvives`, `CrashOnlyBehindCutoff`, `SilentAfterClose` and
  `Implements`, all from one inductive invariant `IInv`: `Stages` (what is
  decided, wrapped and delivered at each point of a handler), `OnRecord` (past
  `Emit` the event is on record, unless the channel was closed by then) and
  `Connections` (none is open once `Close` has returned, which is why a late
  handler delivers nothing and cannot complete a response).
- `FaultkitRunProofs`: `EvidenceHolds` (from the contract: every action of a
  run is a step of the contract or leaves it alone), `ShutdownIsOrderly`,
  `GreenIsEarnedAlways` and `NotFiredIsTrueAlways`. The last two need that the
  run judges only after the injector has stopped and the channel is drained, so
  that `collected` is all the evidence there will be. `TypeCorrect` rests on
  the same lemmas.
- `EbpfInjectorProofs`: `TypeCorrect`, `NoLateSend`, `HostIsLeftClean`,
  `EvidenceIsNotDropped` and `Implements`, from `Phases` (what is held at which
  point of `Start` and `Stop`), `OnlyFaults` (until the reader ends only faults
  are queued, so a full channel holds one) and `EachOnce` (no record is twice in
  the ring, nor there while it is sent or after, so a fault is offered once).
- `ProcessTreeProofs`: `TypeCorrect`, `KeptAlways` and `FaultIsContained`, from
  `Owners` (a thread in the fork hook belongs to a live process and wakes a task
  that nothing else wakes; a free PID is not marked) and `ContainedInv` (a hook
  under way enters a process of the tree; an ended process has no entry).
- `MatchingProofs`: what the algorithms compute, for every input.
  - `GlobMatchIsCovers`: the matcher's table, filled from the right, and the
    reference `Covers`, filled from the left, agree on every glob and every host
    or path. Both tables are related
    to one condition, that glob and host can be cut at the same place, and it is
    carried from one end of the glob to the other.
  - `ExpandScenarioIs`: expansion is a flattening that keeps order. Its proof
    follows `FlattenSeq` of the community modules through its recursive function
    (`FlattensStep`, `FlattenSeqFlattens`); `origin` maps an expanded experiment
    to the one it comes from.
  - `SDKCallIsRouted`: the path an SDK builds on its base URL has exactly one
    route, to its provider, with the path of the original call.
  - Lemmas the next module needs: the whole catalog is coherent (`CatalogOK`), so
    that what expansion makes of a valid experiment is valid (`RealizeIsValid`);
    a host comes out of `NormalizeHost` as it went into `RawHost`
    (`NormalizeUndoesRawHost`); a provider's host glob takes no host that another
    vendor's template would take (`TemplateFitsGlob`).

  Induction is by `SetInduction`, induction on a set of naturals, derived from
  the well-foundedness of the naturals because the induction theorems of the
  library take an operator.
- `DecisionProofs`: the invariant is `Known` (what is known of the case at each
  stage), `Started` (an injector that runs still has what it was started with,
  and nobody else has answered) and `Replied` (a reply is for at most one
  experiment).
  - `UsageIsAlwaysTheUsers` rests on `Known` and on the lemma that `pickInjector`
    either refuses a command line and scenario on every machine or on none.
  - `DecisionIsTyped` needs that armed experiments are valid, `CatalogOK` again.
  - `InjectorsAreArmedCompletely` is `ExpandScenarioIs` read at `Started`.
  - `FirstMatchAlwaysWins` and `BaseURLModeAlwaysAgrees` add to the invariant
    that an answered request has the right experiment. It is
    inductive because the first match of the flat list is, through `origin`, an
    expansion of the first experiment concerned (`FirstConcerned`), and because
    both modes come to `MatchHostPath` with the same host and path
    (`ForwardFinds`, from `NormalizeUndoesRawHost`; `OriginFinds`, from
    `SDKPathIs` and `RouteOfSDKPath`).
  - `TargetsAreAlwaysConcerned`: the providers intercepted are those whose host
    glob is one of the expanded scenario's.
  - `VendorIsAlwaysAccurate`: `VendorAccurate` is inductive given `Known` and
    `Started`; a matched expansion carries its provider's glob
    (`VendorOfMatch`), and `TemplateFitsGlob` does the rest.

Model-checked only: the liveness properties (`StopCompletes` of three modules,
`StreamExits`, `CancelEnds`), which are outside what the provers do, and the
properties that are violated.

## 5. What is not modelled

- The bytes and headers of made-up payloads (a table per provider, compared by
  unit tests; their status and shape are in `Catalog`), including a
  `Content-Length` a scenario sets itself, and 1xx statuses.
- YAML parsing, a probability of NaN, the registration of builtins at init.
- The other commands, the extension point, and the generated BPF bindings with
  the stub for other systems, which refuses every operation.
- Key generation and the certificates of the forward proxy; TLS, traffic
  shaping, hijacking, websockets in martian: not used, or below the level of the
  properties.
- Keep-alive in base-URL mode: a request has a connection of its own there.
- Connections that a 101 response upgrades in base-URL mode. `http.Server.Close`
  leaves hijacked connections open, so `NothingAfterClose` is not about them.
- Scanning and reporting by a cut-off goroutine before its handler has emitted
  the fired event: `ApplyCutoff` starts it and emits in one step. It changes the
  order of the two events of a request, and with it which of them a full channel
  drops; no line is taken out of the pipe before the head is written.
- What a client makes of a cut stream. `docs/yaml-schema.md:107` says the
  connection is dropped; in the code the body ends regularly and the connection
  is kept.
- The identity of processes beyond their PID, and `execve` from a thread other
  than the main one.

What is modelled, but beyond the properties that hold:

- Records left in the ring when the reader is closed or has failed, and faults
  applied until the kprobes are detached, never become events.
  `EvidenceNotDropped` therefore counts a record in the ring as evidence. When
  it is the only one, the fault was applied and the run ends with exit code 3;
  `Inject`, `ReadClosed` and `ReadFails` have these steps.
- `Contained` is about targets without threads, until the target is reaped.
  Beyond that an entry may outlive its process and fault the next one with its
  PID: `SetTargetPID` may enter a target that has ended, and `TrackFork` may
  enter a process again whose main thread has just left.
- Evicted entries: `KeptWhileRunning` does not speak of them. With a map that
  evicts, `TreeIsRegistered` fails also without an early fork.
- `HeadFails`: a response whose head cannot be written leaves its pipe
  unclosed. `StreamExits` is therefore about streams whose body is being read.
  In base-URL mode a panic in `ModifyResponse` after `Stop` does the same.

## 6. Plan

1. The second event of a cut-off, and the event of a failed read, in the
   contract, so that the refinements need no exception; then what such events
   may push out of a full channel.
2. The order of applying and offering in the contract, with the weaker promise
   that eBPF mode keeps.
3. The evidence of `ForwardProxy` derived from `Implements` and the contract
   alone, in place of the direct proof.
