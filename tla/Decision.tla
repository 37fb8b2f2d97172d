------------------------------ MODULE Decision ------------------------------
(***************************************************************************)
(* What a running injector does to one request or system call of the       *)
(* target: the experiment that is found for it, the dice, and the answer   *)
(* (inject/proxy/faulter.go, inject/proxy/origin.go, the BPF programs).    *)
(* Requests come one after the other; what happens when they overlap is    *)
(* the subject of ForwardProxy and OriginProxy.                            *)
(***************************************************************************)
EXTENDS Selection

VARIABLES
    seen,  \* a request has reached faultkit (RequestsSeen is not zero)
    reply  \* the last request and what became of it

vars == <<selectionVars, seen, reply>>

RequestType ==
    [host : Seq(Word) \ {<<>>}, path : Seq(Word), capitals : BOOLEAN, dot : BOOLEAN,
     port : BOOLEAN, connect : BOOLEAN]

\* A request has its host in its plain form; flags say how the client writes
\* it.  Only a CONNECT lacks a path, which starts with a slash.
ASSUME RequestsAssumption ==
    \A c \in Cases : \A request \in c.requests :
        /\ request \in RequestType
        /\ \A i \in DOMAIN request.host : request.host[i] \notin {":", "OPENAI"}
        /\ Last(request.host) # "."
        /\ ~request.connect => IsPrefix(<<"/">>, request.path)

NoRequest == [host |-> <<>>, path |-> <<>>, capitals |-> FALSE, dot |-> FALSE,
              port |-> FALSE, connect |-> FALSE]

NoReply == [request |-> NoRequest, found |-> <<>>, fired |-> FALSE, body |-> "none", status |-> 0]

Init == SelectionInit /\ seen = FALSE /\ reply = NoReply

\* rng.Float64() < p: never at 0, always at 1.
Rolls(probability) == {hit \in BOOLEAN : IF hit THEN probability > 0 ELSE probability < Certain}

\* What the target gets: the upstream's answer, cut off or whole, or another.
Answer(host, exp) ==
    IF exp.fault.cutoff # 0 THEN [status |-> 0, body |-> "cut"] ELSE Build(host, exp.fault)

\* The decision for a request, as the target will see it.
Decide(request, host, found) ==
    \E hit \in IF found = <<>> THEN {FALSE} ELSE Rolls(Head(found).probability) :
        LET answer == IF hit THEN Answer(host, Head(found)) ELSE [status |-> 0, body |-> "upstream"]
        IN  reply' = [request |-> request, found |-> found, fired |-> hit,
                      status |-> answer.status, body |-> answer.body]

-----------------------------------------------------------------------------
(* Forward proxy *)

\* The host as the client puts it into the request.
RawHost(request) ==
    [i \in DOMAIN request.host |->
        IF request.capitals /\ request.host[i] = "openai" THEN "OPENAI" ELSE request.host[i]]
    \o (IF request.dot THEN <<".">> ELSE <<>>) \o (IF request.port THEN <<":", "443">> ELSE <<>>)

ForwardRequest(request) ==
    /\ stage = "serving" /\ kind = "forward"
    /\ seen' = (seen \/ ~request.connect)
    /\ Decide(request, NormalizeHost(RawHost(request)),
              MatchRequest(armed, [request EXCEPT !.host = RawHost(request)]))
    /\ UNCHANGED selectionVars

-----------------------------------------------------------------------------
(* Base-URL mode *)

\* The SDK of a provider that was pointed at faultkit calls the API: it puts
\* the rest of the path behind its base URL.
SDKPath(p, request) ==
    BaseURL(p) \o SubSeq(request.path, Len(p.apiBase) + 1, Len(request.path))

OriginRequest(request) ==
    /\ stage = "serving" /\ kind = "origin" /\ ~request.connect
    /\ \E p \in targets :
          /\ p.upstream = request.host
          /\ IsPrefix(p.apiBase, request.path)
          /\ \E route \in Routes(SDKPath(p, request)) :
                Decide(request, route.provider.upstream,
                       MatchHostPath(armed, route.provider.upstream, route.rest))
    /\ seen' = TRUE
    /\ UNCHANGED selectionVars

\* A path without a provider's prefix is answered with 404.
StrayRequest(request) ==
    /\ stage = "serving" /\ kind = "origin" /\ ~request.connect
    /\ Routes(request.path) = {}
    /\ seen' = TRUE
    /\ reply' = [NoReply EXCEPT !.status = 404, !.body = "unrecognized"]
    /\ UNCHANGED selectionVars

-----------------------------------------------------------------------------
(* eBPF mode *)

\* uint32(p * 1000): what the program compares its dice with.
PerThousand(exp) == exp.probability \div 10

Hooks(exp) == IF exp.match.syscall = "recvmsg" THEN {"recvmsg", "recvfrom"} ELSE {"openat"}

SystemCall(call) ==
    /\ stage = "serving" /\ kind = "ebpf"
    /\ call \in Hooks(Head(armed))
    /\ \E hit \in {h \in BOOLEAN : IF h THEN PerThousand(Head(armed)) > 0
                                        ELSE PerThousand(Head(armed)) < 1000} :
          reply' = [NoReply EXCEPT !.found = armed, !.fired = hit,
                                   !.body = IF hit THEN Head(armed).fault.errno ELSE "kernel"]
    /\ UNCHANGED <<selectionVars, seen>>

Next ==
    \/ Select /\ UNCHANGED <<seen, reply>>
    \/ \E request \in case.requests :
          ForwardRequest(request) \/ OriginRequest(request) \/ StrayRequest(request)
    \/ \E call \in {"recvmsg", "recvfrom", "openat"} : SystemCall(call)

Spec == Init /\ [][Next]_vars

-----------------------------------------------------------------------------
(* What the documentation says of globs, order and failure modes *)

\* A glob read from the left: the lengths of what its first i words can match.
Covers(glob, s) ==
    LET lengths[i \in 0 .. Len(glob)] ==
          IF i = 0 THEN {0}
          ELSE LET shorter == lengths[i - 1]
               IN  IF glob[i] = "*" THEN {k \in 0 .. Len(s) : \E j \in shorter : j <= k}
                   ELSE {k \in 1 .. Len(s) : k - 1 \in shorter /\ glob[i] \in {"?", s[k]}}
    IN  Len(s) \in lengths[Len(glob)]

\* An experiment of the scenario covers a request: by its own globs, or by
\* those of a provider in scope that has the failure mode.
Concerns(exp, host, path) ==
    IF ~IsFixtureDriven(exp)
    THEN /\ exp.match.host # <<>> /\ Covers(exp.match.host, host)
         /\ exp.match.path # <<>> => Covers(exp.match.path, path)
    ELSE \E id \in ProvidersWith(exp.failure) :
            /\ \/ id = exp.provider
               \/ exp.provider = Absent /\ case.opts.provider \in {Absent, id}
            /\ Covers(ProviderByID(id).upstream, host)
            /\ Covers(Catalog[exp.failure][id].path, path)

\* The reply is that of the first experiment, in the order of the YAML, that
\* concerns the request; of none if there is none.
RightExperiment ==
    LET exps == case.file.experiments
        concerned == {i \in DOMAIN exps : Concerns(exps[i], reply.request.host, reply.request.path)}
    IN  IF concerned = {} \/ reply.request.connect THEN reply.found = <<>>
        ELSE /\ reply.found # <<>>
             /\ IsPrefix(exps[Min(concerned)].name, Head(reply.found).name)

Answered == reply.request # NoRequest

-----------------------------------------------------------------------------
(* Properties *)

\* Every variable ranges over the values the code can give it.
TypeOK ==
    /\ SelectionTypeOK
    /\ seen \in BOOLEAN
    /\ Len(reply.found) <= 1 /\ (reply.fired => reply.found # <<>>)

\* Through the forward proxy the first experiment that concerns a request wins,
\* whatever its host looks like in the request, after fan-out and filtering.
FirstMatchWins == Answered /\ kind = "forward" => RightExperiment

\* In base-URL mode an SDK call meets the experiment that the same API call
\* meets in the forward proxy, although it arrives under another host and path.
BaseURLModeAgrees == Answered /\ kind = "origin" => RightExperiment

\* A provider's SDK is pointed at faultkit if and only if an experiment is
\* about its host, so no provider is intercepted for nothing or forgotten.
TargetsAreConcerned ==
    stage = "serving" /\ kind = "origin" =>
        targets = {p \in Registered : ~ForwardProxyOnly(p) /\
                      \E i \in DOMAIN armed : Covers(armed[i].match.host, p.upstream)}

\* An error that a failure mode makes up has the shape of its provider: the
\* host glob of the registry and the host test of the templates fit together.
VendorAccurate ==
    Answered /\ reply.fired /\ Len(Head(reply.found).name) = 2 =>
        reply.body \in {"verbatim", "{}", "cut", Head(reply.found).name[2]}

=============================================================================
