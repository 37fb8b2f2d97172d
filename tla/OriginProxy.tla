----------------------------- MODULE OriginProxy -----------------------------
(***************************************************************************)
(* Base-URL mode (internal/inject/proxy): an http.Server the target's SDK  *)
(* is pointed at, whose handler makes up a response or forwards the        *)
(* request with httputil.ReverseProxy, and Injector.Stop, which closes     *)
(* that server without waiting for its handlers.  A request comes on a     *)
(* connection of its own.  Which experiment matches and what the dice say  *)
(* is a choice in Request; Decision says which choice.                     *)
(***************************************************************************)
EXTENDS Events

CONSTANTS
    Req,       \* requests, each with its connection
    Faults,    \* the kinds of fault the scenario can inject
    CutAt      \* stream_cutoff_tokens of the cut-off experiment

ASSUME OriginProxyAssumption ==
    /\ Faults \subseteq {"synthetic", "cutoff"}
    /\ CutAt \in Nat \ {0}

VARIABLES
    life,       \* how far Injector.Start or Injector.Stop has come
    serve,      \* the goroutine of http.Server.Serve
    pc,         \* program counter of each request's handler
    conn,       \* each connection
    fault,      \* the decision taken for each request
    stream,     \* program counter of the request's cut-off goroutine
    deltas,     \* eventCount: content deltas forwarded
    answer,     \* what the target has received for each request
    seen,       \* Faulter.seen
    offered,    \* requests whose fired event was handed to TrySend
    buf,        \* the event channel
    collected,  \* events the CLI has drained
    crashed     \* a send on the closed channel has ended the process

serverVars  == <<life, serve>>
handlerVars == <<pc, conn, fault>>
streamVars  == <<stream, deltas>>
eventVars   == <<offered, buf, crashed>>
vars == <<serverVars, handlerVars, streamVars, answer, seen, eventVars, collected>>

Alive == ~crashed
Over(r) == pc[r] \in {"none", "done", "panicked"}

Event(r, e) == [req |-> r, err |-> e]

Init ==
    /\ life = "new" /\ serve = "off"
    /\ pc = [r \in Req |-> "none"]
    /\ conn = [r \in Req |-> "none"]
    /\ fault = [r \in Req |-> "undecided"]
    /\ stream = [r \in Req |-> "off"]
    /\ deltas = [r \in Req |-> 0]
    /\ answer = [r \in Req |-> "nothing"]
    /\ seen = 0
    /\ offered = {} /\ buf = <<>> /\ crashed = FALSE
    /\ collected = {}

-----------------------------------------------------------------------------
(* startBaseURL and http.Server.Serve *)

\* No provider is supported, or the listener cannot be opened.
StartFails ==
    /\ life = "new" /\ life' = "failed"
    /\ UNCHANGED <<serve, handlerVars, streamVars, answer, seen, eventVars, collected>>

Listen ==
    /\ life = "new" /\ life' = "up"
    /\ UNCHANGED <<serve, handlerVars, streamVars, answer, seen, eventVars, collected>>

\* Serve registers the listener, unless Close was faster.
ServeStarts ==
    /\ Alive /\ serve = "off" /\ life \notin {"new", "failed"}
    /\ serve' = IF life = "up" THEN "accepting" ELSE "returned"
    /\ UNCHANGED <<life, handlerVars, streamVars, answer, seen, eventVars, collected>>

ServeEnds ==
    /\ Alive /\ serve = "accepting" /\ life # "up"
    /\ serve' = "returned"
    /\ UNCHANGED <<life, handlerVars, streamVars, answer, seen, eventVars, collected>>

Accept(r) ==
    /\ Alive /\ serve = "accepting" /\ life = "up" /\ pc[r] = "none"
    /\ pc' = [pc EXCEPT ![r] = "reading"]
    /\ conn' = [conn EXCEPT ![r] = "open"]
    /\ UNCHANGED <<serverVars, fault, streamVars, answer, seen, eventVars, collected>>

ClientLeaves(r) ==
    /\ Alive /\ conn[r] = "open"
    /\ conn' = [conn EXCEPT ![r] = "closed"]
    /\ UNCHANGED <<serverVars, pc, fault, streamVars, answer, seen, eventVars, collected>>

-----------------------------------------------------------------------------
(* originHandler.ServeHTTP *)

HandlerStep(r, from, to) ==
    /\ Alive /\ pc[r] = from /\ pc' = [pc EXCEPT ![r] = to]
    /\ UNCHANGED <<serverVars, conn, collected>>

\* A forwarded request that does not carry the context of its client's.
NeverCancelled(r) == FALSE

\* net/http cancels the context of a request whose connection is gone or whose
\* handler has returned; the round trip and the upstream body depend on it.
Cancelled(r) == conn[r] = "closed" \/ pc[r] \in {"done", "panicked"}

\* The server read the request, perhaps before its connection was closed.  One
\* with an unknown path is answered with 404.
Request(r) ==
    /\ seen' = seen + 1
    /\ \E f \in Faults \cup {"none"} :
          /\ fault' = [fault EXCEPT ![r] = f]
          /\ \E next \in CASE f = "synthetic" -> {"write"}
                           [] f = "cutoff"    -> {"roundtrip"}
                           [] OTHER           -> {"roundtrip", "finish"} :
                HandlerStep(r, "reading", next)
    /\ UNCHANGED <<streamVars, answer, eventVars>>

\* The connection closes, or stays silent beyond ReadHeaderTimeout.
ReadEnds(r) ==
    /\ Alive /\ pc[r] = "reading"
    /\ pc' = [pc EXCEPT ![r] = "done"]
    /\ conn' = [conn EXCEPT ![r] = "closed"]
    /\ UNCHANGED <<serverVars, fault, streamVars, answer, seen, eventVars, collected>>

\* What a write delivers: nothing if it stays in a buffer or the connection is
\* closed.
MayReceive(r) ==
    \E part \in {answer[r]} \cup (IF conn[r] = "open" THEN {"partial"} ELSE {}) :
        answer' = [answer EXCEPT ![r] = part]

\* A write whose errors end the handler.
WriteSyntheticChecked(r) ==
    /\ \E next \in IF conn[r] = "open" THEN {"emit"} ELSE {"emit", "finish"} :
          HandlerStep(r, "write", next)
    /\ MayReceive(r)
    /\ UNCHANGED <<fault, streamVars, seen, eventVars>>

\* A response written without an event.
WriteSyntheticSilently(r) ==
    /\ HandlerStep(r, "write", "finish")
    /\ MayReceive(r)
    /\ UNCHANGED <<fault, streamVars, seen, eventVars>>

\* writeSyntheticResponse writes first, and ignores the errors of writing.
WriteSynthetic(r) ==
    /\ HandlerStep(r, "write", "emit")
    /\ MayReceive(r)
    /\ UNCHANGED <<fault, streamVars, seen, eventVars>>

\* RoundTrip returns a response, and ModifyResponse wraps it if it is an SSE
\* stream to cut off.
UpstreamAnswers(r) ==
    /\ \/ fault[r] = "none" /\ HandlerStep(r, "roundtrip", "copy") /\ UNCHANGED stream
       \/ fault[r] = "cutoff" /\ HandlerStep(r, "roundtrip", "emit")
          /\ \E wrapped \in {"off", "scan"} : stream' = [stream EXCEPT ![r] = wrapped]
    /\ UNCHANGED <<fault, deltas, answer, seen, eventVars>>

\* A 502, without ModifyResponse and so without an event.
UpstreamFails(r) ==
    /\ HandlerStep(r, "roundtrip", "finish")
    /\ UNCHANGED <<fault, streamVars, answer, seen, eventVars>>

RoundTripCancelled(r) == Cancelled(r) /\ UpstreamFails(r)

AfterEmit(r) == IF fault[r] = "synthetic" THEN "finish" ELSE "copy"

\* The event sent from a goroutine of its own, where nothing recovers.
EmitDetached(r) ==
    /\ HandlerStep(r, "emit", AfterEmit(r))
    /\ IF life = "stopped" THEN crashed' = TRUE /\ UNCHANGED <<offered, buf>>
       ELSE /\ buf' = TrySend(buf, Event(r, FALSE)) /\ offered' = offered \cup {r}
            /\ UNCHANGED crashed
    /\ UNCHANGED <<fault, streamVars, answer, seen>>

Emit(r) ==
    /\ life # "stopped"
    /\ HandlerStep(r, "emit", AfterEmit(r))
    /\ buf' = TrySend(buf, Event(r, FALSE)) /\ offered' = offered \cup {r}
    /\ UNCHANGED <<fault, streamVars, answer, seen, crashed>>

\* A send on the closed channel panics.  net/http recovers it and closes the
\* connection; the body of a wrapped response is left open.
EmitPanics(r) ==
    /\ Alive /\ life = "stopped" /\ pc[r] = "emit"
    /\ pc' = [pc EXCEPT ![r] = "panicked"]
    /\ conn' = [conn EXCEPT ![r] = "closed"]
    /\ UNCHANGED <<serverVars, fault, streamVars, answer, seen, eventVars, collected>>

-----------------------------------------------------------------------------
(* ReverseProxy copies the body, and closes it when the copy is over *)

\* An upstream body that is not wrapped: more of it, its end, or an error.
ReadChunk(r) ==
    /\ stream[r] = "off" /\ ~Cancelled(r)
    /\ HandlerStep(r, "copy", "put")
    /\ UNCHANGED <<fault, streamVars, answer, seen, eventVars>>

BodyEnds(r) ==
    /\ stream[r] = "off"
    /\ HandlerStep(r, "copy", "finish")
    /\ UNCHANGED <<fault, streamVars, answer, seen, eventVars>>

\* ErrAbortHandler: the handler panics on purpose and the connection closes.
Abort(r, from) ==
    /\ Alive /\ pc[r] = from
    /\ pc' = [pc EXCEPT ![r] = "done"]
    /\ conn' = [conn EXCEPT ![r] = "closed"]
    /\ UNCHANGED <<serverVars, fault, streamVars, answer, seen, eventVars, collected>>

BodyBreaks(r) == stream[r] = "off" /\ Abort(r, "copy")

BodyCancelled(r) == Cancelled(r) /\ BodyBreaks(r)

\* The handler takes a line out of the pipe; the goroutine counts a content
\* delta and stops when the budget is spent.
ReadPipe(r) ==
    LET n == deltas[r] + (IF stream[r] = "delta" THEN 1 ELSE 0)
    IN  /\ stream[r] \in {"line", "delta"}
        /\ HandlerStep(r, "copy", "put")
        /\ deltas' = [deltas EXCEPT ![r] = n]
        /\ stream' = [stream EXCEPT ![r] = IF n >= CutAt THEN "exit" ELSE "scan"]
        /\ UNCHANGED <<fault, answer, seen, eventVars>>

PipeEOF(r) ==
    /\ stream[r] = "exit"
    /\ HandlerStep(r, "copy", "finish")
    /\ UNCHANGED <<fault, streamVars, answer, seen, eventVars>>

Put(r) ==
    /\ HandlerStep(r, "put", "copy")
    /\ MayReceive(r)
    /\ UNCHANGED <<fault, streamVars, seen, eventVars>>

PutFails(r) == conn[r] = "closed" /\ Abort(r, "put")

\* The handler returns: the server completes the response and flushes it.
Finish(r) ==
    /\ HandlerStep(r, "finish", "done")
    /\ answer' = [answer EXCEPT ![r] = IF conn[r] = "open" THEN "complete" ELSE @]
    /\ UNCHANGED <<fault, streamVars, seen, eventVars>>

-----------------------------------------------------------------------------
(* The goroutine wrapStreamCutoff starts *)

StreamStep(r, from, to) ==
    /\ Alive /\ stream[r] = from /\ stream' = [stream EXCEPT ![r] = to]
    /\ UNCHANGED <<serverVars, handlerVars, deltas, answer, seen, offered, collected>>

\* A line from upstream, or one the scanner had buffered.
ScanLine(r) ==
    /\ \E l \in {"line", "delta"} : StreamStep(r, "scan", l)
    /\ UNCHANGED <<buf, crashed>>

\* A clean end of the upstream stream, or an error.
ScanEnds(r) ==
    \E to \in {"exit", "report"} : StreamStep(r, "scan", to) /\ UNCHANGED <<buf, crashed>>

\* The scanner reads on into the cancelled body.
ScanCancelled(r) ==
    Cancelled(r) /\ StreamStep(r, "scan", "report") /\ UNCHANGED <<buf, crashed>>

\* pw.Write fails once ReverseProxy has closed the body, which it does not
\* after a panic in ModifyResponse.
PipeWriteFails(r) ==
    /\ pc[r] = "done"
    /\ \E l \in {"line", "delta"} : StreamStep(r, l, "exit")
    /\ UNCHANGED <<buf, crashed>>

\* emitErr, in a goroutine where nothing recovers a panic.
ReportError(r) ==
    /\ StreamStep(r, "report", "exit")
    /\ buf' = IF life = "stopped" THEN buf ELSE TrySend(buf, Event(r, TRUE))
    /\ crashed' = (life = "stopped")

-----------------------------------------------------------------------------
(* Injector.Stop and the drain *)

StopStep(from, to) ==
    /\ Alive /\ life = from /\ life' = to
    /\ UNCHANGED <<serve, pc, fault, streamVars, answer, seen, eventVars, collected>>

\* http.Server.Close: inShutdown and the listener, a wait for Serve, then
\* every connection, whatever its handler does.
BeginStop == StopStep("up", "closing") /\ UNCHANGED conn

\* Only the listener closed, as originLn.Close does.
CloseListenerOnly == serve # "accepting" /\ StopStep("closing", "closed") /\ UNCHANGED conn

\* http.Server.Shutdown without a deadline: it waits for the handlers.
Shutdown ==
    /\ serve # "accepting" /\ \A r \in Req : Over(r)
    /\ StopStep("closing", "closed")
    /\ conn' = [r \in Req |-> IF conn[r] = "open" THEN "closed" ELSE conn[r]]

\* http.Server.Close.  A connection that a 101 response has hijacked would stay
\* open; upgrades are not modelled.
CloseConns ==
    /\ serve # "accepting"
    /\ StopStep("closing", "closed")
    /\ conn' = [r \in Req |-> IF conn[r] = "open" THEN "closed" ELSE conn[r]]

CloseEvents == StopStep("closed", "stopped") /\ UNCHANGED conn

Drain ==
    /\ Alive /\ buf # <<>>
    /\ collected' = collected \cup {Head(buf)}
    /\ buf' = Tail(buf)
    /\ UNCHANGED <<serverVars, handlerVars, streamVars, answer, seen, offered, crashed>>

-----------------------------------------------------------------------------
Handler(r) ==
    \/ ReadEnds(r) \/ WriteSynthetic(r) \/ Emit(r) \/ EmitPanics(r)
    \/ RoundTripCancelled(r) \/ BodyCancelled(r)
    \/ ReadPipe(r) \/ PipeEOF(r) \/ Put(r) \/ PutFails(r) \/ Finish(r)

Stream(r) == ScanCancelled(r) \/ PipeWriteFails(r) \/ ReportError(r)

Target(r) == Accept(r) \/ ClientLeaves(r) \/ Request(r)

Upstream(r) ==
    \/ UpstreamAnswers(r) \/ UpstreamFails(r)
    \/ ReadChunk(r) \/ BodyEnds(r) \/ BodyBreaks(r)
    \/ ScanLine(r) \/ ScanEnds(r)

Next ==
    \/ StartFails \/ Listen \/ ServeStarts \/ ServeEnds
    \/ \E r \in Req : Target(r) \/ Handler(r) \/ Upstream(r) \/ Stream(r)
    \/ BeginStop \/ CloseConns \/ CloseEvents
    \/ Drain

\* The Go scheduler runs every goroutine.  Upstreams owe nothing; but the
\* lines a scanner has buffered come to an end, and then it meets the
\* cancellation.
Fairness ==
    /\ WF_vars(ServeStarts \/ ServeEnds)
    /\ \A r \in Req : WF_vars(Handler(r)) /\ WF_vars(Stream(r)) /\ SF_vars(ScanCancelled(r))
    /\ WF_vars(CloseConns \/ CloseEvents)

Spec == Init /\ [][Next]_vars

ProgramSpec == Spec /\ Fairness

-----------------------------------------------------------------------------
(* Properties *)

EventType == [req : Req, err : BOOLEAN]

\* Every variable ranges over the values the code can give it.
TypeOK ==
    /\ life \in {"new", "failed", "up", "closing", "closed", "stopped"}
    /\ serve \in {"off", "accepting", "returned"}
    /\ pc \in [Req -> {"none", "reading", "write", "roundtrip", "emit", "copy",
                       "put", "finish", "done", "panicked"}]
    /\ conn \in [Req -> {"none", "open", "closed"}]
    /\ fault \in [Req -> {"undecided", "none"} \cup Faults]
    /\ stream \in [Req -> {"off", "scan", "line", "delta", "report", "exit"}]
    /\ deltas \in [Req -> Nat]
    /\ answer \in [Req -> {"nothing", "partial", "complete"}]
    /\ seen \in Nat
    /\ offered \subseteq Req
    /\ buf \in Seq(EventType) /\ Len(buf) <= EventBuffer
    /\ collected \subseteq EventType
    /\ crashed \in BOOLEAN

\* Although a synthetic response is written before its event is emitted, the
\* target has all of it only after the event is on record; so with a stream
\* that a cut-off has wrapped.
RecordedBeforeComplete ==
    \A r \in Req : answer[r] = "complete" /\ (fault[r] = "synthetic" \/ stream[r] # "off")
                      => r \in offered

\* A handler that began a synthetic response leaves its event behind, even to
\* a target that has gone; only a stopped injector loses it.
AppliedIsRecorded ==
    \A r \in Req : fault[r] = "synthetic" /\ pc[r] \in {"finish", "done", "panicked"}
                      => r \in offered \/ life = "stopped"

\* Drops on a full channel never lose the last evidence.
EvidenceKept == offered # {} => buf # <<>> \/ collected # {}

\* Once Close has returned the target receives nothing more, though handlers
\* still run: what it got is what the events that can still be sent are about.
NothingAfterClose ==
    [][answer' # answer => life \notin {"closed", "stopped"}]_vars

\* Handlers that outlive Stop may panic on the closed channel, but that ends
\* the process only where net/http cannot recover: behind a cut-off.
CrashNeedsCutoff == crashed => \E r \in Req : fault[r] = "cutoff"

\* What is decided, wrapped and delivered at each point of a handler.
Stages ==
    \A r \in Req :
        /\ pc[r] \in {"none", "reading"} => fault[r] = "undecided" /\ answer[r] = "nothing"
        /\ pc[r] = "write" => fault[r] = "synthetic"
        /\ pc[r] \in {"roundtrip", "copy", "put"} => fault[r] # "synthetic"
        /\ pc[r] \in {"none", "reading", "write", "roundtrip"} => stream[r] = "off"
        /\ stream[r] # "off" => fault[r] = "cutoff"
        /\ answer[r] = "complete" => pc[r] = "done"

\* Past Emit an event is on record, unless the channel was closed by then.
OnRecord ==
    \A r \in Req :
        /\ pc[r] \in {"none", "reading", "write", "roundtrip", "emit"} => r \notin offered
        /\ fault[r] = "synthetic" /\ pc[r] \in {"finish", "done"} => r \in offered
        /\ stream[r] # "off" /\ pc[r] \in {"copy", "put", "finish", "done"} => r \in offered
        /\ pc[r] = "panicked" => life = "stopped"

\* Connections are open from Listen to CloseConns only.
Connections ==
    /\ life \in {"closed", "stopped"} => \A r \in Req : conn[r] # "open"
    /\ life \in {"new", "failed"} => \A r \in Req : pc[r] = "none"

\* The inductive invariant behind the safety theorems.
IInv ==
    /\ TypeOK /\ EvidenceKept /\ CrashNeedsCutoff
    /\ Stages /\ OnRecord /\ Connections

\* Stop, once begun, closes the event channel whatever upstreams and handlers
\* are doing, and the handlers it leaves behind end without help from their
\* upstreams: the closed connection cancels the round trip and the body.
StopCompletes ==
    life = "closing" ~> (life = "stopped" /\ \A r \in Req : Over(r)) \/ crashed

-----------------------------------------------------------------------------
(* The contract this injector implements *)

ContractPhase == IF life \in {"closing", "closed", "up"} THEN "running" ELSE life

Observed == {r \in Req : fault[r] = "synthetic" /\ answer[r] = "complete"}

Contract == INSTANCE InjectorContract WITH
    Occurrence <- Req,
    phase      <- ContractPhase,
    observed   <- Observed,
    buf        <- [i \in DOMAIN buf |-> buf[i].req],
    collected  <- {e.req : e \in collected}

CutoffFree == \A r \in Req : fault[r] # "cutoff"

\* Until a cut-off is decided, base-URL mode implements the Injector contract
\* for targets that act on complete responses only.
ImplementsContract ==
    /\ Contract!ContractInit
    /\ [][CutoffFree' => Contract!ContractNext \/ UNCHANGED Contract!contractVars]_vars

=============================================================================
