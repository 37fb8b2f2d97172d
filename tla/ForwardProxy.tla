---------------------------- MODULE ForwardProxy ----------------------------
(***************************************************************************)
(* The forward-proxy injector (internal/inject/proxy) on top of the        *)
(* vendored martian proxy: Injector.Start and Stop, the accept loop, one   *)
(* handler goroutine per client connection, the fault decision and its     *)
(* event, and the cut-off goroutine that feeds a truncated SSE stream      *)
(* through a pipe.  Hosts, paths and payloads are abstracted: which        *)
(* experiment matches and what the dice say is a choice in HandleRequest.  *)
(* Clients do not pipeline, and speak CONNECT at most once per connection. *)
(***************************************************************************)
EXTENDS Events

CONSTANTS
    Conn,      \* client connections
    Req,       \* requests (none of them a CONNECT)
    NoReq,     \* "the handler of this connection holds no request"
    Faults,    \* the kinds of fault the scenario can inject
    CutAt,     \* stream_cutoff_tokens of the cut-off experiment
    MaxLines   \* bound: lines an upstream SSE stream has

ASSUME ForwardProxyAssumption ==
    /\ NoReq \notin Req
    /\ Faults \subseteq {"synthetic", "cutoff"}
    /\ CutAt \in Nat \ {0}
    /\ MaxLines \in Nat

VARIABLES
    life,          \* how far Injector.Start or Injector.Stop has come
    pem,           \* the CA certificate file exists
    serve,         \* program counter of martian's accept loop
    pc,            \* program counter of each connection's handler
    cur,           \* the request each handler holds
    last,          \* the handler closes its connection after this response
    client,        \* what the target's end of the connection is
    fault,         \* the decision taken for each request
    body,          \* the response the handler writes for each request
    stream,        \* program counter of the request's cut-off goroutine
    lines,         \* lines the upstream stream has delivered
    deltas,        \* eventCount: content deltas forwarded
    readerClosed,  \* the response body (streamBody) was closed
    answer,        \* what the target has received for each request
    seen,          \* Faulter.seen
    offered,       \* requests whose fired event was handed to TrySend
    buf,           \* the event channel
    collected,     \* events the CLI has drained
    panicked       \* a send on the closed channel has crashed the process

startVars   == <<life, pem>>
handlerVars == <<pc, cur, last>>
streamVars  == <<stream, lines, deltas>>
eventVars   == <<offered, buf, panicked>>
vars == <<startVars, serve, handlerVars, client, fault, body, streamVars,
          readerClosed, answer, seen, eventVars, collected>>

Closing == life \in {"closing", "waiting", "waited", "unlistened", "cleaned", "stopped"}
Open    == life # "stopped"
Alive   == ~panicked   \* a crashed process takes no further step
Present(c) == client[c] \in {"plain", "secure"}
Serving(c) == pc[c] \in {"reading", "tunnel", "roundtrip", "respond", "head",
                         "copy", "write", "flush"}
Ended == {"cut", "exit"}   \* the goroutine is done: budget spent, or anything else
Released(r) == \A c \in Conn : cur[c] # r   \* no handler holds the request (any more)

Event(r, e) == [req |-> r, err |-> e]

Init ==
    /\ life = "new" /\ pem = FALSE /\ serve = "off"
    /\ pc = [c \in Conn |-> "none"]
    /\ cur = [c \in Conn |-> NoReq]
    /\ last = [c \in Conn |-> FALSE]
    /\ client = [c \in Conn |-> "absent"]
    /\ fault = [r \in Req |-> "undecided"]
    /\ body = [r \in Req |-> "none"]
    /\ stream = [r \in Req |-> "off"]
    /\ lines = [r \in Req |-> 0]
    /\ deltas = [r \in Req |-> 0]
    /\ readerClosed = [r \in Req |-> FALSE]
    /\ answer = [r \in Req |-> "nothing"]
    /\ seen = 0
    /\ offered = {} /\ buf = <<>> /\ panicked = FALSE
    /\ collected = {}

-----------------------------------------------------------------------------
(* Injector.Start *)

WriteCertPEM ==
    /\ Alive /\ life = "new"
    /\ life' = "pem" /\ pem' = TRUE
    /\ UNCHANGED <<serve, handlerVars, client, fault, body, streamVars,
                   readerClosed, answer, seen, eventVars, collected>>

\* The error path that forgets ca.Cleanup.
StartFailsLeaky ==
    /\ Alive /\ life \in {"new", "pem"}
    /\ life' = "failed" /\ pem' = pem
    /\ UNCHANGED <<serve, handlerVars, client, fault, body, streamVars,
                   readerClosed, answer, seen, eventVars, collected>>

\* Expansion, key generation or the temp file fail before the file exists;
\* NewServer and Listen fail after it and remove it.
StartFails ==
    /\ Alive /\ life \in {"new", "pem"}
    /\ life' = "failed" /\ pem' = FALSE
    /\ UNCHANGED <<serve, handlerVars, client, fault, body, streamVars,
                   readerClosed, answer, seen, eventVars, collected>>

Listen ==
    /\ Alive /\ life = "pem"
    /\ life' = "up" /\ serve' = "check"
    /\ UNCHANGED <<pem, handlerVars, client, fault, body, streamVars,
                   readerClosed, answer, seen, eventVars, collected>>

-----------------------------------------------------------------------------
(* martian's accept loop *)

ServeCheck ==
    /\ Alive /\ serve = "check"
    /\ serve' = IF Closing THEN "returned" ELSE "accept"
    /\ UNCHANGED <<startVars, handlerVars, client, fault, body, streamVars,
                   readerClosed, answer, seen, eventVars, collected>>

Accept(c) ==
    /\ Alive /\ serve = "accept" /\ life \notin {"unlistened", "cleaned", "stopped"}
    /\ client[c] = "absent"
    /\ serve' = "check"
    /\ client' = [client EXCEPT ![c] = "plain"]
    /\ pc' = [pc EXCEPT ![c] = "accepted"]
    /\ UNCHANGED <<startVars, cur, last, fault, body, streamVars,
                   readerClosed, answer, seen, eventVars, collected>>

\* Accept returns net.ErrClosed once Server.Stop has closed the listener.
AcceptFails ==
    /\ Alive /\ serve = "accept" /\ life \in {"unlistened", "cleaned", "stopped"}
    /\ serve' = "returned"
    /\ UNCHANGED <<startVars, handlerVars, client, fault, body, streamVars,
                   readerClosed, answer, seen, eventVars, collected>>

ClientLeaves(c) ==
    /\ Alive /\ Present(c)
    /\ client' = [client EXCEPT ![c] = "gone"]
    /\ UNCHANGED <<startVars, serve, handlerVars, fault, body, streamVars,
                   readerClosed, answer, seen, eventVars, collected>>

-----------------------------------------------------------------------------
(* The handler of one connection: handleLoop and handle *)

\* A handler that starts without asking whether the proxy is closing.
RegisterBlindly(c) ==
    /\ Alive /\ pc[c] = "accepted"
    /\ pc' = [pc EXCEPT ![c] = "reading"]
    /\ UNCHANGED <<startVars, serve, cur, last, client, fault, body,
                   streamVars, readerClosed, answer, seen, eventVars, collected>>

\* conns.Add needs connsMu, which Close holds while it waits.
Register(c) ==
    /\ Alive /\ pc[c] = "accepted" /\ life # "waiting"
    /\ pc' = [pc EXCEPT ![c] = IF Closing THEN "closed" ELSE "reading"]
    /\ UNCHANGED <<startVars, serve, cur, last, client, fault, body,
                   streamVars, readerClosed, answer, seen, eventVars, collected>>

\* A readRequest that selects on neither the closing channel nor a deadline.
ReadEndsOnlyIfGone(c) ==
    /\ Alive /\ pc[c] = "reading" /\ client[c] = "gone"
    /\ pc' = [pc EXCEPT ![c] = "closed"]
    /\ UNCHANGED <<startVars, serve, cur, last, client, fault, body,
                   streamVars, readerClosed, answer, seen, eventVars, collected>>

\* readRequest gives up: the proxy is closing, the client has left, or the
\* five-minute connection deadline passed.
ReadEnds(c) ==
    /\ Alive /\ pc[c] = "reading"
    /\ pc' = [pc EXCEPT ![c] = "closed"]
    /\ UNCHANGED <<startVars, serve, cur, last, client, fault, body,
                   streamVars, readerClosed, answer, seen, eventVars, collected>>

\* The CONNECT that opens a MITM tunnel is neither counted nor matched.  The
\* handler then reads the client's first bytes without watching closing.
HandleConnect(c) ==
    /\ Alive /\ pc[c] = "reading" /\ client[c] = "plain"
    /\ pc' = [pc EXCEPT ![c] = "tunnel"]
    /\ client' = [client EXCEPT ![c] = "secure"]
    /\ UNCHANGED <<startVars, serve, cur, last, fault, body, streamVars,
                   readerClosed, answer, seen, eventVars, collected>>

TunnelOpens(c) ==
    /\ Alive /\ pc[c] = "tunnel" /\ client[c] = "secure"
    /\ pc' = [pc EXCEPT ![c] = "reading"]
    /\ UNCHANGED <<startVars, serve, cur, last, client, fault, body,
                   streamVars, readerClosed, answer, seen, eventVars, collected>>

\* The client left, the handshake failed, or the deadline passed; only some
\* of those errors make handleLoop close the connection at once.
TunnelFails(c) ==
    /\ Alive /\ pc[c] = "tunnel"
    /\ \E next \in {"reading", "closed"} : pc' = [pc EXCEPT ![c] = next]
    /\ UNCHANGED <<startVars, serve, cur, last, client, fault, body,
                   streamVars, readerClosed, answer, seen, eventVars, collected>>

\* ModifyRequest: count, match, roll; a synthetic fault skips the round trip.
HandleRequest(c, r) ==
    /\ Alive /\ pc[c] = "reading" /\ Present(c) /\ fault[r] = "undecided"
    /\ seen' = seen + 1
    /\ cur' = [cur EXCEPT ![c] = r]
    /\ \E f \in Faults \cup {"none"} :
          /\ fault' = [fault EXCEPT ![r] = f]
          /\ pc' = [pc EXCEPT ![c] = IF f = "synthetic" THEN "respond" ELSE "roundtrip"]
    /\ UNCHANGED <<startVars, serve, last, client, body, streamVars,
                   readerClosed, answer, eventVars, collected>>

\* RoundTrip returns: with a body, an SSE body, or an error (a 502).
UpstreamAnswers(c) ==
    /\ Alive /\ pc[c] = "roundtrip"
    /\ \E b \in {"plain", "sse", "error"} : body' = [body EXCEPT ![cur[c]] = b]
    /\ pc' = [pc EXCEPT ![c] = "respond"]
    /\ UNCHANGED <<startVars, serve, cur, last, client, fault, streamVars,
                   readerClosed, answer, seen, eventVars, collected>>

\* handle closes after this response when the request or the response asks
\* for it, and always once the proxy is closing.
ChooseLast(c) ==
    \E l \in (IF Closing THEN {TRUE} ELSE BOOLEAN) : last' = [last EXCEPT ![c] = l]

\* Faulter.emit and emitErr: a send on the closed channel panics.
Emit(r, err) ==
    /\ buf' = IF Open THEN TrySend(buf, Event(r, err)) ELSE buf
    /\ panicked' = ~Open
    /\ offered' = IF err THEN offered ELSE offered \cup {r}

PassResponse(c) ==
    /\ Alive /\ pc[c] = "respond" /\ fault[cur[c]] = "none"
    /\ ChooseLast(c)
    /\ pc' = [pc EXCEPT ![c] = IF body[cur[c]] = "error" THEN "flush" ELSE "head"]
    /\ UNCHANGED <<startVars, serve, cur, client, fault, body, streamVars,
                   readerClosed, answer, seen, eventVars, collected>>

\* A synthetic response written before its event is emitted, and the event
\* forgotten.
ApplySyntheticSilently(c) ==
    /\ Alive /\ pc[c] = "respond" /\ fault[cur[c]] = "synthetic"
    /\ body' = [body EXCEPT ![cur[c]] = "synthetic"]
    /\ ChooseLast(c)
    /\ pc' = [pc EXCEPT ![c] = "flush"]
    /\ UNCHANGED <<startVars, serve, cur, client, fault, streamVars,
                   readerClosed, answer, seen, eventVars, collected>>

ApplySynthetic(c) ==
    /\ Alive /\ pc[c] = "respond" /\ fault[cur[c]] = "synthetic"
    /\ body' = [body EXCEPT ![cur[c]] = "synthetic"]
    /\ Emit(cur[c], FALSE)
    /\ ChooseLast(c)
    /\ pc' = [pc EXCEPT ![c] = "flush"]
    /\ UNCHANGED <<startVars, serve, cur, client, fault, streamVars,
                   readerClosed, answer, seen, collected>>

\* wrapStreamCutoff does nothing to a body that is not SSE; the fired event
\* is emitted either way.  Its goroutine may scan while the handler emits; the
\* handler reads no line before the head is written, so this is one step.
ApplyCutoff(c) ==
    /\ Alive /\ pc[c] = "respond" /\ fault[cur[c]] = "cutoff"
    /\ stream' = IF body[cur[c]] = "sse" THEN [stream EXCEPT ![cur[c]] = "scan"] ELSE stream
    /\ Emit(cur[c], FALSE)
    /\ ChooseLast(c)
    /\ pc' = [pc EXCEPT ![c] = IF body[cur[c]] = "error" THEN "flush" ELSE "head"]
    /\ UNCHANGED <<startVars, serve, cur, client, fault, body, lines, deltas,
                   readerClosed, answer, seen, collected>>

-----------------------------------------------------------------------------
(* res.Write writes the head, copies the body and closes it; then the      *)
(* writer is flushed.  When handle returns, its deferred Body.Close closes *)
(* the upstream body, which is what res.Body was when it was deferred.     *)

\* A handler that goes back to reading with its last request still in hand.
ResumeHolding(c) ==
    /\ pc' = [pc EXCEPT ![c] = IF last[c] THEN "closed" ELSE "reading"]
    /\ cur' = cur

Resume(c) ==
    /\ pc' = [pc EXCEPT ![c] = IF last[c] THEN "closed" ELSE "reading"]
    /\ cur' = [cur EXCEPT ![c] = NoReq]

WriteHead(c) ==
    /\ Alive /\ pc[c] = "head"
    /\ pc' = [pc EXCEPT ![c] = "copy"]
    /\ UNCHANGED <<startVars, serve, cur, last, client, fault, body,
                   streamVars, readerClosed, answer, seen, eventVars, collected>>

\* The head overflows the writer's buffer towards a client that has left, or
\* past the deadline: res.Write returns before it has looked at the body.
HeadFails(c) ==
    /\ Alive /\ pc[c] = "head"
    /\ Resume(c)
    /\ UNCHANGED <<startVars, serve, last, client, fault, body, streamVars,
                   readerClosed, answer, seen, eventVars, collected>>

\* An upstream body that is not wrapped: more of it, or its end.
ReadChunk(c) ==
    /\ Alive /\ pc[c] = "copy" /\ stream[cur[c]] = "off"
    /\ pc' = [pc EXCEPT ![c] = "write"]
    /\ UNCHANGED <<startVars, serve, cur, last, client, fault, body,
                   streamVars, readerClosed, answer, seen, eventVars, collected>>

BodyEnds(c) ==
    /\ Alive /\ pc[c] = "copy" /\ stream[cur[c]] = "off"
    /\ pc' = [pc EXCEPT ![c] = "flush"]
    /\ UNCHANGED <<startVars, serve, cur, last, client, fault, body,
                   streamVars, readerClosed, answer, seen, eventVars, collected>>

\* A budget that every line of the stream is charged to.
ReadPipeCountsLines(c) ==
    LET r == cur[c]
    IN  /\ Alive /\ pc[c] = "copy" /\ stream[r] \in {"line", "delta"}
        /\ pc' = [pc EXCEPT ![c] = "write"]
        /\ deltas' = [deltas EXCEPT ![r] = IF stream[r] = "delta" THEN @ + 1 ELSE @]
        /\ stream' = [stream EXCEPT ![r] = IF lines[r] >= CutAt THEN "cut" ELSE "scan"]
        /\ UNCHANGED <<startVars, serve, cur, last, client, fault, body, lines,
                       readerClosed, answer, seen, eventVars, collected>>

\* The handler takes the line (and its newline) out of the pipe; the goroutine
\* counts a content delta and stops when the budget is spent.
ReadPipe(c) ==
    LET r == cur[c]
        n == deltas[r] + (IF stream[r] = "delta" THEN 1 ELSE 0)
    IN  /\ Alive /\ pc[c] = "copy" /\ stream[r] \in {"line", "delta"}
        /\ pc' = [pc EXCEPT ![c] = "write"]
        /\ deltas' = [deltas EXCEPT ![r] = n]
        /\ stream' = [stream EXCEPT ![r] = IF n >= CutAt THEN "cut" ELSE "scan"]
        /\ UNCHANGED <<startVars, serve, cur, last, client, fault, body, lines,
                       readerClosed, answer, seen, eventVars, collected>>

PipeEOF(c) ==
    /\ Alive /\ pc[c] = "copy" /\ stream[cur[c]] \in Ended
    /\ pc' = [pc EXCEPT ![c] = "flush"]
    /\ UNCHANGED <<startVars, serve, cur, last, client, fault, body,
                   streamVars, readerClosed, answer, seen, eventVars, collected>>

\* Buffered, so it may succeed even when the client has left.
WriteChunk(c) ==
    /\ Alive /\ pc[c] = "write"
    /\ pc' = [pc EXCEPT ![c] = "copy"]
    /\ UNCHANGED <<startVars, serve, cur, last, client, fault, body,
                   streamVars, readerClosed, answer, seen, eventVars, collected>>

\* The response body replaced by the bare pipe: nobody closes the reader.
WriteFailsLeaky(c) ==
    /\ Alive /\ pc[c] = "write"
    /\ Resume(c)
    /\ UNCHANGED <<startVars, serve, last, client, fault, body, streamVars,
                   readerClosed, answer, seen, eventVars, collected>>

\* The client left or the deadline passed: res.Write closes the body.
WriteFails(c) ==
    /\ Alive /\ pc[c] = "write"
    /\ readerClosed' = [readerClosed EXCEPT ![cur[c]] = TRUE]
    /\ Resume(c)
    /\ UNCHANGED <<startVars, serve, last, client, fault, body, streamVars,
                   answer, seen, eventVars, collected>>

Received(r) ==
    IF body[r] = "synthetic" THEN "synthetic"
    ELSE IF deltas[r] >= CutAt THEN "cut" ELSE "uncut"

FlushOK(c) ==
    /\ Alive /\ pc[c] = "flush" /\ Present(c)
    /\ answer' = [answer EXCEPT ![cur[c]] = Received(cur[c])]
    /\ Resume(c)
    /\ UNCHANGED <<startVars, serve, last, client, fault, body, streamVars,
                   readerClosed, seen, eventVars, collected>>

FlushFails(c) ==
    /\ Alive /\ pc[c] = "flush"
    /\ Resume(c)
    /\ UNCHANGED <<startVars, serve, last, client, fault, body, streamVars,
                   readerClosed, answer, seen, eventVars, collected>>

-----------------------------------------------------------------------------
(* The goroutine wrapStreamCutoff starts *)

StreamStep(r, from, to) ==
    /\ Alive /\ stream[r] = from
    /\ stream' = [stream EXCEPT ![r] = to]
    /\ UNCHANGED <<startVars, serve, handlerVars, client, fault, body, deltas,
                   readerClosed, answer, seen, collected>>

\* scanner.Scan returns a line, which now waits in pw.Write.
ScanLine(r) ==
    /\ lines[r] < MaxLines
    /\ lines' = [lines EXCEPT ![r] = @ + 1]
    /\ \E l \in {"line", "delta"} : StreamStep(r, "scan", l)
    /\ UNCHANGED eventVars

\* A clean end of the upstream stream.
ScanEOF(r) == StreamStep(r, "scan", "exit") /\ UNCHANGED <<lines, eventVars>>

\* The upstream breaks, or sends a line beyond the scanner's limit.
ScanBreaks(r) ==
    ~Released(r) /\ StreamStep(r, "scan", "report") /\ UNCHANGED <<lines, eventVars>>

\* handle has returned and closed the upstream body: the scanner's read fails.
ScanClosed(r) ==
    Released(r) /\ StreamStep(r, "scan", "report") /\ UNCHANGED <<lines, eventVars>>

\* pw.Write returns io.ErrClosedPipe.
PipeWriteFails(r) ==
    /\ readerClosed[r]
    /\ \E l \in {"line", "delta"} : StreamStep(r, l, "exit")
    /\ UNCHANGED <<lines, eventVars>>

\* onErr: emitErr for the request, after which the deferred closes run.
ReportError(r) ==
    /\ StreamStep(r, "report", "exit")
    /\ Emit(r, TRUE)
    /\ UNCHANGED lines

-----------------------------------------------------------------------------
(* Injector.Stop and the drain *)

StopStep(from, to) ==
    /\ Alive /\ life = from /\ life' = to
    /\ UNCHANGED <<serve, handlerVars, client, fault, body, streamVars,
                   readerClosed, answer, seen, eventVars, collected>>

\* close(p.closing), then connsMu.Lock, conns.Wait and Unlock.
BeginStop == StopStep("up", "closing") /\ UNCHANGED pem
LockConns == StopStep("closing", "waiting") /\ UNCHANGED pem

\* Close without conns.Wait.
ConnsDoneEarly == StopStep("waiting", "waited") /\ UNCHANGED pem

ConnsDone ==
    /\ \A c \in Conn : ~Serving(c)
    /\ StopStep("waiting", "waited") /\ UNCHANGED pem

CloseListener == StopStep("waited", "unlistened") /\ UNCHANGED pem
Cleanup       == StopStep("unlistened", "cleaned") /\ pem' = FALSE
CloseEvents   == StopStep("cleaned", "stopped") /\ UNCHANGED pem

Drain ==
    /\ Alive /\ buf # <<>>
    /\ collected' = collected \cup {Head(buf)}
    /\ buf' = Tail(buf)
    /\ UNCHANGED <<startVars, serve, handlerVars, client, fault, body,
                   streamVars, readerClosed, answer, seen, offered, panicked>>

-----------------------------------------------------------------------------
Handler(c) ==
    \/ Register(c) \/ ReadEnds(c) \/ TunnelFails(c)
    \/ PassResponse(c) \/ ApplySynthetic(c) \/ ApplyCutoff(c)
    \/ WriteHead(c) \/ HeadFails(c)
    \/ ReadPipe(c) \/ PipeEOF(c) \/ WriteChunk(c) \/ WriteFails(c)
    \/ FlushOK(c) \/ FlushFails(c)

Target(c) ==
    \/ Accept(c) \/ ClientLeaves(c) \/ HandleConnect(c) \/ TunnelOpens(c)
    \/ \E r \in Req : HandleRequest(c, r)

Stream(r) == ScanClosed(r) \/ PipeWriteFails(r) \/ ReportError(r)

Upstream ==
    \/ \E c \in Conn : UpstreamAnswers(c) \/ ReadChunk(c) \/ BodyEnds(c)
    \/ \E r \in Req : ScanLine(r) \/ ScanEOF(r) \/ ScanBreaks(r)

Stop == LockConns \/ ConnsDone \/ CloseListener \/ Cleanup \/ CloseEvents

Next ==
    \/ WriteCertPEM \/ StartFails \/ Listen
    \/ ServeCheck \/ AcceptFails
    \/ \E c \in Conn : Handler(c) \/ Target(c)
    \/ \E r \in Req : Stream(r)
    \/ Upstream
    \/ BeginStop \/ Stop
    \/ Drain

Spec == Init /\ [][Next]_vars

\* The Go scheduler runs every goroutine, sockets reach their deadlines, and
\* the main goroutine goes through with the Stop it has begun.
ProgramFairness ==
    /\ WF_vars(ServeCheck \/ AcceptFails)
    /\ \A c \in Conn : WF_vars(Handler(c))
    /\ \A r \in Req : WF_vars(Stream(r))
    /\ WF_vars(Stop)
    /\ WF_vars(Drain)

\* Every upstream answers, and every body it sends comes to an end.  Nothing
\* in the code enforces this: the round trip has no timeout.
UpstreamFairness ==
    /\ \A c \in Conn : WF_vars(UpstreamAnswers(c))
    /\ \A c \in Conn : SF_vars(BodyEnds(c))
    /\ \A r \in Req : WF_vars(ScanEOF(r) \/ ScanBreaks(r))

ProgramSpec == Spec /\ ProgramFairness

-----------------------------------------------------------------------------
(* Properties *)

EventType == [req : Req, err : BOOLEAN]

\* Every variable ranges over the values the code can give it.
TypeOK ==
    /\ life \in {"new", "pem", "up", "closing", "waiting", "waited",
                 "unlistened", "cleaned", "stopped", "failed"}
    /\ pem \in BOOLEAN /\ panicked \in BOOLEAN
    /\ serve \in {"off", "check", "accept", "returned"}
    /\ pc \in [Conn -> {"none", "accepted", "reading", "tunnel", "roundtrip",
                       "respond", "head", "copy", "write", "flush", "closed"}]
    /\ cur \in [Conn -> Req \cup {NoReq}]
    /\ \A c \in Conn :
          /\ pc[c] \in {"roundtrip", "respond", "head", "copy", "write", "flush"} <=> cur[c] \in Req
          /\ pc[c] = "none" <=> client[c] = "absent"
    /\ last \in [Conn -> BOOLEAN]
    /\ client \in [Conn -> {"absent", "plain", "secure", "gone"}]
    /\ fault \in [Req -> {"undecided", "none"} \cup Faults]
    /\ body \in [Req -> {"none", "plain", "sse", "error", "synthetic"}]
    /\ stream \in [Req -> {"off", "scan", "line", "delta", "report", "cut", "exit"}]
    /\ lines \in [Req -> 0 .. MaxLines]
    /\ deltas \in [Req -> Nat]
    /\ readerClosed \in [Req -> BOOLEAN]
    /\ answer \in [Req -> {"nothing", "synthetic", "cut", "uncut"}]
    /\ seen \in Nat
    /\ offered \subseteq Req
    /\ buf \in Seq(EventType) /\ Len(buf) <= EventBuffer
    /\ collected \subseteq EventType

\* Once martian's Close has returned, no handler is left that could touch the
\* CA or the event channel, whatever connections are accepted meanwhile.
HandlersQuiesced ==
    life \in {"waited", "unlistened", "cleaned", "stopped"} => \A c \in Conn : ~Serving(c)

\* No goroutine sends an event after Injector.Stop has closed the channel.
NoSendAfterClose == ~panicked

\* A handler that has begun to write the response of a faulted request has
\* handed its event over.
RecordedBeforeFirstByte ==
    \A c \in Conn :
        pc[c] \in {"head", "copy", "write", "flush"} /\ fault[cur[c]] \in Faults
           => cur[c] \in offered

\* The target never receives a faulted response, whole or in part, whose fired
\* event has not been handed to the channel: modifiers run before the response
\* is written.
RecordedBeforeSeen ==
    /\ RecordedBeforeFirstByte
    /\ \A r \in Req : answer[r] \in {"synthetic", "cut"} => r \in offered

\* Drops on a full channel never lose the last evidence: once a fault fired,
\* an event is in the channel or drained, so FiredCount cannot end up zero.
EvidenceKept == offered # {} => buf # <<>> \/ collected # {}

\* The budget of a cut-off, from both sides: a stream is cut when CutAt content
\* deltas have been forwarded, neither one earlier nor one later.
CutBudget == \A r \in Req : deltas[r] <= CutAt /\ (stream[r] = "cut" <=> deltas[r] = CutAt)

\* The CA file outlives every handler, and Start's error paths and Stop leave
\* none behind.
CAFileLifetime ==
    /\ (\E c \in Conn : Serving(c)) => pem
    /\ life \in {"stopped", "failed"} => ~pem

\* A request is held by one handler and wrapped at most once, so a stream
\* starts with nothing forwarded.
OneHandlerPerRequest ==
    /\ \A c, d \in Conn : cur[c] = cur[d] /\ cur[c] \in Req => c = d
    /\ \A c \in Conn : pc[c] \in {"roundtrip", "respond"} => stream[cur[c]] = "off"
    /\ \A r \in Req : fault[r] = "undecided" => stream[r] = "off" /\ Released(r)
    /\ \A r \in Req : stream[r] = "off" => deltas[r] = 0

\* A response is synthetic or wrapped only after its event was offered.
RecordedBeforeWritten ==
    \A r \in Req : body[r] = "synthetic" \/ stream[r] # "off" => r \in offered

\* The CA file exists from WriteCertPEM to Cleanup, and nothing serves before
\* Listen.
Lifecycle ==
    /\ pem <=> life \in {"pem", "up", "closing", "waiting", "waited", "unlistened"}
    /\ serve # "off" \/ (\E c \in Conn : pc[c] # "none") => life \notin {"new", "pem", "failed"}

\* A request has no event and no answer until its handler comes to them, and
\* its handler is done with it once it is answered.
Pending ==
    /\ \A r \in Req : fault[r] = "undecided" => r \notin offered /\ answer[r] = "nothing"
    /\ \A c \in Conn : pc[c] \in {"roundtrip", "respond"} => cur[c] \notin offered
    /\ \A c \in Conn : cur[c] \in Req => answer[cur[c]] = "nothing"

\* The inductive invariant behind the safety theorems.
IInv ==
    /\ TypeOK /\ HandlersQuiesced /\ EvidenceKept /\ CutBudget
    /\ RecordedBeforeSeen /\ CAFileLifetime
    /\ OneHandlerPerRequest /\ RecordedBeforeWritten /\ Lifecycle /\ Pending

\* Stop, once begun, closes the event channel and ends the accept loop,
\* provided the upstreams finish what they are asked.
StopCompletes ==
    UpstreamFairness =>
        (life = "closing" ~> (life = "stopped" /\ serve = "returned") \/ panicked)

\* A cut-off goroutine whose handler fails in the middle of the stream exits,
\* however long the upstream stalls: closing the body reaches it through the
\* pipe.
StreamExits ==
    \A r \in Req : deltas[r] > 0 /\ Released(r) ~> stream[r] \in Ended \/ panicked

\* What the Event comment promises: Fired means the fault was applied, so no
\* request with a fired event gets its upstream response whole.
FiredMeansApplied == \A r \in Req : r \in offered => answer[r] # "uncut"

-----------------------------------------------------------------------------
(* The contract this injector implements *)

ContractPhase ==
    CASE life \in {"new", "pem"} -> "new"
      [] life = "failed"         -> "failed"
      [] life = "stopped"        -> "stopped"
      [] OTHER                   -> "running"

Observed == {r \in Req : answer[r] \in {"synthetic", "cut"}}

Contract == INSTANCE InjectorContract WITH
    Occurrence <- Req,
    phase      <- ContractPhase,
    observed   <- Observed,
    buf        <- [i \in DOMAIN buf |-> buf[i].req],
    collected  <- {e.req : e \in collected}

\* With synthetic faults only, the proxy implements the Injector contract.  A
\* cut-off breaks it: its goroutine offers a second event, possibly late.
ImplementsContract == Contract!Contract

=============================================================================
