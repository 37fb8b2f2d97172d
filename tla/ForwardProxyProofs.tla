------------------------- MODULE ForwardProxyProofs -------------------------
(***************************************************************************)
(* Theorems about ForwardProxy, for any sets of connections and requests,  *)
(* any capacity of the event channel and any budget of the cut-off.        *)
(***************************************************************************)
EXTENDS ForwardProxy, EventsProofs

\* ChooseLast picks a truth value for one connection.
LEMMA ChooseLastType ==
    ASSUME TypeOK, NEW c \in Conn, ChooseLast(c)
    PROVE  last' \in [Conn -> BOOLEAN]
<1>1. PICK l \in BOOLEAN : last' = [last EXCEPT ![c] = l]  BY DEF ChooseLast
<1> QED  BY <1>1 DEF TypeOK

\* What Emit leaves in the channel and in the record of fired requests.
LEMMA EmitType ==
    ASSUME TypeOK, NEW r \in Req, NEW e \in BOOLEAN, Emit(r, e)
    PROVE  /\ buf' \in Seq(EventType) /\ Len(buf') <= EventBuffer
           /\ panicked' \in BOOLEAN
           /\ offered' \subseteq Req
<1>1. Event(r, e) \in EventType  BY DEF Event, EventType
<1>2. buf \in Seq(EventType) /\ Len(buf) <= EventBuffer  BY DEF TypeOK
<1>3. /\ TrySend(buf, Event(r, e)) \in Seq(EventType)
      /\ Len(TrySend(buf, Event(r, e))) <= EventBuffer
  BY <1>1, <1>2, TrySendType
<1> QED  BY <1>2, <1>3 DEF TypeOK, Emit, Open

\* Every variable keeps the type the code gives it.
THEOREM TypeCorrect == Spec => []TypeOK
<1> USE ForwardProxyAssumption, EventBufferAssumption
    DEF ForwardProxyAssumption, EventBufferAssumption
<1>1. Init => TypeOK
  <2>1. <<>> \in Seq(EventType) /\ Len(<<>>) <= EventBuffer  OBVIOUS
  <2> SUFFICES ASSUME Init PROVE TypeOK  OBVIOUS
  <2> USE DEF Init
  <2>2. pc \in [Conn -> {"none"}] /\ cur \in [Conn -> {NoReq}] /\ client \in [Conn -> {"absent"}]
    OBVIOUS
  <2>3. last \in [Conn -> BOOLEAN] /\ readerClosed \in [Req -> BOOLEAN]  OBVIOUS
  <2>4. fault \in [Req -> {"undecided", "none"} \cup Faults]  OBVIOUS
  <2>5. lines \in [Req -> 0 .. MaxLines] /\ deltas \in [Req -> Nat] /\ seen \in Nat  OBVIOUS
  <2>6. /\ body \in [Req -> {"none", "plain", "sse", "error", "synthetic"}]
        /\ stream \in [Req -> {"off", "scan", "line", "delta", "report", "cut", "exit"}]
        /\ answer \in [Req -> {"nothing", "synthetic", "cut", "uncut"}]
    OBVIOUS
  <2> QED  BY <2>1, <2>2, <2>3, <2>4, <2>5, <2>6 DEF TypeOK
<1>2. ASSUME TypeOK, [Next]_vars
      PROVE  TypeOK'
  <2> USE <1>2 DEF TypeOK, startVars, handlerVars, streamVars, eventVars
  <2>1. CASE WriteCertPEM  BY <2>1 DEF WriteCertPEM
  <2>2. CASE StartFails  BY <2>2 DEF StartFails
  <2>3. CASE Listen  BY <2>3 DEF Listen
  <2>4. CASE ServeCheck  BY <2>4 DEF ServeCheck
  <2>5. CASE AcceptFails  BY <2>5 DEF AcceptFails
  <2>6. ASSUME NEW c \in Conn, Register(c)
        PROVE  TypeOK'
    BY <2>6 DEF Register
  <2>7. ASSUME NEW c \in Conn, ReadEnds(c)
        PROVE  TypeOK'
    BY <2>7 DEF ReadEnds
  <2>8. ASSUME NEW c \in Conn, TunnelFails(c)
        PROVE  TypeOK'
    <3>1. PICK next \in {"reading", "closed"} : pc' = [pc EXCEPT ![c] = next]
      BY <2>8 DEF TunnelFails
    <3> QED  BY <2>8, <3>1 DEF TunnelFails
  <2>9. ASSUME NEW c \in Conn, PassResponse(c)
        PROVE  TypeOK'
    <3>1. last' \in [Conn -> BOOLEAN]  BY <2>9, ChooseLastType DEF PassResponse
    <3>2. PICK next \in {"flush", "head"} : pc' = [pc EXCEPT ![c] = next]
      BY <2>9 DEF PassResponse
    <3>3. UNCHANGED <<life, pem, serve, cur, client, fault, body, streamVars,
                      readerClosed, answer, seen, eventVars, collected>>
      BY <2>9 DEF PassResponse
    <3>4. pc[c] = "respond"  BY <2>9 DEF PassResponse
    <3> QED  BY <3>1, <3>2, <3>3, <3>4
  <2>10. ASSUME NEW c \in Conn, ApplySynthetic(c)
        PROVE  TypeOK'
    <3>1. last' \in [Conn -> BOOLEAN]  BY <2>10, ChooseLastType DEF ApplySynthetic
    <3>2. cur[c] \in Req /\ Emit(cur[c], FALSE)  BY <2>10 DEF ApplySynthetic
    <3>3. PICK next \in {"flush", "head"} : pc' = [pc EXCEPT ![c] = next]
      BY <2>10 DEF ApplySynthetic
    <3>4. /\ body' \in [Req -> {"none", "plain", "sse", "error", "synthetic"}]
          /\ stream' \in [Req -> {"off", "scan", "line", "delta", "report", "cut", "exit"}]
      BY <2>10, <3>2 DEF ApplySynthetic
    <3>5. UNCHANGED <<life, pem, serve, cur, client, fault, lines, deltas,
                      readerClosed, answer, seen, collected>>
      BY <2>10 DEF ApplySynthetic
    <3>6. pc[c] = "respond"  BY <2>10 DEF ApplySynthetic
    <3>7. /\ buf' \in Seq(EventType) /\ Len(buf') <= EventBuffer
          /\ panicked' \in BOOLEAN /\ offered' \subseteq Req
      BY <3>2, EmitType
    <3> QED  BY <3>1, <3>3, <3>4, <3>5, <3>6, <3>7
  <2>11. ASSUME NEW c \in Conn, ApplyCutoff(c)
        PROVE  TypeOK'
    <3>1. last' \in [Conn -> BOOLEAN]  BY <2>11, ChooseLastType DEF ApplyCutoff
    <3>2. cur[c] \in Req /\ Emit(cur[c], FALSE)  BY <2>11 DEF ApplyCutoff
    <3>3. PICK next \in {"flush", "head"} : pc' = [pc EXCEPT ![c] = next]
      BY <2>11 DEF ApplyCutoff
    <3>4. /\ body' \in [Req -> {"none", "plain", "sse", "error", "synthetic"}]
          /\ stream' \in [Req -> {"off", "scan", "line", "delta", "report", "cut", "exit"}]
      BY <2>11, <3>2 DEF ApplyCutoff
    <3>5. UNCHANGED <<life, pem, serve, cur, client, fault, lines, deltas,
                      readerClosed, answer, seen, collected>>
      BY <2>11 DEF ApplyCutoff
    <3>6. pc[c] = "respond"  BY <2>11 DEF ApplyCutoff
    <3>7. /\ buf' \in Seq(EventType) /\ Len(buf') <= EventBuffer
          /\ panicked' \in BOOLEAN /\ offered' \subseteq Req
      BY <3>2, EmitType
    <3> QED  BY <3>1, <3>3, <3>4, <3>5, <3>6, <3>7
  <2>12. ASSUME NEW c \in Conn, ReadPipe(c)
        PROVE  TypeOK'
    BY <2>12 DEF ReadPipe
  <2>13. ASSUME NEW c \in Conn, PipeEOF(c)
        PROVE  TypeOK'
    BY <2>13 DEF PipeEOF
  <2>14. ASSUME NEW c \in Conn, WriteChunk(c)
        PROVE  TypeOK'
    BY <2>14 DEF WriteChunk
  <2>15. ASSUME NEW c \in Conn, WriteFails(c)
        PROVE  TypeOK'
    BY <2>15 DEF WriteFails, Resume
  <2>16. ASSUME NEW c \in Conn, FlushOK(c)
        PROVE  TypeOK'
    BY <2>16 DEF FlushOK, Resume, Received
  <2>17. ASSUME NEW c \in Conn, FlushFails(c)
        PROVE  TypeOK'
    BY <2>17 DEF FlushFails, Resume
  <2>18. ASSUME NEW c \in Conn, Accept(c)
        PROVE  TypeOK'
    BY <2>18 DEF Accept
  <2>19. ASSUME NEW c \in Conn, ClientLeaves(c)
        PROVE  TypeOK'
    BY <2>19 DEF ClientLeaves, Present
  <2>20. ASSUME NEW c \in Conn, HandleConnect(c)
        PROVE  TypeOK'
    BY <2>20 DEF HandleConnect
  <2>21. ASSUME NEW c \in Conn, TunnelOpens(c)
        PROVE  TypeOK'
    BY <2>21 DEF TunnelOpens
  <2>22. ASSUME NEW c \in Conn, UpstreamAnswers(c)
        PROVE  TypeOK'
    BY <2>22 DEF UpstreamAnswers
  <2>23. ASSUME NEW c \in Conn, ReadChunk(c)
        PROVE  TypeOK'
    BY <2>23 DEF ReadChunk
  <2>24. ASSUME NEW c \in Conn, BodyEnds(c)
        PROVE  TypeOK'
    BY <2>24 DEF BodyEnds
  <2>25. ASSUME NEW c \in Conn, NEW r \in Req, HandleRequest(c, r)
        PROVE  TypeOK'
    BY <2>25 DEF HandleRequest
  <2>26. ASSUME NEW r \in Req, ScanClosed(r)
        PROVE  TypeOK'
    BY <2>26 DEF ScanClosed, StreamStep
  <2>27. ASSUME NEW r \in Req, PipeWriteFails(r)
        PROVE  TypeOK'
    BY <2>27 DEF PipeWriteFails, StreamStep
  <2>28. ASSUME NEW r \in Req, ReportError(r)
        PROVE  TypeOK'
    <3>1. Emit(r, TRUE)  BY <2>28 DEF ReportError
    <3> QED  BY <2>28, <3>1, EmitType DEF ReportError, StreamStep
  <2>29. ASSUME NEW r \in Req, ScanLine(r)
        PROVE  TypeOK'
    BY <2>29 DEF ScanLine, StreamStep
  <2>30. ASSUME NEW r \in Req, ScanEOF(r)
        PROVE  TypeOK'
    BY <2>30 DEF ScanEOF, StreamStep
  <2>31. ASSUME NEW r \in Req, ScanBreaks(r)
        PROVE  TypeOK'
    BY <2>31 DEF ScanBreaks, StreamStep
  <2>32. CASE BeginStop  BY <2>32 DEF BeginStop, StopStep
  <2>33. CASE LockConns  BY <2>33 DEF LockConns, StopStep
  <2>34. CASE ConnsDone  BY <2>34 DEF ConnsDone, StopStep
  <2>35. CASE CloseListener  BY <2>35 DEF CloseListener, StopStep
  <2>36. CASE Cleanup  BY <2>36 DEF Cleanup, StopStep
  <2>37. CASE CloseEvents  BY <2>37 DEF CloseEvents, StopStep
  <2>38. CASE Drain
    <3>1. buf \in Seq(EventType) /\ buf # <<>>  BY <2>38 DEF Drain
    <3>2. /\ Head(buf) \in EventType /\ Tail(buf) \in Seq(EventType)
          /\ Len(Tail(buf)) = Len(buf) - 1 /\ Len(buf) \in Nat
      BY <3>1, DrainType
    <3> QED  BY <2>38, <3>2 DEF Drain
  <2>39. CASE UNCHANGED vars  BY <2>39 DEF vars
  <2>40. ASSUME NEW c \in Conn, WriteHead(c)
        PROVE  TypeOK'
    BY <2>40 DEF WriteHead
  <2>41. ASSUME NEW c \in Conn, HeadFails(c)
        PROVE  TypeOK'
    BY <2>41 DEF HeadFails, Resume
  <2> QED  BY <2>1, <2>2, <2>3, <2>4, <2>5, <2>6, <2>7, <2>8, <2>9, <2>10,
              <2>11, <2>12, <2>13, <2>14, <2>15, <2>16, <2>17, <2>18, <2>19,
              <2>20, <2>21, <2>22, <2>23, <2>24, <2>25, <2>26, <2>27, <2>28,
              <2>29, <2>30, <2>31, <2>32, <2>33, <2>34, <2>35, <2>36, <2>37,
              <2>38, <2>39, <2>40, <2>41
    DEF Next, Handler, Target, Stream, Upstream, Stop
<1> QED  BY <1>1, <1>2, PTL DEF Spec

-----------------------------------------------------------------------------
\* Once Close has returned no handler serves: every registration after that
\* finds the proxy closing.
THEOREM Quiesced == Spec => []HandlersQuiesced
<1>1. Init => HandlersQuiesced
  BY DEF Init, HandlersQuiesced, Serving
<1>2. ASSUME TypeOK, HandlersQuiesced, [Next]_vars
      PROVE  HandlersQuiesced'
  <2> USE <1>2 DEF TypeOK, HandlersQuiesced, Serving, Closing,
                   startVars, handlerVars, streamVars, eventVars
  <2>1. CASE WriteCertPEM
    BY <2>1 DEF WriteCertPEM
  <2>2. CASE StartFails
    BY <2>2 DEF StartFails
  <2>3. CASE Listen
    BY <2>3 DEF Listen
  <2>4. CASE ServeCheck \/ AcceptFails
    <3>1. UNCHANGED <<life, pc>>
      BY <2>4 DEF ServeCheck, AcceptFails
    <3> QED  BY <3>1
  <2>5. ASSUME NEW c \in Conn, Register(c)
        PROVE  HandlersQuiesced'
    BY <2>5 DEF Register
  <2>6. ASSUME NEW c \in Conn, ReadEnds(c)
        PROVE  HandlersQuiesced'
    BY <2>6 DEF ReadEnds
  <2>7. ASSUME NEW c \in Conn, TunnelFails(c)
        PROVE  HandlersQuiesced'
    BY <2>7 DEF TunnelFails
  <2>8. ASSUME NEW c \in Conn, PassResponse(c)
        PROVE  HandlersQuiesced'
    BY <2>8 DEF PassResponse
  <2>9. ASSUME NEW c \in Conn, ApplySynthetic(c)
        PROVE  HandlersQuiesced'
    BY <2>9 DEF ApplySynthetic
  <2>10. ASSUME NEW c \in Conn, ApplyCutoff(c)
        PROVE  HandlersQuiesced'
    BY <2>10 DEF ApplyCutoff
  <2>11. ASSUME NEW c \in Conn, ReadPipe(c)
        PROVE  HandlersQuiesced'
    BY <2>11 DEF ReadPipe
  <2>12. ASSUME NEW c \in Conn, PipeEOF(c)
        PROVE  HandlersQuiesced'
    BY <2>12 DEF PipeEOF
  <2>13. ASSUME NEW c \in Conn, WriteChunk(c)
        PROVE  HandlersQuiesced'
    BY <2>13 DEF WriteChunk
  <2>14. ASSUME NEW c \in Conn, WriteFails(c)
        PROVE  HandlersQuiesced'
    BY <2>14 DEF WriteFails, Resume
  <2>15. ASSUME NEW c \in Conn, FlushOK(c)
        PROVE  HandlersQuiesced'
    BY <2>15 DEF FlushOK, Resume
  <2>16. ASSUME NEW c \in Conn, FlushFails(c)
        PROVE  HandlersQuiesced'
    BY <2>16 DEF FlushFails, Resume
  <2>17. ASSUME NEW c \in Conn, Accept(c)
        PROVE  HandlersQuiesced'
    BY <2>17 DEF Accept
  <2>18. ASSUME NEW c \in Conn, HandleConnect(c)
        PROVE  HandlersQuiesced'
    BY <2>18 DEF HandleConnect
  <2>19. ASSUME NEW c \in Conn, TunnelOpens(c)
        PROVE  HandlersQuiesced'
    BY <2>19 DEF TunnelOpens
  <2>20. ASSUME NEW c \in Conn, UpstreamAnswers(c)
        PROVE  HandlersQuiesced'
    BY <2>20 DEF UpstreamAnswers
  <2>21. ASSUME NEW c \in Conn, ReadChunk(c)
        PROVE  HandlersQuiesced'
    BY <2>21 DEF ReadChunk
  <2>22. ASSUME NEW c \in Conn, BodyEnds(c)
        PROVE  HandlersQuiesced'
    BY <2>22 DEF BodyEnds
  <2>23. ASSUME NEW c \in Conn,
               ClientLeaves(c)
        PROVE  HandlersQuiesced'
    <3>1. UNCHANGED <<life, pc>>
      BY <2>23 DEF ClientLeaves
    <3> QED  BY <3>1
  <2>24. ASSUME NEW c \in Conn, NEW r \in Req, HandleRequest(c, r)
        PROVE  HandlersQuiesced'
    BY <2>24 DEF HandleRequest
  <2>25. ASSUME NEW r \in Req,
               ScanClosed(r) \/ PipeWriteFails(r) \/ ReportError(r) \/
               ScanLine(r) \/ ScanEOF(r) \/ ScanBreaks(r)
        PROVE  HandlersQuiesced'
    <3>1. UNCHANGED <<life, pc>>
      BY <2>25 DEF ScanClosed, PipeWriteFails, ReportError, ScanLine, ScanEOF,
         ScanBreaks, StreamStep
    <3> QED  BY <3>1
  <2>26. CASE BeginStop
    BY <2>26 DEF BeginStop, StopStep
  <2>27. CASE LockConns
    BY <2>27 DEF LockConns, StopStep
  <2>28. CASE ConnsDone
    BY <2>28 DEF ConnsDone, StopStep
  <2>29. CASE CloseListener
    BY <2>29 DEF CloseListener, StopStep
  <2>30. CASE Cleanup
    BY <2>30 DEF Cleanup, StopStep
  <2>31. CASE CloseEvents
    BY <2>31 DEF CloseEvents, StopStep
  <2>32. CASE Drain
    <3>1. UNCHANGED <<life, pc>>
      BY <2>32 DEF Drain
    <3> QED  BY <3>1
  <2>33. CASE UNCHANGED vars
    BY <2>33 DEF vars
  <2>34. ASSUME NEW c \in Conn, WriteHead(c)
        PROVE  HandlersQuiesced'
    BY <2>34 DEF WriteHead
  <2>35. ASSUME NEW c \in Conn, HeadFails(c)
        PROVE  HandlersQuiesced'
    BY <2>35 DEF HeadFails, Resume
  <2> QED  BY <2>1, <2>2, <2>3, <2>4, <2>5, <2>6, <2>7, <2>8, <2>9, <2>10,
              <2>11, <2>12, <2>13, <2>14, <2>15, <2>16, <2>17, <2>18, <2>19,
              <2>20, <2>21, <2>22, <2>23, <2>24, <2>25, <2>26, <2>27, <2>28,
              <2>29, <2>30, <2>31, <2>32, <2>33, <2>34, <2>35
    DEF Next, Handler, Target, Stream, Upstream, Stop
<1> QED  BY <1>1, <1>2, TypeCorrect, PTL DEF Spec

-----------------------------------------------------------------------------
\* No response was ever wrapped.
NoStream == \A r \in Req : stream[r] = "off"

\* Without cut-off faults no goroutine outlives its handler, so no handler is
\* left that could send after the channel is closed.
LEMMA NoStreams == ASSUME "cutoff" \notin Faults PROVE Spec => [](NoStream /\ NoSendAfterClose)
<1> DEFINE Inv == NoStream /\ NoSendAfterClose
<1> USE DEF NoStream
<1>1. Init => Inv
  BY DEF Init, NoSendAfterClose
<1>2. ASSUME TypeOK, HandlersQuiesced, Inv, [Next]_vars
      PROVE  Inv'
  <2> USE <1>2 DEF TypeOK, HandlersQuiesced, NoSendAfterClose, Serving, Open,
                   startVars, handlerVars, streamVars, eventVars
  <2>1. CASE WriteCertPEM \/ StartFails \/ Listen \/ ServeCheck \/ AcceptFails
    <3>1. UNCHANGED <<stream, panicked>>
      BY <2>1 DEF WriteCertPEM, StartFails, Listen, ServeCheck, AcceptFails
    <3> QED  BY <3>1
  <2>2. ASSUME NEW c \in Conn, ApplySynthetic(c)
        PROVE  Inv'
    BY <2>2 DEF ApplySynthetic, Emit
  <2>3. ASSUME NEW c \in Conn, ApplyCutoff(c)
        PROVE  Inv'
    <3>1. cur[c] \in Req /\ fault[cur[c]] = "cutoff"  BY <2>3 DEF ApplyCutoff
    <3>2. fault[cur[c]] \in {"undecided", "none"} \cup Faults  BY <3>1
    <3> QED  BY <3>1, <3>2
  <2>4. ASSUME NEW c \in Conn, ReadPipe(c)
        PROVE  Inv'
    BY <2>4 DEF ReadPipe
  <2>5. ASSUME NEW c \in Conn,
               Register(c) \/ ReadEnds(c) \/ TunnelFails(c) \/ PassResponse(c)
               \/ PipeEOF(c) \/ WriteChunk(c) \/ WriteFails(c) \/ FlushOK(c)
               \/ FlushFails(c) \/ Accept(c) \/ ClientLeaves(c) \/
               HandleConnect(c) \/ TunnelOpens(c) \/ UpstreamAnswers(c) \/
               ReadChunk(c) \/ BodyEnds(c)
        PROVE  Inv'
    <3>1. UNCHANGED <<stream, panicked>>
      BY <2>5 DEF Register, ReadEnds, TunnelFails, PassResponse, PipeEOF,
         WriteChunk, WriteFails, FlushOK, FlushFails, Accept, ClientLeaves,
         HandleConnect, TunnelOpens, UpstreamAnswers, ReadChunk, BodyEnds,
         Resume
    <3> QED  BY <3>1
  <2>6. ASSUME NEW c \in Conn, NEW r \in Req, HandleRequest(c, r)
        PROVE  Inv'
    <3>1. UNCHANGED <<stream, panicked>>  BY <2>6 DEF HandleRequest
    <3> QED  BY <3>1
  <2>7. ASSUME NEW r \in Req, ScanClosed(r)
        PROVE  Inv'
    BY <2>7 DEF ScanClosed, StreamStep
  <2>8. ASSUME NEW r \in Req, PipeWriteFails(r)
        PROVE  Inv'
    BY <2>8 DEF PipeWriteFails, StreamStep
  <2>9. ASSUME NEW r \in Req, ReportError(r)
        PROVE  Inv'
    BY <2>9 DEF ReportError, StreamStep, Emit
  <2>10. ASSUME NEW r \in Req, ScanLine(r)
        PROVE  Inv'
    BY <2>10 DEF ScanLine, StreamStep
  <2>11. ASSUME NEW r \in Req, ScanEOF(r)
        PROVE  Inv'
    BY <2>11 DEF ScanEOF, StreamStep
  <2>12. ASSUME NEW r \in Req, ScanBreaks(r)
        PROVE  Inv'
    BY <2>12 DEF ScanBreaks, StreamStep
  <2>13. CASE BeginStop \/ LockConns \/ ConnsDone \/ CloseListener \/ Cleanup
            \/ CloseEvents \/ Drain
    <3>1. UNCHANGED <<stream, panicked>>
      BY <2>13 DEF BeginStop, LockConns, ConnsDone, CloseListener, Cleanup,
         CloseEvents, Drain, StopStep
    <3> QED  BY <3>1
  <2>14. CASE UNCHANGED vars
    BY <2>14 DEF vars
  <2>15. ASSUME NEW c \in Conn, WriteHead(c)
        PROVE  Inv'
    BY <2>15 DEF WriteHead
  <2>16. ASSUME NEW c \in Conn, HeadFails(c)
        PROVE  Inv'
    BY <2>16 DEF HeadFails, Resume
  <2> QED  BY <2>1, <2>2, <2>3, <2>4, <2>5, <2>6, <2>7, <2>8, <2>9, <2>10,
              <2>11, <2>12, <2>13, <2>14, <2>15, <2>16
    DEF Next, Handler, Target, Stream, Upstream, Stop
<1> QED  BY <1>1, <1>2, TypeCorrect, Quiesced, PTL DEF Spec

\* Without cut-off faults nothing is sent after the channel is closed.
THEOREM NoLateSend == ASSUME "cutoff" \notin Faults PROVE Spec => []NoSendAfterClose
BY NoStreams, PTL

-----------------------------------------------------------------------------
\* What Emit leaves in the channel while it is open: at least one event.
LEMMA EmitKeepsEvidence ==
    ASSUME TypeOK, NEW r \in Req, NEW e \in BOOLEAN, Emit(r, e), Open
    PROVE  buf' # <<>>
<1>1. Event(r, e) \in EventType  BY DEF Event, EventType
<1>2. buf \in Seq(EventType) /\ Len(buf) <= EventBuffer  BY DEF TypeOK
<1>3. TrySend(buf, Event(r, e)) # <<>>  BY <1>1, <1>2, TrySendType
<1> QED  BY <1>3 DEF Emit

\* A full channel drops events but never the last one: after a fault fired
\* there is evidence of it for good.
THEOREM EvidenceIsKept == Spec => []EvidenceKept
<1>1. Init => EvidenceKept
  BY DEF Init, EvidenceKept
<1>2. ASSUME TypeOK, HandlersQuiesced, EvidenceKept, [Next]_vars
      PROVE  EvidenceKept'
  <2> USE <1>2 DEF EvidenceKept, startVars, handlerVars, streamVars, eventVars
  <2>1. CASE WriteCertPEM \/ StartFails \/ Listen \/ ServeCheck \/ AcceptFails
    <3>1. UNCHANGED <<offered, buf, collected>>
      BY <2>1 DEF WriteCertPEM, StartFails, Listen, ServeCheck, AcceptFails
    <3> QED  BY <3>1
  <2>2. ASSUME NEW c \in Conn, ApplySynthetic(c)
        PROVE  EvidenceKept'
    <3>1. cur[c] \in Req /\ Emit(cur[c], FALSE)  BY <2>2 DEF ApplySynthetic, TypeOK
    <3>2. Open  BY <2>2 DEF ApplySynthetic, HandlersQuiesced, Serving, Open
    <3> QED  BY <3>1, <3>2, EmitKeepsEvidence
  <2>3. ASSUME NEW c \in Conn, ApplyCutoff(c)
        PROVE  EvidenceKept'
    <3>1. cur[c] \in Req /\ Emit(cur[c], FALSE)  BY <2>3 DEF ApplyCutoff, TypeOK
    <3>2. Open  BY <2>3 DEF ApplyCutoff, HandlersQuiesced, Serving, Open
    <3> QED  BY <3>1, <3>2, EmitKeepsEvidence
  <2>4. ASSUME NEW c \in Conn,
               Register(c) \/ ReadEnds(c) \/ TunnelFails(c) \/ PassResponse(c)
               \/ ReadPipe(c) \/ PipeEOF(c) \/ WriteChunk(c) \/ WriteFails(c)
               \/ FlushOK(c) \/ FlushFails(c) \/ Accept(c) \/ ClientLeaves(c)
               \/ HandleConnect(c) \/ TunnelOpens(c) \/ UpstreamAnswers(c) \/
               ReadChunk(c) \/ BodyEnds(c)
        PROVE  EvidenceKept'
    <3>1. UNCHANGED <<offered, buf, collected>>
      BY <2>4 DEF Register, ReadEnds, TunnelFails, PassResponse, ReadPipe,
         PipeEOF, WriteChunk, WriteFails, FlushOK, FlushFails, Accept,
         ClientLeaves, HandleConnect, TunnelOpens, UpstreamAnswers, ReadChunk,
         BodyEnds, Resume
    <3> QED  BY <3>1
  <2>5. ASSUME NEW c \in Conn, NEW r \in Req, HandleRequest(c, r)
        PROVE  EvidenceKept'
    <3>1. UNCHANGED <<offered, buf, collected>>  BY <2>5 DEF HandleRequest
    <3> QED  BY <3>1
  <2>6. ASSUME NEW r \in Req, ReportError(r)
        PROVE  EvidenceKept'
    <3>1. Emit(r, TRUE) /\ UNCHANGED collected  BY <2>6 DEF ReportError, StreamStep
    <3>2. CASE Open  BY <3>1, <3>2, EmitKeepsEvidence
    <3>3. CASE ~Open  BY <3>1, <3>3 DEF Emit
    <3> QED  BY <3>2, <3>3
  <2>7. ASSUME NEW r \in Req,
               ScanClosed(r) \/ PipeWriteFails(r) \/ ScanLine(r) \/ ScanEOF(r)
               \/ ScanBreaks(r)
        PROVE  EvidenceKept'
    <3>1. UNCHANGED <<offered, buf, collected>>
      BY <2>7 DEF ScanClosed, PipeWriteFails, ScanLine, ScanEOF, ScanBreaks,
         StreamStep
    <3> QED  BY <3>1
  <2>8. CASE Drain
    <3>1. collected' # {}  BY <2>8 DEF Drain
    <3> QED  BY <3>1
  <2>9. CASE BeginStop \/ LockConns \/ ConnsDone \/ CloseListener \/ Cleanup
            \/ CloseEvents
    <3>1. UNCHANGED <<offered, buf, collected>>
      BY <2>9 DEF BeginStop, LockConns, ConnsDone, CloseListener, Cleanup,
         CloseEvents, StopStep
    <3> QED  BY <3>1
  <2>10. CASE UNCHANGED vars
    BY <2>10 DEF vars
  <2>11. ASSUME NEW c \in Conn, WriteHead(c)
        PROVE  EvidenceKept'
    BY <2>11 DEF WriteHead
  <2>12. ASSUME NEW c \in Conn, HeadFails(c)
        PROVE  EvidenceKept'
    BY <2>12 DEF HeadFails, Resume
  <2> QED  BY <2>1, <2>2, <2>3, <2>4, <2>5, <2>6, <2>7, <2>8, <2>9, <2>10,
              <2>11, <2>12
    DEF Next, Handler, Target, Stream, Upstream, Stop
<1> QED  BY <1>1, <1>2, TypeCorrect, Quiesced, PTL DEF Spec

-----------------------------------------------------------------------------
\* A handler never shares its request, and a request is wrapped at most once.
THEOREM OneHandler == Spec => []OneHandlerPerRequest
<1>1. Init => OneHandlerPerRequest
  BY ForwardProxyAssumption DEF Init, OneHandlerPerRequest, Released, ForwardProxyAssumption
<1>2. ASSUME TypeOK, OneHandlerPerRequest, [Next]_vars
      PROVE  OneHandlerPerRequest'
  <2> USE <1>2, ForwardProxyAssumption
      DEF ForwardProxyAssumption, TypeOK, OneHandlerPerRequest, Released,
          startVars, handlerVars, streamVars, eventVars
  <2>1. CASE WriteCertPEM \/ StartFails \/ Listen \/ ServeCheck \/ AcceptFails
    <3>1. UNCHANGED <<pc, cur, fault, stream, deltas>>
      BY <2>1 DEF WriteCertPEM, StartFails, Listen, ServeCheck, AcceptFails
    <3> QED  BY <3>1
  <2>2. ASSUME NEW c \in Conn, Register(c)
        PROVE  OneHandlerPerRequest'
    BY <2>2 DEF Register
  <2>3. ASSUME NEW c \in Conn, ReadEnds(c)
        PROVE  OneHandlerPerRequest'
    BY <2>3 DEF ReadEnds
  <2>4. ASSUME NEW c \in Conn, TunnelFails(c)
        PROVE  OneHandlerPerRequest'
    BY <2>4 DEF TunnelFails
  <2>5. ASSUME NEW c \in Conn, PassResponse(c)
        PROVE  OneHandlerPerRequest'
    BY <2>5 DEF PassResponse
  <2>6. ASSUME NEW c \in Conn, ApplySynthetic(c)
        PROVE  OneHandlerPerRequest'
    BY <2>6 DEF ApplySynthetic
  <2>7. ASSUME NEW c \in Conn, ApplyCutoff(c)
        PROVE  OneHandlerPerRequest'
    BY <2>7 DEF ApplyCutoff
  <2>8. ASSUME NEW c \in Conn, ReadPipe(c)
        PROVE  OneHandlerPerRequest'
    BY <2>8 DEF ReadPipe
  <2>9. ASSUME NEW c \in Conn, PipeEOF(c)
        PROVE  OneHandlerPerRequest'
    BY <2>9 DEF PipeEOF
  <2>10. ASSUME NEW c \in Conn, WriteChunk(c)
        PROVE  OneHandlerPerRequest'
    BY <2>10 DEF WriteChunk
  <2>11. ASSUME NEW c \in Conn, WriteFails(c)
        PROVE  OneHandlerPerRequest'
    BY <2>11 DEF WriteFails, Resume
  <2>12. ASSUME NEW c \in Conn, FlushOK(c)
        PROVE  OneHandlerPerRequest'
    BY <2>12 DEF FlushOK, Resume
  <2>13. ASSUME NEW c \in Conn, FlushFails(c)
        PROVE  OneHandlerPerRequest'
    BY <2>13 DEF FlushFails, Resume
  <2>14. ASSUME NEW c \in Conn, Accept(c)
        PROVE  OneHandlerPerRequest'
    BY <2>14 DEF Accept
  <2>15. ASSUME NEW c \in Conn, HandleConnect(c)
        PROVE  OneHandlerPerRequest'
    BY <2>15 DEF HandleConnect
  <2>16. ASSUME NEW c \in Conn, TunnelOpens(c)
        PROVE  OneHandlerPerRequest'
    BY <2>16 DEF TunnelOpens
  <2>17. ASSUME NEW c \in Conn, UpstreamAnswers(c)
        PROVE  OneHandlerPerRequest'
    BY <2>17 DEF UpstreamAnswers
  <2>18. ASSUME NEW c \in Conn, ReadChunk(c)
        PROVE  OneHandlerPerRequest'
    BY <2>18 DEF ReadChunk
  <2>19. ASSUME NEW c \in Conn, BodyEnds(c)
        PROVE  OneHandlerPerRequest'
    BY <2>19 DEF BodyEnds
  <2>20. ASSUME NEW c \in Conn,
               ClientLeaves(c)
        PROVE  OneHandlerPerRequest'
    <3>1. UNCHANGED <<pc, cur, fault, stream, deltas>>
      BY <2>20 DEF ClientLeaves
    <3> QED  BY <3>1
  <2>21. ASSUME NEW c \in Conn, NEW r \in Req, HandleRequest(c, r)
        PROVE  OneHandlerPerRequest'
    BY <2>21 DEF HandleRequest
  <2>22. ASSUME NEW r \in Req, ScanClosed(r)
        PROVE  OneHandlerPerRequest'
    BY <2>22 DEF ScanClosed, StreamStep
  <2>23. ASSUME NEW r \in Req, PipeWriteFails(r)
        PROVE  OneHandlerPerRequest'
    BY <2>23 DEF PipeWriteFails, StreamStep
  <2>24. ASSUME NEW r \in Req, ReportError(r)
        PROVE  OneHandlerPerRequest'
    BY <2>24 DEF ReportError, StreamStep
  <2>25. ASSUME NEW r \in Req, ScanLine(r)
        PROVE  OneHandlerPerRequest'
    BY <2>25 DEF ScanLine, StreamStep
  <2>26. ASSUME NEW r \in Req, ScanEOF(r)
        PROVE  OneHandlerPerRequest'
    BY <2>26 DEF ScanEOF, StreamStep
  <2>27. ASSUME NEW r \in Req, ScanBreaks(r)
        PROVE  OneHandlerPerRequest'
    BY <2>27 DEF ScanBreaks, StreamStep
  <2>28. CASE BeginStop \/ LockConns \/ ConnsDone \/ CloseListener \/ Cleanup
            \/ CloseEvents \/ Drain
    <3>1. UNCHANGED <<pc, cur, fault, stream, deltas>>
      BY <2>28 DEF BeginStop, LockConns, ConnsDone, CloseListener, Cleanup,
         CloseEvents, Drain, StopStep
    <3> QED  BY <3>1
  <2>29. CASE UNCHANGED vars
    BY <2>29 DEF vars
  <2>30. ASSUME NEW c \in Conn, WriteHead(c)
        PROVE  OneHandlerPerRequest'
    BY <2>30 DEF WriteHead
  <2>31. ASSUME NEW c \in Conn, HeadFails(c)
        PROVE  OneHandlerPerRequest'
    BY <2>31 DEF HeadFails, Resume
  <2> QED  BY <2>1, <2>2, <2>3, <2>4, <2>5, <2>6, <2>7, <2>8, <2>9, <2>10,
              <2>11, <2>12, <2>13, <2>14, <2>15, <2>16, <2>17, <2>18, <2>19,
              <2>20, <2>21, <2>22, <2>23, <2>24, <2>25, <2>26, <2>27, <2>28,
              <2>29, <2>30, <2>31
    DEF Next, Handler, Target, Stream, Upstream, Stop
<1> QED  BY <1>1, <1>2, TypeCorrect, PTL DEF Spec

\* A stream is cut at its budget of content deltas, not before and not after,
\* for any budget.
THEOREM CutBudgetHolds == Spec => []CutBudget
<1> USE ForwardProxyAssumption DEF ForwardProxyAssumption
<1>1. Init => CutBudget
  BY DEF Init, CutBudget
<1>2. ASSUME TypeOK, OneHandlerPerRequest, CutBudget, [Next]_vars
      PROVE  CutBudget'
  <2> USE <1>2 DEF TypeOK, CutBudget, startVars, handlerVars, streamVars, eventVars
  <2>1. CASE WriteCertPEM \/ StartFails \/ Listen \/ ServeCheck \/ AcceptFails
    <3>1. UNCHANGED <<stream, deltas>>
      BY <2>1 DEF WriteCertPEM, StartFails, Listen, ServeCheck, AcceptFails
    <3> QED  BY <3>1
  <2>2. ASSUME NEW c \in Conn, ApplyCutoff(c)
        PROVE  CutBudget'
    BY <2>2 DEF ApplyCutoff, OneHandlerPerRequest
  <2>3. ASSUME NEW c \in Conn, ReadPipe(c)
        PROVE  CutBudget'
    BY <2>3 DEF ReadPipe
  <2>4. ASSUME NEW c \in Conn,
               Register(c) \/ ReadEnds(c) \/ TunnelFails(c) \/ PassResponse(c)
               \/ ApplySynthetic(c) \/ PipeEOF(c) \/ WriteChunk(c) \/
               WriteFails(c) \/ FlushOK(c) \/ FlushFails(c) \/ Accept(c) \/
               ClientLeaves(c) \/ HandleConnect(c) \/ TunnelOpens(c) \/
               UpstreamAnswers(c) \/ ReadChunk(c) \/ BodyEnds(c)
        PROVE  CutBudget'
    <3>1. UNCHANGED <<stream, deltas>>
      BY <2>4 DEF Register, ReadEnds, TunnelFails, PassResponse,
         ApplySynthetic, PipeEOF, WriteChunk, WriteFails, FlushOK, FlushFails,
         Accept, ClientLeaves, HandleConnect, TunnelOpens, UpstreamAnswers,
         ReadChunk, BodyEnds, Resume
    <3> QED  BY <3>1
  <2>5. ASSUME NEW c \in Conn, NEW r \in Req, HandleRequest(c, r)
        PROVE  CutBudget'
    <3>1. UNCHANGED <<stream, deltas>>  BY <2>5 DEF HandleRequest
    <3> QED  BY <3>1
  <2>6. ASSUME NEW r \in Req, ScanClosed(r)
        PROVE  CutBudget'
    BY <2>6 DEF ScanClosed, StreamStep
  <2>7. ASSUME NEW r \in Req, PipeWriteFails(r)
        PROVE  CutBudget'
    BY <2>7 DEF PipeWriteFails, StreamStep
  <2>8. ASSUME NEW r \in Req, ReportError(r)
        PROVE  CutBudget'
    BY <2>8 DEF ReportError, StreamStep
  <2>9. ASSUME NEW r \in Req, ScanLine(r)
        PROVE  CutBudget'
    BY <2>9 DEF ScanLine, StreamStep
  <2>10. ASSUME NEW r \in Req, ScanEOF(r)
        PROVE  CutBudget'
    BY <2>10 DEF ScanEOF, StreamStep
  <2>11. ASSUME NEW r \in Req, ScanBreaks(r)
        PROVE  CutBudget'
    BY <2>11 DEF ScanBreaks, StreamStep
  <2>12. CASE BeginStop \/ LockConns \/ ConnsDone \/ CloseListener \/ Cleanup
            \/ CloseEvents \/ Drain
    <3>1. UNCHANGED <<stream, deltas>>
      BY <2>12 DEF BeginStop, LockConns, ConnsDone, CloseListener, Cleanup,
         CloseEvents, Drain, StopStep
    <3> QED  BY <3>1
  <2>13. CASE UNCHANGED vars
    BY <2>13 DEF vars
  <2>14. ASSUME NEW c \in Conn, WriteHead(c)
        PROVE  CutBudget'
    BY <2>14 DEF WriteHead
  <2>15. ASSUME NEW c \in Conn, HeadFails(c)
        PROVE  CutBudget'
    BY <2>15 DEF HeadFails, Resume
  <2> QED  BY <2>1, <2>2, <2>3, <2>4, <2>5, <2>6, <2>7, <2>8, <2>9, <2>10,
              <2>11, <2>12, <2>13, <2>14, <2>15
    DEF Next, Handler, Target, Stream, Upstream, Stop
<1> QED  BY <1>1, <1>2, TypeCorrect, OneHandler, PTL DEF Spec

-----------------------------------------------------------------------------
\* No byte of a faulted response is written before its event was offered.
LEMMA FirstByteHolds == Spec => []RecordedBeforeFirstByte
<1>1. Init => RecordedBeforeFirstByte
  BY DEF Init, RecordedBeforeFirstByte
<1>2. ASSUME TypeOK, OneHandlerPerRequest, RecordedBeforeFirstByte, [Next]_vars
      PROVE  RecordedBeforeFirstByte'
  <2> USE <1>2 DEF TypeOK, RecordedBeforeFirstByte, startVars, handlerVars, streamVars, eventVars
  <2>1. ASSUME NEW c \in Conn, NEW r \in Req, HandleRequest(c, r)
        PROVE  RecordedBeforeFirstByte'
    <3>1. /\ \A d \in Conn : cur[d] # r
          /\ offered' = offered /\ cur' = [cur EXCEPT ![c] = r]
      BY <2>1 DEF HandleRequest, OneHandlerPerRequest, Released
    <3>2. PICK f : fault' = [fault EXCEPT ![r] = f]
      BY <2>1 DEF HandleRequest
    <3>3. PICK next \in {"respond", "roundtrip"} : pc' = [pc EXCEPT ![c] = next]
      BY <2>1 DEF HandleRequest
    <3> QED  BY <3>1, <3>2, <3>3
  <2>2. ASSUME NEW c \in Conn, ApplySynthetic(c) \/ ApplyCutoff(c)
        PROVE  RecordedBeforeFirstByte'
    <3>1. offered' = offered \cup {cur[c]} /\ UNCHANGED <<cur, fault>>
      BY <2>2 DEF ApplySynthetic, ApplyCutoff, Emit
    <3>2. PICK next : pc' = [pc EXCEPT ![c] = next]
      BY <2>2 DEF ApplySynthetic, ApplyCutoff
    <3> QED  BY <3>1, <3>2
  <2>3. ASSUME NEW c \in Conn, PassResponse(c)
        PROVE  RecordedBeforeFirstByte'
    <3>1. fault[cur[c]] = "none" /\ UNCHANGED <<cur, fault, offered>>
      BY <2>3 DEF PassResponse
    <3>2. PICK next : pc' = [pc EXCEPT ![c] = next]
      BY <2>3 DEF PassResponse
    <3>3. "none" \notin Faults  BY ForwardProxyAssumption DEF ForwardProxyAssumption
    <3> QED  BY <3>1, <3>2, <3>3
  <2>4. ASSUME NEW c \in Conn,
               HeadFails(c) \/ WriteFails(c) \/ FlushOK(c) \/ FlushFails(c)
        PROVE  RecordedBeforeFirstByte'
    <3>1. cur' = [cur EXCEPT ![c] = NoReq] /\ UNCHANGED <<fault, offered>>
      BY <2>4 DEF HeadFails, WriteFails, FlushOK, FlushFails, Resume
    <3>2. PICK next \in {"closed", "reading"} : pc' = [pc EXCEPT ![c] = next]
      BY <2>4 DEF HeadFails, WriteFails, FlushOK, FlushFails, Resume
    <3> QED  BY <3>1, <3>2
  <2>5. ASSUME NEW c \in Conn,
               Register(c) \/ ReadEnds(c) \/ TunnelFails(c) \/ Accept(c)
               \/ HandleConnect(c) \/ TunnelOpens(c) \/ UpstreamAnswers(c)
               \/ WriteHead(c) \/ ReadPipe(c) \/ PipeEOF(c) \/ WriteChunk(c)
               \/ ReadChunk(c) \/ BodyEnds(c)
        PROVE  RecordedBeforeFirstByte'
    <3>1. UNCHANGED <<cur, fault, offered>>
      BY <2>5 DEF Register, ReadEnds, TunnelFails, Accept, HandleConnect, TunnelOpens,
         UpstreamAnswers, WriteHead, ReadPipe, PipeEOF, WriteChunk, ReadChunk, BodyEnds
    <3>2. PICK next : pc' = [pc EXCEPT ![c] = next]
      BY <2>5 DEF Register, ReadEnds, TunnelFails, Accept, HandleConnect, TunnelOpens,
         UpstreamAnswers, WriteHead, ReadPipe, PipeEOF, WriteChunk, ReadChunk, BodyEnds
    <3>3. next \in {"head", "copy", "write", "flush"}
             => pc[c] \in {"head", "copy", "write", "flush"}
      BY <2>5, <3>2 DEF Register, ReadEnds, TunnelFails, Accept, HandleConnect, TunnelOpens,
         UpstreamAnswers, WriteHead, ReadPipe, PipeEOF, WriteChunk, ReadChunk, BodyEnds
    <3> QED  BY <3>1, <3>2, <3>3
  <2>6. ASSUME NEW c \in Conn, ClientLeaves(c)
        PROVE  RecordedBeforeFirstByte'
    <3>1. UNCHANGED <<pc, cur, fault, offered>>  BY <2>6 DEF ClientLeaves
    <3> QED  BY <3>1
  <2>7. ASSUME NEW r \in Req,
               ScanClosed(r) \/ PipeWriteFails(r) \/ ReportError(r)
               \/ ScanLine(r) \/ ScanEOF(r) \/ ScanBreaks(r)
        PROVE  RecordedBeforeFirstByte'
    <3>1. UNCHANGED <<pc, cur, fault, offered>>
      BY <2>7 DEF ScanClosed, PipeWriteFails, ReportError, ScanLine, ScanEOF,
         ScanBreaks, StreamStep, Emit
    <3> QED  BY <3>1
  <2>8. CASE WriteCertPEM \/ StartFails \/ Listen \/ ServeCheck \/ AcceptFails
            \/ BeginStop \/ LockConns \/ ConnsDone \/ CloseListener \/ Cleanup
            \/ CloseEvents \/ Drain \/ UNCHANGED vars
    <3>1. UNCHANGED <<pc, cur, fault, offered>>
      BY <2>8 DEF WriteCertPEM, StartFails, Listen, ServeCheck, AcceptFails, BeginStop,
         LockConns, ConnsDone, CloseListener, Cleanup, CloseEvents, Drain, StopStep, vars
    <3> QED  BY <3>1
  <2> QED  BY <2>1, <2>2, <2>3, <2>4, <2>5, <2>6, <2>7, <2>8
    DEF Next, Handler, Target, Stream, Upstream, Stop
<1> QED  BY <1>1, <1>2, TypeCorrect, OneHandler, PTL DEF Spec

\* No fault is written, or seen, that was not offered to the channel before.
LEMMA WrittenAndSeen == Spec => [](RecordedBeforeWritten /\ RecordedBeforeSeen)
<1> DEFINE Answered == \A r \in Req : answer[r] \in {"synthetic", "cut"} => r \in offered
           Inv == RecordedBeforeWritten /\ Answered
<1> USE ForwardProxyAssumption DEF ForwardProxyAssumption
<1>1. Init => Inv
  BY DEF Init, RecordedBeforeWritten
<1>2. ASSUME TypeOK, OneHandlerPerRequest, Inv, [Next]_vars
      PROVE  Inv'
  <2> USE <1>2 DEF TypeOK, RecordedBeforeWritten, startVars, handlerVars, streamVars, eventVars
  <2>1. CASE WriteCertPEM \/ StartFails \/ Listen \/ ServeCheck \/ AcceptFails
    <3>1. UNCHANGED <<body, stream, offered, answer>>
      BY <2>1 DEF WriteCertPEM, StartFails, Listen, ServeCheck, AcceptFails
    <3> QED  BY <3>1
  <2>2. ASSUME NEW c \in Conn, ApplySynthetic(c)
        PROVE  Inv'
    BY <2>2 DEF ApplySynthetic, Emit
  <2>3. ASSUME NEW c \in Conn, ApplyCutoff(c)
        PROVE  Inv'
    BY <2>3 DEF ApplyCutoff, Emit
  <2>4. ASSUME NEW c \in Conn, ReadPipe(c)
        PROVE  Inv'
    BY <2>4 DEF ReadPipe
  <2>5. ASSUME NEW c \in Conn, FlushOK(c)
        PROVE  Inv'
    BY <2>5 DEF FlushOK, Resume, Received, OneHandlerPerRequest
  <2>6. ASSUME NEW c \in Conn, UpstreamAnswers(c)
        PROVE  Inv'
    BY <2>6 DEF UpstreamAnswers
  <2>7. ASSUME NEW c \in Conn,
               Register(c) \/ ReadEnds(c) \/ TunnelFails(c) \/ PassResponse(c)
               \/ PipeEOF(c) \/ WriteChunk(c) \/ WriteFails(c) \/
               FlushFails(c) \/ Accept(c) \/ ClientLeaves(c) \/
               HandleConnect(c) \/ TunnelOpens(c) \/ ReadChunk(c) \/
               BodyEnds(c)
        PROVE  Inv'
    <3>1. UNCHANGED <<body, stream, offered, answer>>
      BY <2>7 DEF Register, ReadEnds, TunnelFails, PassResponse, PipeEOF,
         WriteChunk, WriteFails, FlushFails, Accept, ClientLeaves,
         HandleConnect, TunnelOpens, ReadChunk, BodyEnds, Resume
    <3> QED  BY <3>1
  <2>8. ASSUME NEW c \in Conn, NEW r \in Req, HandleRequest(c, r)
        PROVE  Inv'
    <3>1. UNCHANGED <<body, stream, offered, answer>>  BY <2>8 DEF HandleRequest
    <3> QED  BY <3>1
  <2>9. ASSUME NEW r \in Req, ScanClosed(r)
        PROVE  Inv'
    BY <2>9 DEF ScanClosed, StreamStep
  <2>10. ASSUME NEW r \in Req, PipeWriteFails(r)
        PROVE  Inv'
    BY <2>10 DEF PipeWriteFails, StreamStep
  <2>11. ASSUME NEW r \in Req, ReportError(r)
        PROVE  Inv'
    BY <2>11 DEF ReportError, StreamStep, Emit
  <2>12. ASSUME NEW r \in Req, ScanLine(r)
        PROVE  Inv'
    BY <2>12 DEF ScanLine, StreamStep
  <2>13. ASSUME NEW r \in Req, ScanEOF(r)
        PROVE  Inv'
    BY <2>13 DEF ScanEOF, StreamStep
  <2>14. ASSUME NEW r \in Req, ScanBreaks(r)
        PROVE  Inv'
    BY <2>14 DEF ScanBreaks, StreamStep
  <2>15. CASE BeginStop \/ LockConns \/ ConnsDone \/ CloseListener \/ Cleanup
            \/ CloseEvents \/ Drain
    <3>1. UNCHANGED <<body, stream, offered, answer>>
      BY <2>15 DEF BeginStop, LockConns, ConnsDone, CloseListener, Cleanup,
         CloseEvents, Drain, StopStep
    <3> QED  BY <3>1
  <2>16. CASE UNCHANGED vars
    BY <2>16 DEF vars
  <2>17. ASSUME NEW c \in Conn, WriteHead(c)
        PROVE  Inv'
    BY <2>17 DEF WriteHead
  <2>18. ASSUME NEW c \in Conn, HeadFails(c)
        PROVE  Inv'
    BY <2>18 DEF HeadFails, Resume
  <2> QED  BY <2>1, <2>2, <2>3, <2>4, <2>5, <2>6, <2>7, <2>8, <2>9, <2>10,
              <2>11, <2>12, <2>13, <2>14, <2>15, <2>16, <2>17, <2>18
    DEF Next, Handler, Target, Stream, Upstream, Stop
<1>3. Inv /\ RecordedBeforeFirstByte => RecordedBeforeWritten /\ RecordedBeforeSeen
  BY DEF RecordedBeforeSeen
<1> QED  BY <1>1, <1>2, <1>3, TypeCorrect, OneHandler, FirstByteHolds, PTL DEF Spec

\* No target ever sees a fault that was not offered to the channel before.
THEOREM RecordedFirst == Spec => []RecordedBeforeSeen
BY WrittenAndSeen, PTL

-----------------------------------------------------------------------------
\* How the CA file and the handlers follow Start and Stop.
LEMMA LifecycleHolds == Spec => []Lifecycle
<1>1. Init => Lifecycle
  BY DEF Init, Lifecycle
<1>2. ASSUME TypeOK, Lifecycle, [Next]_vars
      PROVE  Lifecycle'
  <2> USE <1>2 DEF TypeOK, Lifecycle, startVars, handlerVars, streamVars, eventVars
  <2>1. CASE WriteCertPEM
    BY <2>1 DEF WriteCertPEM
  <2>2. CASE StartFails
    BY <2>2 DEF StartFails
  <2>3. CASE Listen
    BY <2>3 DEF Listen
  <2>4. CASE ServeCheck
    BY <2>4 DEF ServeCheck
  <2>5. CASE AcceptFails
    BY <2>5 DEF AcceptFails
  <2>6. ASSUME NEW c \in Conn, Register(c)
        PROVE  Lifecycle'
    BY <2>6 DEF Register
  <2>7. ASSUME NEW c \in Conn, ReadEnds(c)
        PROVE  Lifecycle'
    BY <2>7 DEF ReadEnds
  <2>8. ASSUME NEW c \in Conn, TunnelFails(c)
        PROVE  Lifecycle'
    BY <2>8 DEF TunnelFails
  <2>9. ASSUME NEW c \in Conn, PassResponse(c)
        PROVE  Lifecycle'
    BY <2>9 DEF PassResponse
  <2>10. ASSUME NEW c \in Conn, ApplySynthetic(c)
        PROVE  Lifecycle'
    BY <2>10 DEF ApplySynthetic
  <2>11. ASSUME NEW c \in Conn, ApplyCutoff(c)
        PROVE  Lifecycle'
    BY <2>11 DEF ApplyCutoff
  <2>12. ASSUME NEW c \in Conn, ReadPipe(c)
        PROVE  Lifecycle'
    BY <2>12 DEF ReadPipe
  <2>13. ASSUME NEW c \in Conn, PipeEOF(c)
        PROVE  Lifecycle'
    BY <2>13 DEF PipeEOF
  <2>14. ASSUME NEW c \in Conn, WriteChunk(c)
        PROVE  Lifecycle'
    BY <2>14 DEF WriteChunk
  <2>15. ASSUME NEW c \in Conn, WriteFails(c)
        PROVE  Lifecycle'
    BY <2>15 DEF WriteFails, Resume
  <2>16. ASSUME NEW c \in Conn, FlushOK(c)
        PROVE  Lifecycle'
    BY <2>16 DEF FlushOK, Resume
  <2>17. ASSUME NEW c \in Conn, FlushFails(c)
        PROVE  Lifecycle'
    BY <2>17 DEF FlushFails, Resume
  <2>18. ASSUME NEW c \in Conn, Accept(c)
        PROVE  Lifecycle'
    BY <2>18 DEF Accept
  <2>19. ASSUME NEW c \in Conn, HandleConnect(c)
        PROVE  Lifecycle'
    BY <2>19 DEF HandleConnect
  <2>20. ASSUME NEW c \in Conn, TunnelOpens(c)
        PROVE  Lifecycle'
    BY <2>20 DEF TunnelOpens
  <2>21. ASSUME NEW c \in Conn, UpstreamAnswers(c)
        PROVE  Lifecycle'
    BY <2>21 DEF UpstreamAnswers
  <2>22. ASSUME NEW c \in Conn, ReadChunk(c)
        PROVE  Lifecycle'
    BY <2>22 DEF ReadChunk
  <2>23. ASSUME NEW c \in Conn, BodyEnds(c)
        PROVE  Lifecycle'
    BY <2>23 DEF BodyEnds
  <2>24. ASSUME NEW c \in Conn,
               ClientLeaves(c)
        PROVE  Lifecycle'
    <3>1. UNCHANGED <<life, pem, serve, pc>>
      BY <2>24 DEF ClientLeaves
    <3> QED  BY <3>1
  <2>25. ASSUME NEW c \in Conn, NEW r \in Req, HandleRequest(c, r)
        PROVE  Lifecycle'
    BY <2>25 DEF HandleRequest
  <2>26. ASSUME NEW r \in Req,
               ScanClosed(r) \/ PipeWriteFails(r) \/ ReportError(r) \/
               ScanLine(r) \/ ScanEOF(r) \/ ScanBreaks(r)
        PROVE  Lifecycle'
    <3>1. UNCHANGED <<life, pem, serve, pc>>
      BY <2>26 DEF ScanClosed, PipeWriteFails, ReportError, ScanLine, ScanEOF,
         ScanBreaks, StreamStep
    <3> QED  BY <3>1
  <2>27. CASE BeginStop
    BY <2>27 DEF BeginStop, StopStep
  <2>28. CASE LockConns
    BY <2>28 DEF LockConns, StopStep
  <2>29. CASE ConnsDone
    BY <2>29 DEF ConnsDone, StopStep
  <2>30. CASE CloseListener
    BY <2>30 DEF CloseListener, StopStep
  <2>31. CASE Cleanup
    BY <2>31 DEF Cleanup, StopStep
  <2>32. CASE CloseEvents
    BY <2>32 DEF CloseEvents, StopStep
  <2>33. CASE Drain
    <3>1. UNCHANGED <<life, pem, serve, pc>>
      BY <2>33 DEF Drain
    <3> QED  BY <3>1
  <2>34. CASE UNCHANGED vars
    BY <2>34 DEF vars
  <2>35. ASSUME NEW c \in Conn, WriteHead(c)
        PROVE  Lifecycle'
    BY <2>35 DEF WriteHead
  <2>36. ASSUME NEW c \in Conn, HeadFails(c)
        PROVE  Lifecycle'
    BY <2>36 DEF HeadFails, Resume
  <2> QED  BY <2>1, <2>2, <2>3, <2>4, <2>5, <2>6, <2>7, <2>8, <2>9, <2>10,
              <2>11, <2>12, <2>13, <2>14, <2>15, <2>16, <2>17, <2>18, <2>19,
              <2>20, <2>21, <2>22, <2>23, <2>24, <2>25, <2>26, <2>27, <2>28,
              <2>29, <2>30, <2>31, <2>32, <2>33, <2>34, <2>35, <2>36
    DEF Next, Handler, Target, Stream, Upstream, Stop
<1> QED  BY <1>1, <1>2, TypeCorrect, PTL DEF Spec

\* The CA file is there for every handler, and gone when Start has failed or
\* Stop is done.
THEOREM CAFileIsTidy == Spec => []CAFileLifetime
<1>1. TypeOK /\ Lifecycle /\ HandlersQuiesced => CAFileLifetime
  BY DEF TypeOK, Lifecycle, HandlersQuiesced, CAFileLifetime, Serving
<1> QED  BY <1>1, TypeCorrect, LifecycleHolds, Quiesced, PTL

-----------------------------------------------------------------------------
(* The Injector contract *)

\* A request is new to its handler, and answered at its end.
LEMMA PendingHolds == Spec => []Pending
<1>1. Init => Pending
  BY ForwardProxyAssumption DEF Init, Pending, ForwardProxyAssumption
<1>2. ASSUME TypeOK, OneHandlerPerRequest, Pending, [Next]_vars
      PROVE  Pending'
  <2> USE <1>2, ForwardProxyAssumption
      DEF ForwardProxyAssumption, TypeOK, OneHandlerPerRequest, Released, Pending,
          startVars, handlerVars, streamVars, eventVars
  <2>1. CASE WriteCertPEM \/ StartFails \/ Listen \/ ServeCheck \/ AcceptFails
    <3>1. UNCHANGED <<pc, cur, fault, offered, answer>>
      BY <2>1 DEF WriteCertPEM, StartFails, Listen, ServeCheck, AcceptFails
    <3> QED  BY <3>1
  <2>2. ASSUME NEW c \in Conn, NEW r \in Req, HandleRequest(c, r)
        PROVE  Pending'
    <3>1. /\ fault[r] = "undecided" /\ cur' = [cur EXCEPT ![c] = r]
          /\ UNCHANGED <<offered, answer>>
      BY <2>2 DEF HandleRequest
    <3>2. PICK f \in Faults \cup {"none"} : fault' = [fault EXCEPT ![r] = f]
      BY <2>2 DEF HandleRequest
    <3>3. PICK next \in {"respond", "roundtrip"} : pc' = [pc EXCEPT ![c] = next]
      BY <2>2 DEF HandleRequest
    <3>4. f # "undecided"  BY <3>2
    <3> QED  BY <3>1, <3>2, <3>3, <3>4
  <2>3. ASSUME NEW c \in Conn, ApplySynthetic(c) \/ ApplyCutoff(c)
        PROVE  Pending'
    <3>1. /\ pc[c] = "respond" /\ fault[cur[c]] # "undecided" /\ cur[c] \in Req
          /\ offered' = offered \cup {cur[c]}
          /\ UNCHANGED <<cur, fault, answer>>
      BY <2>3 DEF ApplySynthetic, ApplyCutoff, Emit
    <3>2. PICK next \in {"flush", "head"} : pc' = [pc EXCEPT ![c] = next]
      BY <2>3 DEF ApplySynthetic, ApplyCutoff
    <3> QED  BY <3>1, <3>2
  <2>4. ASSUME NEW c \in Conn, FlushOK(c)
        PROVE  Pending'
    <3>1. /\ pc[c] = "flush" /\ cur[c] \in Req /\ fault[cur[c]] # "undecided"
          /\ cur' = [cur EXCEPT ![c] = NoReq]
          /\ UNCHANGED <<fault, offered>>
      BY <2>4 DEF FlushOK, Resume
    <3>2. PICK next \in {"closed", "reading"} : pc' = [pc EXCEPT ![c] = next]
      BY <2>4 DEF FlushOK, Resume
    <3>3. PICK a : answer' = [answer EXCEPT ![cur[c]] = a]
      BY <2>4 DEF FlushOK
    <3> QED  BY <3>1, <3>2, <3>3
  <2>5. ASSUME NEW c \in Conn, HeadFails(c) \/ WriteFails(c) \/ FlushFails(c)
        PROVE  Pending'
    <3>1. cur' = [cur EXCEPT ![c] = NoReq] /\ UNCHANGED <<fault, offered, answer>>
      BY <2>5 DEF HeadFails, WriteFails, FlushFails, Resume
    <3>2. PICK next \in {"closed", "reading"} : pc' = [pc EXCEPT ![c] = next]
      BY <2>5 DEF HeadFails, WriteFails, FlushFails, Resume
    <3> QED  BY <3>1, <3>2
  <2>6. ASSUME NEW c \in Conn,
               Register(c) \/ ReadEnds(c) \/ TunnelFails(c) \/ PassResponse(c)
               \/ WriteHead(c) \/ ReadPipe(c) \/ PipeEOF(c) \/ WriteChunk(c)
               \/ Accept(c) \/ HandleConnect(c) \/ TunnelOpens(c)
               \/ UpstreamAnswers(c) \/ ReadChunk(c) \/ BodyEnds(c)
        PROVE  Pending'
    <3>1. UNCHANGED <<cur, fault, offered, answer>>
      BY <2>6 DEF Register, ReadEnds, TunnelFails, PassResponse, WriteHead, ReadPipe,
         PipeEOF, WriteChunk, Accept, HandleConnect, TunnelOpens, UpstreamAnswers,
         ReadChunk, BodyEnds
    <3>2. PICK next : pc' = [pc EXCEPT ![c] = next]
      BY <2>6 DEF Register, ReadEnds, TunnelFails, PassResponse, WriteHead, ReadPipe,
         PipeEOF, WriteChunk, Accept, HandleConnect, TunnelOpens, UpstreamAnswers,
         ReadChunk, BodyEnds
    <3>3. next \in {"roundtrip", "respond"} => pc[c] \in {"roundtrip", "respond"}
      BY <2>6, <3>2 DEF Register, ReadEnds, TunnelFails, PassResponse, WriteHead, ReadPipe,
         PipeEOF, WriteChunk, Accept, HandleConnect, TunnelOpens, UpstreamAnswers,
         ReadChunk, BodyEnds
    <3> QED  BY <3>1, <3>2, <3>3
  <2>7. ASSUME NEW c \in Conn, ClientLeaves(c)
        PROVE  Pending'
    <3>1. UNCHANGED <<pc, cur, fault, offered, answer>>  BY <2>7 DEF ClientLeaves
    <3> QED  BY <3>1
  <2>8. ASSUME NEW r \in Req,
               ScanClosed(r) \/ PipeWriteFails(r) \/ ReportError(r)
               \/ ScanLine(r) \/ ScanEOF(r) \/ ScanBreaks(r)
        PROVE  Pending'
    <3>1. UNCHANGED <<pc, cur, fault, offered, answer>>
      BY <2>8 DEF ScanClosed, PipeWriteFails, ReportError, ScanLine, ScanEOF,
         ScanBreaks, StreamStep, Emit
    <3> QED  BY <3>1
  <2>9. CASE BeginStop \/ LockConns \/ ConnsDone \/ CloseListener \/ Cleanup
            \/ CloseEvents \/ Drain
    <3>1. UNCHANGED <<pc, cur, fault, offered, answer>>
      BY <2>9 DEF BeginStop, LockConns, ConnsDone, CloseListener, Cleanup,
         CloseEvents, Drain, StopStep
    <3> QED  BY <3>1
  <2>10. CASE UNCHANGED vars
    BY <2>10 DEF vars
  <2> QED  BY <2>1, <2>2, <2>3, <2>4, <2>5, <2>6, <2>7, <2>8, <2>9, <2>10
    DEF Next, Handler, Target, Stream, Upstream, Stop
<1> QED  BY <1>1, <1>2, TypeCorrect, OneHandler, PTL DEF Spec

\* A step that leaves the channel, the answers and the life of the injector
\* alone is a stutter of the contract.
LEMMA ContractStutters ==
    ASSUME ContractPhase' = ContractPhase, UNCHANGED <<answer, offered, buf, collected>>
    PROVE  UNCHANGED Contract!contractVars
BY DEF Contract!contractVars, Observed

\* While a handler serves, the contract sees a running injector.
LEMMA ServingIsRunning ==
    ASSUME TypeOK, HandlersQuiesced, Lifecycle, NEW c \in Conn, Serving(c)
    PROVE  ContractPhase = "running" /\ life # "stopped"
BY DEF TypeOK, HandlersQuiesced, Lifecycle, Serving, ContractPhase

\* With synthetic faults the forward proxy implements the Injector contract:
\* each event is offered once and before its fault can be seen, while the
\* injector runs, and only Stop closes the channel.
THEOREM Implements == ASSUME "cutoff" \notin Faults PROVE Spec => ImplementsContract
<1>1. Init => Contract!ContractInit
  <2> SUFFICES ASSUME Init PROVE Contract!ContractInit  OBVIOUS
  <2>1. [i \in DOMAIN buf |-> buf[i].req] = <<>>  BY DEF Init
  <2>2. Observed = {} /\ {e.req : e \in collected} = {}  BY DEF Init, Observed
  <2> QED  BY <2>1, <2>2 DEF Init, Contract!ContractInit, ContractPhase
<1>2. ASSUME TypeOK, HandlersQuiesced, NoStream, NoSendAfterClose, RecordedBeforeWritten,
             OneHandlerPerRequest, Lifecycle, Pending, [Next]_vars
      PROVE  Contract!ContractNext \/ UNCHANGED Contract!contractVars
  <2> DEFINE Quiet == UNCHANGED <<answer, offered, buf, collected>>
  <2> USE <1>2 DEF startVars, handlerVars, streamVars, eventVars
  <2>1. CASE StartFails
    <3>1. ContractPhase = "new" /\ ContractPhase' = "failed" /\ Observed' = Observed /\ Quiet
      BY <2>1 DEF StartFails, ContractPhase, Observed
    <3> QED  BY <3>1 DEF Contract!ContractNext, Contract!StartFails
  <2>2. CASE Listen
    <3>1. ContractPhase = "new" /\ ContractPhase' = "running" /\ Observed' = Observed /\ Quiet
      BY <2>2 DEF Listen, ContractPhase, Observed
    <3> QED  BY <3>1 DEF Contract!ContractNext, Contract!Start
  <2>3. CASE CloseEvents
    <3>1. ContractPhase = "running" /\ ContractPhase' = "stopped" /\ Observed' = Observed /\ Quiet
      BY <2>3 DEF CloseEvents, StopStep, ContractPhase, Observed
    <3> QED  BY <3>1 DEF Contract!ContractNext, Contract!Stop
  <2>4. CASE Drain
    <3>1. /\ buf \in Seq(EventType) /\ buf # <<>> /\ buf' = Tail(buf)
          /\ collected' = collected \cup {Head(buf)}
      BY <2>4 DEF Drain, TypeOK
    <3>2. /\ Requests(buf) # <<>> /\ Requests(buf') = Tail(Requests(buf))
          /\ Head(Requests(buf)) = Head(buf).req
      BY <3>1, RequestsDrain
    <3>3. {e.req : e \in collected'} = {e.req : e \in collected} \cup {Head(Requests(buf))}
      BY <3>1, <3>2
    <3>4. ContractPhase' = ContractPhase /\ Observed' = Observed /\ offered' = offered
      BY <2>4 DEF Drain, ContractPhase, Observed
    <3> QED  BY <3>2, <3>3, <3>4 DEF Contract!ContractNext, Contract!Drain, Requests
  <2>5. ASSUME NEW c \in Conn, ApplySynthetic(c)
        PROVE  Contract!ContractNext
    <3> DEFINE r == cur[c]
    <3>1. pc[c] = "respond" /\ Emit(r, FALSE) /\ UNCHANGED <<life, answer, collected>>
      BY <2>5 DEF ApplySynthetic
    <3>2. r \in Req /\ r \notin offered  BY <3>1 DEF TypeOK, Pending
    <3>3. ContractPhase = "running" /\ life # "stopped"
      BY <3>1, ServingIsRunning DEF Serving
    <3>4. offered' = offered \cup {r} /\ buf' = TrySend(buf, Event(r, FALSE))
      BY <3>1, <3>3 DEF Emit, Open
    <3>5. Requests(buf') = TrySend(Requests(buf), r)
      <4>1. Event(r, FALSE) \in EventType /\ Event(r, FALSE).req = r
        BY <3>2 DEF Event, EventType
      <4>2. buf \in Seq(EventType)  BY DEF TypeOK
      <4> QED  BY <3>4, <4>1, <4>2, RequestsTrySend
    <3>6. ContractPhase' = ContractPhase /\ Observed' = Observed /\ collected' = collected
      BY <3>1 DEF ContractPhase, Observed
    <3> HIDE DEF r
    <3> QED
      BY <3>2, <3>3, <3>4, <3>5, <3>6
      DEF Contract!ContractNext, Contract!Offer, Contract!TrySend, TrySend, Requests
  <2>6. ASSUME NEW c \in Conn, ApplyCutoff(c)
        PROVE  FALSE
    <3>1. cur[c] \in Req /\ fault[cur[c]] = "cutoff"  BY <2>6 DEF ApplyCutoff, TypeOK
    <3>2. fault[cur[c]] \in {"undecided", "none"} \cup Faults  BY <3>1 DEF TypeOK
    <3> QED  BY <3>1, <3>2
  <2>7. ASSUME NEW c \in Conn, FlushOK(c)
        PROVE  Contract!ContractNext \/ UNCHANGED Contract!contractVars
    <3> DEFINE r == cur[c]
    <3>1. /\ pc[c] = "flush" /\ answer' = [answer EXCEPT ![r] = Received(r)]
          /\ UNCHANGED <<life, offered, buf, collected>>
      BY <2>7 DEF FlushOK
    <3>2. r \in Req /\ answer[r] = "nothing"  BY <3>1 DEF TypeOK, Pending
    <3>3. ContractPhase = "running" /\ ContractPhase' = ContractPhase
      BY <3>1, ServingIsRunning DEF Serving, ContractPhase
    <3>4. CASE body[r] = "synthetic"
      <4>1. r \in offered  BY <3>2, <3>4 DEF RecordedBeforeWritten
      <4>2. Observed' = Observed \cup {r}
        BY <3>1, <3>2, <3>4 DEF Received, Observed, TypeOK
      <4> HIDE DEF r
      <4> QED
        BY <3>1, <3>2, <3>3, <4>1, <4>2 DEF Contract!ContractNext, Contract!Observe
    <3>5. CASE body[r] # "synthetic"
      <4>1. deltas[r] = 0  BY <3>2 DEF OneHandlerPerRequest, NoStream
      <4>2. Received(r) = "uncut"
        BY <3>5, <4>1, ForwardProxyAssumption DEF Received, ForwardProxyAssumption
      <4>3. Observed' = Observed  BY <3>1, <3>2, <4>2 DEF Observed, TypeOK
      <4> QED  BY <3>1, <3>3, <4>3 DEF Contract!contractVars
    <3> QED  BY <3>4, <3>5
  <2>8. ASSUME NEW c \in Conn,
               Register(c) \/ ReadEnds(c) \/ TunnelFails(c) \/ PassResponse(c)
               \/ WriteHead(c) \/ HeadFails(c) \/ ReadPipe(c) \/ PipeEOF(c)
               \/ WriteChunk(c) \/ WriteFails(c) \/ FlushFails(c) \/ Accept(c)
               \/ ClientLeaves(c) \/ HandleConnect(c) \/ TunnelOpens(c)
               \/ UpstreamAnswers(c) \/ ReadChunk(c) \/ BodyEnds(c)
        PROVE  UNCHANGED Contract!contractVars
    <3>1. life' = life /\ Quiet
      BY <2>8 DEF Register, ReadEnds, TunnelFails, PassResponse, WriteHead, HeadFails,
         ReadPipe, PipeEOF, WriteChunk, WriteFails, FlushFails, Accept, ClientLeaves,
         HandleConnect, TunnelOpens, UpstreamAnswers, ReadChunk, BodyEnds
    <3> QED  BY <3>1, ContractStutters DEF ContractPhase
  <2>9. ASSUME NEW c \in Conn, NEW r \in Req, HandleRequest(c, r)
        PROVE  UNCHANGED Contract!contractVars
    <3>1. life' = life /\ Quiet  BY <2>9 DEF HandleRequest
    <3> QED  BY <3>1, ContractStutters DEF ContractPhase
  <2>10. ASSUME NEW r \in Req,
                ScanClosed(r) \/ PipeWriteFails(r) \/ ReportError(r)
                \/ ScanLine(r) \/ ScanEOF(r) \/ ScanBreaks(r)
         PROVE  FALSE
    BY <2>10 DEF NoStream, ScanClosed, PipeWriteFails, ReportError, ScanLine, ScanEOF,
       ScanBreaks, StreamStep
  <2>11. CASE WriteCertPEM \/ ServeCheck \/ AcceptFails \/ BeginStop \/ LockConns
             \/ ConnsDone \/ CloseListener \/ Cleanup
    <3>1. Quiet
      BY <2>11 DEF WriteCertPEM, ServeCheck, AcceptFails, BeginStop, LockConns, ConnsDone,
         CloseListener, Cleanup, StopStep
    <3>2. ContractPhase' = ContractPhase
      BY <2>11 DEF WriteCertPEM, ServeCheck, AcceptFails, BeginStop, LockConns, ConnsDone,
         CloseListener, Cleanup, StopStep, ContractPhase
    <3> QED  BY <3>1, <3>2, ContractStutters
  <2>12. CASE UNCHANGED vars
    BY <2>12, ContractStutters DEF vars, ContractPhase
  <2> QED
    BY <1>2, <2>1, <2>2, <2>3, <2>4, <2>5, <2>6, <2>7, <2>8, <2>9, <2>10, <2>11, <2>12
    DEF Next, Handler, Target, Stream, Upstream, Stop
<1> QED
  BY <1>1, <1>2, TypeCorrect, Quiesced, NoStreams, WrittenAndSeen, OneHandler,
     LifecycleHolds, PendingHolds, PTL
  DEF Spec, ImplementsContract, Contract!Contract

=============================================================================
