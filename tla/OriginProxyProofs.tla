-------------------------- MODULE OriginProxyProofs --------------------------
(***************************************************************************)
(* Theorems about OriginProxy, for any set of requests, any capacity of    *)
(* the event channel, any budget of the cut-off and any length of stream.  *)
(***************************************************************************)
EXTENDS OriginProxy, EventsProofs

\* Every variable keeps the type the code gives it.
THEOREM TypeCorrect == Spec => []TypeOK
<1> USE OriginProxyAssumption, EventBufferAssumption
    DEF OriginProxyAssumption, EventBufferAssumption
<1>1. Init => TypeOK
  <2>1. <<>> \in Seq(EventType) /\ Len(<<>>) <= EventBuffer  OBVIOUS
  <2> SUFFICES ASSUME Init PROVE TypeOK  OBVIOUS
  <2> USE DEF Init
  <2>2. /\ pc \in [Req -> {"none"}] /\ conn \in [Req -> {"none"}]
        /\ fault \in [Req -> {"undecided", "none"} \cup Faults]
    OBVIOUS
  <2>3. stream \in [Req -> {"off"}] /\ answer \in [Req -> {"nothing"}]  OBVIOUS
  <2>4. deltas \in [Req -> Nat]  OBVIOUS
  <2> QED  BY <2>1, <2>2, <2>3, <2>4 DEF TypeOK
<1>2. ASSUME TypeOK, [Next]_vars
      PROVE  TypeOK'
  <2> USE <1>2 DEF TypeOK, serverVars, handlerVars, streamVars, eventVars
  <2>1. CASE StartFails  BY <2>1 DEF StartFails
  <2>2. CASE Listen  BY <2>2 DEF Listen
  <2>3. CASE ServeStarts  BY <2>3 DEF ServeStarts
  <2>4. CASE ServeEnds  BY <2>4 DEF ServeEnds
  <2>5. ASSUME NEW r \in Req, Accept(r)
        PROVE  TypeOK'
    BY <2>5 DEF Accept
  <2>6. ASSUME NEW r \in Req, ClientLeaves(r)
        PROVE  TypeOK'
    BY <2>6 DEF ClientLeaves
  <2>7. ASSUME NEW r \in Req, Request(r)
        PROVE  TypeOK'
    <3>1. PICK f \in Faults \cup {"none"}, next \in {"write", "roundtrip", "finish"} :
             /\ fault' = [fault EXCEPT ![r] = f]
             /\ HandlerStep(r, "reading", next)
      BY <2>7 DEF Request
    <3> QED  BY <2>7, <3>1 DEF Request, HandlerStep
  <2>8. ASSUME NEW r \in Req, ReadEnds(r)
        PROVE  TypeOK'
    BY <2>8 DEF ReadEnds
  <2>9. ASSUME NEW r \in Req, WriteSynthetic(r)
        PROVE  TypeOK'
    BY <2>9 DEF WriteSynthetic, HandlerStep, MayReceive
  <2>10. ASSUME NEW r \in Req, Emit(r)
        PROVE  TypeOK'
    <3>1. Event(r, FALSE) \in EventType  BY DEF Event, EventType
    <3>2. /\ TrySend(buf, Event(r, FALSE)) \in Seq(EventType)
          /\ Len(TrySend(buf, Event(r, FALSE))) <= EventBuffer
      BY <3>1, TrySendType
    <3> QED  BY <2>10, <3>2 DEF Emit, HandlerStep, AfterEmit
  <2>11. ASSUME NEW r \in Req, EmitPanics(r)
        PROVE  TypeOK'
    BY <2>11 DEF EmitPanics
  <2>12. ASSUME NEW r \in Req, ReadPipe(r)
        PROVE  TypeOK'
    BY <2>12 DEF ReadPipe, HandlerStep
  <2>13. ASSUME NEW r \in Req, PipeEOF(r)
        PROVE  TypeOK'
    BY <2>13 DEF PipeEOF, HandlerStep
  <2>14. ASSUME NEW r \in Req, Put(r)
        PROVE  TypeOK'
    BY <2>14 DEF Put, HandlerStep, MayReceive
  <2>15. ASSUME NEW r \in Req, PutFails(r)
        PROVE  TypeOK'
    BY <2>15 DEF PutFails, Abort
  <2>16. ASSUME NEW r \in Req, Finish(r)
        PROVE  TypeOK'
    BY <2>16 DEF Finish, HandlerStep
  <2>17. ASSUME NEW r \in Req, UpstreamAnswers(r)
        PROVE  TypeOK'
    <3>1. CASE fault[r] = "none" /\ HandlerStep(r, "roundtrip", "copy") /\ UNCHANGED stream
      BY <2>17, <3>1 DEF UpstreamAnswers, HandlerStep
    <3>2. ASSUME HandlerStep(r, "roundtrip", "emit"), NEW w \in {"off", "scan"},
                 stream' = [stream EXCEPT ![r] = w]
          PROVE  TypeOK'
      BY <2>17, <3>2 DEF UpstreamAnswers, HandlerStep
    <3> QED  BY <2>17, <3>1, <3>2 DEF UpstreamAnswers
  <2>18. ASSUME NEW r \in Req, UpstreamFails(r)
        PROVE  TypeOK'
    BY <2>18 DEF UpstreamFails, HandlerStep
  <2>19. ASSUME NEW r \in Req, ReadChunk(r)
        PROVE  TypeOK'
    BY <2>19 DEF ReadChunk, HandlerStep
  <2>20. ASSUME NEW r \in Req, BodyEnds(r)
        PROVE  TypeOK'
    BY <2>20 DEF BodyEnds, HandlerStep
  <2>21. ASSUME NEW r \in Req, BodyBreaks(r)
        PROVE  TypeOK'
    BY <2>21 DEF BodyBreaks, Abort
  <2>22. ASSUME NEW r \in Req, ScanLine(r)
        PROVE  TypeOK'
    BY <2>22 DEF ScanLine, StreamStep
  <2>23. ASSUME NEW r \in Req, ScanEnds(r)
        PROVE  TypeOK'
    BY <2>23 DEF ScanEnds, StreamStep
  <2>24. ASSUME NEW r \in Req, ScanCancelled(r)
        PROVE  TypeOK'
    BY <2>24 DEF ScanCancelled, StreamStep
  <2>25. ASSUME NEW r \in Req, PipeWriteFails(r)
        PROVE  TypeOK'
    BY <2>25 DEF PipeWriteFails, StreamStep
  <2>26. ASSUME NEW r \in Req, ReportError(r)
        PROVE  TypeOK'
    <3>1. Event(r, TRUE) \in EventType  BY DEF Event, EventType
    <3>2. /\ TrySend(buf, Event(r, TRUE)) \in Seq(EventType)
          /\ Len(TrySend(buf, Event(r, TRUE))) <= EventBuffer
      BY <3>1, TrySendType
    <3> QED  BY <2>26, <3>2 DEF ReportError, StreamStep
  <2>27. CASE BeginStop  BY <2>27 DEF BeginStop, StopStep
  <2>28. CASE CloseConns  BY <2>28 DEF CloseConns, StopStep
  <2>29. CASE CloseEvents  BY <2>29 DEF CloseEvents, StopStep
  <2>30. CASE Drain
    <3>1. /\ Head(buf) \in EventType /\ Tail(buf) \in Seq(EventType)
          /\ Len(Tail(buf)) = Len(buf) - 1 /\ Len(buf) \in Nat
      BY <2>30, DrainType DEF Drain
    <3> QED  BY <2>30, <3>1 DEF Drain
  <2>31. CASE UNCHANGED vars  BY <2>31 DEF vars
  <2> QED
    BY <1>2, <2>1, <2>2, <2>3, <2>4, <2>5, <2>6, <2>7, <2>8, <2>9, <2>10,
       <2>11, <2>12, <2>13, <2>14, <2>15, <2>16, <2>17, <2>18, <2>19,
       <2>20, <2>21, <2>22, <2>23, <2>24, <2>25, <2>26, <2>27, <2>28,
       <2>29, <2>30, <2>31
    DEF Next, Target, Handler, Upstream, Stream, RoundTripCancelled, BodyCancelled
<1> QED  BY <1>1, <1>2, PTL DEF Spec

\* The invariant that joins handlers, records and connections is inductive.
THEOREM Inductive == Spec => []IInv
<1> USE OriginProxyAssumption, EventBufferAssumption
    DEF OriginProxyAssumption, EventBufferAssumption
<1>1. Init => EvidenceKept /\ CrashNeedsCutoff /\ Stages /\ OnRecord /\ Connections
  BY DEF Init, EvidenceKept, CrashNeedsCutoff, Stages, OnRecord, Connections
<1>2. ASSUME IInv, TypeOK', [Next]_vars
      PROVE  IInv'
  <2> USE <1>2 DEF IInv, TypeOK, EvidenceKept, CrashNeedsCutoff, Stages, OnRecord,
               Connections, serverVars, handlerVars, streamVars, eventVars
  <2>1. CASE StartFails  BY <2>1 DEF StartFails
  <2>2. CASE Listen  BY <2>2 DEF Listen
  <2>3. CASE ServeStarts  BY <2>3 DEF ServeStarts
  <2>4. CASE ServeEnds  BY <2>4 DEF ServeEnds
  <2>5. ASSUME NEW r \in Req, Accept(r)
        PROVE  IInv'
    BY <2>5 DEF Accept
  <2>6. ASSUME NEW r \in Req, ClientLeaves(r)
        PROVE  IInv'
    BY <2>6 DEF ClientLeaves
  <2>7. ASSUME NEW r \in Req, Request(r)
        PROVE  IInv'
    <3>1. PICK f \in Faults \cup {"none"} :
             /\ fault' = [fault EXCEPT ![r] = f]
             /\ \E next \in CASE f = "synthetic" -> {"write"}
                              [] f = "cutoff"    -> {"roundtrip"}
                              [] OTHER           -> {"roundtrip", "finish"} :
                   HandlerStep(r, "reading", next)
      BY <2>7 DEF Request
    <3>2. PICK next \in {"write", "roundtrip", "finish"} :
             /\ HandlerStep(r, "reading", next)
             /\ next = "write" <=> f = "synthetic"
      BY <3>1
    <3> QED  BY <2>7, <3>1, <3>2 DEF Request, HandlerStep
  <2>8. ASSUME NEW r \in Req, ReadEnds(r)
        PROVE  IInv'
    BY <2>8 DEF ReadEnds
  <2>9. ASSUME NEW r \in Req, WriteSynthetic(r)
        PROVE  IInv'
    <3>1. EvidenceKept' /\ CrashNeedsCutoff'  BY <2>9 DEF WriteSynthetic, HandlerStep, MayReceive
    <3>2. Stages' /\ Connections'  BY <2>9 DEF WriteSynthetic, HandlerStep, MayReceive
    <3>3. OnRecord'  BY <2>9 DEF WriteSynthetic, HandlerStep, MayReceive
    <3> QED  BY <3>1, <3>2, <3>3
  <2>10. ASSUME NEW r \in Req, Emit(r)
        PROVE  IInv'
    <3>1. Event(r, FALSE) \in EventType  BY DEF Event, EventType
    <3>2. buf \in Seq(EventType) /\ Len(buf) <= EventBuffer  OBVIOUS
    <3>3. TrySend(buf, Event(r, FALSE)) # <<>>
      <4> HIDE <1>2 DEF IInv, TypeOK
      <4> QED  BY <3>1, <3>2, TrySendType
    <3>4. EvidenceKept'  BY <2>10, <3>3 DEF Emit
    <3>5. Stages' /\ CrashNeedsCutoff' /\ Connections'
      BY <2>10 DEF Emit, HandlerStep, AfterEmit
    <3>6. OnRecord'  BY <2>10 DEF Emit, HandlerStep, AfterEmit
    <3> QED  BY <3>4, <3>5, <3>6
  <2>11. ASSUME NEW r \in Req, EmitPanics(r)
        PROVE  IInv'
    BY <2>11 DEF EmitPanics
  <2>12. ASSUME NEW r \in Req, ReadPipe(r)
        PROVE  IInv'
    BY <2>12 DEF ReadPipe, HandlerStep
  <2>13. ASSUME NEW r \in Req, PipeEOF(r)
        PROVE  IInv'
    <3>1. EvidenceKept' /\ CrashNeedsCutoff'  BY <2>13 DEF PipeEOF, HandlerStep
    <3>2. Stages' /\ Connections'  BY <2>13 DEF PipeEOF, HandlerStep
    <3>3. OnRecord'  BY <2>13 DEF PipeEOF, HandlerStep
    <3> QED  BY <3>1, <3>2, <3>3
  <2>14. ASSUME NEW r \in Req, Put(r)
        PROVE  IInv'
    BY <2>14 DEF Put, HandlerStep, MayReceive
  <2>15. ASSUME NEW r \in Req, PutFails(r)
        PROVE  IInv'
    BY <2>15 DEF PutFails, Abort
  <2>16. ASSUME NEW r \in Req, Finish(r)
        PROVE  IInv'
    <3>1. EvidenceKept' /\ CrashNeedsCutoff'  BY <2>16 DEF Finish, HandlerStep
    <3>2. Stages' /\ Connections'  BY <2>16 DEF Finish, HandlerStep
    <3>3. OnRecord'  BY <2>16 DEF Finish, HandlerStep
    <3> QED  BY <3>1, <3>2, <3>3
  <2>17. ASSUME NEW r \in Req, UpstreamAnswers(r)
        PROVE  IInv'
    <3>1. EvidenceKept' /\ CrashNeedsCutoff'  BY <2>17 DEF UpstreamAnswers, HandlerStep
    <3>2. Stages' /\ Connections'  BY <2>17 DEF UpstreamAnswers, HandlerStep
    <3>3. OnRecord'  BY <2>17 DEF UpstreamAnswers, HandlerStep
    <3> QED  BY <3>1, <3>2, <3>3
  <2>18. ASSUME NEW r \in Req, UpstreamFails(r)
        PROVE  IInv'
    <3>1. EvidenceKept' /\ CrashNeedsCutoff'  BY <2>18 DEF UpstreamFails, HandlerStep
    <3>2. Stages' /\ Connections'  BY <2>18 DEF UpstreamFails, HandlerStep
    <3>3. OnRecord'  BY <2>18 DEF UpstreamFails, HandlerStep
    <3> QED  BY <3>1, <3>2, <3>3
  <2>19. ASSUME NEW r \in Req, ReadChunk(r)
        PROVE  IInv'
    <3>1. EvidenceKept' /\ CrashNeedsCutoff'  BY <2>19 DEF ReadChunk, HandlerStep
    <3>2. Stages' /\ Connections'  BY <2>19 DEF ReadChunk, HandlerStep
    <3>3. OnRecord'  BY <2>19 DEF ReadChunk, HandlerStep
    <3> QED  BY <3>1, <3>2, <3>3
  <2>20. ASSUME NEW r \in Req, BodyEnds(r)
        PROVE  IInv'
    <3>1. EvidenceKept' /\ CrashNeedsCutoff'  BY <2>20 DEF BodyEnds, HandlerStep
    <3>2. Stages' /\ Connections'  BY <2>20 DEF BodyEnds, HandlerStep
    <3>3. OnRecord'  BY <2>20 DEF BodyEnds, HandlerStep
    <3> QED  BY <3>1, <3>2, <3>3
  <2>21. ASSUME NEW r \in Req, BodyBreaks(r)
        PROVE  IInv'
    BY <2>21 DEF BodyBreaks, Abort
  <2>22. ASSUME NEW r \in Req, ScanLine(r)
        PROVE  IInv'
    BY <2>22 DEF ScanLine, StreamStep
  <2>23. ASSUME NEW r \in Req, ScanEnds(r)
        PROVE  IInv'
    BY <2>23 DEF ScanEnds, StreamStep
  <2>24. ASSUME NEW r \in Req, ScanCancelled(r)
        PROVE  IInv'
    BY <2>24 DEF ScanCancelled, StreamStep
  <2>25. ASSUME NEW r \in Req, PipeWriteFails(r)
        PROVE  IInv'
    BY <2>25 DEF PipeWriteFails, StreamStep
  <2>26. ASSUME NEW r \in Req, ReportError(r)
        PROVE  IInv'
    <3>1. Event(r, TRUE) \in EventType  BY DEF Event, EventType
    <3>2. buf \in Seq(EventType) /\ Len(buf) <= EventBuffer  OBVIOUS
    <3>3. TrySend(buf, Event(r, TRUE)) # <<>>
      <4> HIDE <1>2 DEF IInv, TypeOK
      <4> QED  BY <3>1, <3>2, TrySendType
    <3>4. EvidenceKept'  BY <2>26, <3>3 DEF ReportError, StreamStep
    <3>5. stream[r] # "off" /\ fault'[r] = "cutoff"  BY <2>26 DEF ReportError, StreamStep
    <3>6. Stages' /\ OnRecord' /\ Connections'  BY <2>26 DEF ReportError, StreamStep
    <3> QED  BY <3>4, <3>5, <3>6
  <2>27. CASE BeginStop  BY <2>27 DEF BeginStop, StopStep
  <2>28. CASE CloseConns  BY <2>28 DEF CloseConns, StopStep
  <2>29. CASE CloseEvents  BY <2>29 DEF CloseEvents, StopStep
  <2>30. CASE Drain  BY <2>30 DEF Drain
  <2>31. CASE UNCHANGED vars  BY <2>31 DEF vars
  <2> QED
    BY <1>2, <2>1, <2>2, <2>3, <2>4, <2>5, <2>6, <2>7, <2>8, <2>9, <2>10,
       <2>11, <2>12, <2>13, <2>14, <2>15, <2>16, <2>17, <2>18, <2>19,
       <2>20, <2>21, <2>22, <2>23, <2>24, <2>25, <2>26, <2>27, <2>28,
       <2>29, <2>30, <2>31
    DEF Next, Target, Handler, Upstream, Stream, RoundTripCancelled, BodyCancelled
<1> QED  BY <1>1, <1>2, TypeCorrect, PTL DEF Spec, IInv

\* The target has all of a synthetic response, or any of a cut-off one that
\* ended, only when the event is on record, in every instance.
THEOREM RecordedFirst == Spec => []RecordedBeforeComplete
<1>1. IInv => RecordedBeforeComplete
  BY DEF IInv, TypeOK, Stages, OnRecord, RecordedBeforeComplete
<1> QED  BY <1>1, Inductive, PTL

\* A handler past a synthetic response has recorded it, unless the injector
\* was stopped in between, in every instance.
THEOREM AppliedIsOnRecord == Spec => []AppliedIsRecorded
<1>1. IInv => AppliedIsRecorded
  BY DEF IInv, OnRecord, AppliedIsRecorded
<1> QED  BY <1>1, Inductive, PTL

\* Whatever the capacity of the channel, dropping events on a full one never
\* leaves the CLI without any.
THEOREM EvidenceSurvives == Spec => []EvidenceKept
<1>1. IInv => EvidenceKept  BY DEF IInv
<1> QED  BY <1>1, Inductive, PTL

\* Without a cut-off experiment no order of handlers and Stop ends the process.
THEOREM CrashOnlyBehindCutoff == Spec => []CrashNeedsCutoff
<1>1. IInv => CrashNeedsCutoff  BY DEF IInv
<1> QED  BY <1>1, Inductive, PTL

\* Nothing reaches the target after Close, whatever the handlers left behind
\* still write.
THEOREM SilentAfterClose == Spec => NothingAfterClose
<1>1. ASSUME IInv, [Next]_vars, life \in {"closed", "stopped"}
      PROVE  answer' = answer
  <2> USE <1>1 DEF IInv, TypeOK, Connections, serverVars, handlerVars, streamVars, eventVars
  <2>1. ASSUME NEW r \in Req, WriteSynthetic(r) \/ Put(r)
        PROVE  answer' = answer
    BY <2>1 DEF WriteSynthetic, Put, MayReceive
  <2>2. ASSUME NEW r \in Req, Finish(r)
        PROVE  answer' = answer
    BY <2>2 DEF Finish
  <2>3. ASSUME NEW r \in Req, Target(r)
        PROVE  answer' = answer
    BY <2>3 DEF Target, Accept, ClientLeaves, Request
  <2>4. ASSUME NEW r \in Req, Handler(r), ~(WriteSynthetic(r) \/ Put(r) \/ Finish(r))
        PROVE  answer' = answer
    BY <2>4 DEF Handler, ReadEnds, Emit, EmitPanics, RoundTripCancelled, UpstreamFails,
       BodyCancelled, BodyBreaks, Abort, ReadPipe, PipeEOF, PutFails
  <2>5. ASSUME NEW r \in Req, Upstream(r) \/ Stream(r)
        PROVE  answer' = answer
    BY <2>5 DEF Upstream, UpstreamAnswers, UpstreamFails, ReadChunk, BodyEnds, BodyBreaks,
       Abort, ScanLine, ScanEnds, Stream, ScanCancelled, PipeWriteFails, ReportError, StreamStep
  <2>6. CASE StartFails \/ Listen \/ ServeStarts \/ ServeEnds \/ Drain
    BY <2>6 DEF StartFails, Listen, ServeStarts, ServeEnds, Drain
  <2>7. CASE BeginStop \/ CloseConns \/ CloseEvents
    BY <2>7 DEF BeginStop, CloseConns, CloseEvents, StopStep
  <2>8. CASE UNCHANGED vars  BY <2>8 DEF vars
  <2> QED  BY <1>1, <2>1, <2>2, <2>3, <2>4, <2>5, <2>6, <2>7, <2>8 DEF Next
<1>2. ASSUME IInv, [Next]_vars
      PROVE  [answer' # answer => life \notin {"closed", "stopped"}]_vars
  BY <1>1, <1>2
<1> QED  BY <1>2, Inductive, PTL DEF Spec, NothingAfterClose

-----------------------------------------------------------------------------
(* The Injector contract *)

\* A step that decides, delivers, offers and collects nothing, and leaves
\* Start and Stop where they are for the contract, is a stutter of it.
LEMMA ContractStutters ==
    ASSUME ContractPhase' = ContractPhase, Observed' = Observed,
           UNCHANGED <<offered, buf, collected>>
    PROVE  UNCHANGED Contract!contractVars
BY DEF Contract!contractVars

\* As long as no cut-off is decided, every step of base-URL mode is one the
\* Injector contract allows, for targets that act on complete responses only:
\* the event of a fault is offered before the fault is complete, and no event
\* is offered once the channel is closed.
THEOREM Implements == Spec => ImplementsContract
<1>1. Init => Contract!ContractInit
  <2> SUFFICES ASSUME Init PROVE Contract!ContractInit  OBVIOUS
  <2>1. [i \in DOMAIN buf |-> buf[i].req] = <<>>  BY DEF Init
  <2>2. Observed = {} /\ {e.req : e \in collected} = {}  BY DEF Init, Observed
  <2> QED  BY <2>1, <2>2 DEF Init, Contract!ContractInit, ContractPhase
<1>2. ASSUME IInv, [Next]_vars, CutoffFree'
      PROVE  Contract!ContractNext \/ UNCHANGED Contract!contractVars
  <2> DEFINE Quiet == UNCHANGED <<offered, buf, collected>>
  <2> USE <1>2 DEF serverVars, handlerVars, streamVars, eventVars
  <2>1. TypeOK /\ Stages /\ OnRecord /\ Connections  BY DEF IInv
  <2>2. CASE StartFails
    <3>1. /\ ContractPhase = "new" /\ ContractPhase' = "failed" /\ Observed' = Observed
          /\ Quiet
      BY <2>2 DEF StartFails, ContractPhase, Observed
    <3> QED  BY <3>1 DEF Contract!ContractNext, Contract!StartFails
  <2>3. CASE Listen
    <3>1. /\ ContractPhase = "new" /\ ContractPhase' = "running" /\ Observed' = Observed
          /\ Quiet
      BY <2>3 DEF Listen, ContractPhase, Observed
    <3> QED  BY <3>1 DEF Contract!ContractNext, Contract!Start
  <2>4. CASE CloseEvents
    <3>1. /\ ContractPhase = "running" /\ ContractPhase' = "stopped" /\ Observed' = Observed
          /\ Quiet
      BY <2>4 DEF CloseEvents, StopStep, ContractPhase, Observed
    <3> QED  BY <3>1 DEF Contract!ContractNext, Contract!Stop
  <2>5. CASE Drain
    <3>1. buf \in Seq(EventType) /\ buf # <<>> /\ buf' = Tail(buf)
          /\ collected' = collected \cup {Head(buf)}
      BY <2>1, <2>5 DEF Drain, TypeOK
    <3>2. /\ Requests(buf) # <<>> /\ Requests(buf') = Tail(Requests(buf))
          /\ Head(Requests(buf)) = Head(buf).req
      BY <3>1, RequestsDrain
    <3>3. {e.req : e \in collected'} = {e.req : e \in collected} \cup {Head(Requests(buf))}
      BY <3>1, <3>2
    <3>4. ContractPhase' = ContractPhase /\ Observed' = Observed /\ offered' = offered
      BY <2>5 DEF Drain, ContractPhase, Observed
    <3> QED  BY <3>2, <3>3, <3>4 DEF Contract!ContractNext, Contract!Drain, Requests
  <2>6. ASSUME NEW r \in Req, Emit(r)
        PROVE  Contract!ContractNext
    <3>1. /\ buf \in Seq(EventType) /\ buf' = TrySend(buf, Event(r, FALSE))
          /\ offered' = offered \cup {r} /\ r \notin offered /\ collected' = collected
      BY <2>1, <2>6 DEF Emit, HandlerStep, TypeOK, OnRecord
    <3>2. Requests(buf') = TrySend(Requests(buf), r)
      <4>1. Event(r, FALSE) \in EventType /\ Event(r, FALSE).req = r  BY DEF Event, EventType
      <4> QED  BY <3>1, <4>1, RequestsTrySend
    <3>3. ContractPhase = "running" /\ ContractPhase' = ContractPhase
      BY <2>1, <2>6 DEF Emit, HandlerStep, ContractPhase, TypeOK, Connections
    <3>4. Observed' = Observed  BY <2>6 DEF Emit, Observed
    <3> QED
      BY <3>1, <3>2, <3>3, <3>4
      DEF Contract!ContractNext, Contract!Offer, Contract!TrySend, TrySend, Requests
  <2>7. ASSUME NEW r \in Req, Finish(r)
        PROVE  Contract!ContractNext \/ UNCHANGED Contract!contractVars
    <3>1. ContractPhase' = ContractPhase /\ Quiet
      BY <2>7 DEF Finish, HandlerStep, ContractPhase
    <3>2. CASE conn[r] = "open" /\ fault[r] = "synthetic"
      <4>1. r \in offered  BY <2>1, <2>7, <3>2 DEF OnRecord, Finish, HandlerStep
      <4>2. ContractPhase = "running"
        BY <2>1, <2>7, <3>2 DEF TypeOK, Connections, ContractPhase, Finish, HandlerStep
      <4>3. Observed' = Observed \cup {r}
        BY <2>1, <2>7, <3>2 DEF TypeOK, Observed, Finish
      <4> QED
        BY <3>1, <4>1, <4>2, <4>3 DEF Contract!ContractNext, Contract!Observe
    <3>3. CASE ~(conn[r] = "open" /\ fault[r] = "synthetic")
      <4>1. Observed' = Observed
        BY <2>1, <2>7, <3>3 DEF TypeOK, Observed, Finish
      <4> QED  BY <3>1, <4>1, ContractStutters
    <3> QED  BY <3>2, <3>3
  <2>8. ASSUME NEW r \in Req, Target(r)
        PROVE  UNCHANGED Contract!contractVars
    <3>1. ContractPhase' = ContractPhase /\ Quiet
      BY <2>8 DEF Target, Accept, ClientLeaves, Request, HandlerStep, ContractPhase
    <3>2. CASE Request(r)
      <4>1. PICK f : fault' = [fault EXCEPT ![r] = f]  BY <3>2 DEF Request
      <4>2. answer' = answer /\ answer[r] = "nothing"
        BY <2>1, <3>2 DEF Request, HandlerStep, Stages
      <4>3. Observed' = Observed  BY <2>1, <4>1, <4>2 DEF TypeOK, Observed
      <4> QED  BY <3>1, <4>3, ContractStutters
    <3>3. CASE Accept(r) \/ ClientLeaves(r)
      <4>1. Observed' = Observed  BY <3>3 DEF Accept, ClientLeaves, Observed
      <4> QED  BY <3>1, <4>1, ContractStutters
    <3> QED  BY <2>8, <3>2, <3>3 DEF Target
  <2>9. ASSUME NEW r \in Req, WriteSynthetic(r) \/ Put(r)
        PROVE  UNCHANGED Contract!contractVars
    <3>1. ContractPhase' = ContractPhase /\ Quiet /\ fault' = fault
      BY <2>9 DEF WriteSynthetic, Put, HandlerStep, ContractPhase
    <3>2. answer[r] # "complete"  BY <2>1, <2>9 DEF Stages, WriteSynthetic, Put, HandlerStep
    <3>3. PICK part \in {answer[r], "partial"} : answer' = [answer EXCEPT ![r] = part]
      BY <2>9 DEF WriteSynthetic, Put, MayReceive
    <3>4. Observed' = Observed  BY <2>1, <3>1, <3>2, <3>3 DEF TypeOK, Observed
    <3> QED  BY <3>1, <3>4, ContractStutters
  <2>10. ASSUME NEW r \in Req, Handler(r) \/ Upstream(r) \/ Stream(r),
                ~(WriteSynthetic(r) \/ Put(r) \/ Finish(r) \/ Emit(r) \/ ReportError(r))
         PROVE  UNCHANGED Contract!contractVars
    <3>1. fault' = fault /\ answer' = answer /\ life' = life /\ Quiet
      BY <2>10 DEF Handler, ReadEnds, EmitPanics, RoundTripCancelled, UpstreamFails,
         BodyCancelled, BodyBreaks, Abort, ReadPipe, PipeEOF, PutFails, HandlerStep,
         Upstream, UpstreamAnswers, ReadChunk, BodyEnds, ScanLine, ScanEnds,
         Stream, ScanCancelled, PipeWriteFails, StreamStep
    <3> QED  BY <3>1, ContractStutters DEF ContractPhase, Observed
  <2>11. ASSUME NEW r \in Req, ReportError(r)
         PROVE  FALSE
    BY <2>1, <2>11 DEF ReportError, StreamStep, Stages, CutoffFree
  <2>12. CASE ServeStarts \/ ServeEnds \/ BeginStop \/ CloseConns
    <3>1. fault' = fault /\ answer' = answer /\ ContractPhase' = ContractPhase /\ Quiet
      BY <2>12 DEF ServeStarts, ServeEnds, BeginStop, CloseConns, StopStep, ContractPhase
    <3> QED  BY <3>1, ContractStutters DEF Observed
  <2>13. CASE UNCHANGED vars
    BY <2>13, ContractStutters DEF vars, ContractPhase, Observed
  <2> QED
    BY <1>2, <2>2, <2>3, <2>4, <2>5, <2>6, <2>7, <2>8, <2>9, <2>10, <2>11, <2>12, <2>13
    DEF Next
<1> QED  BY <1>1, <1>2, Inductive, PTL DEF Spec, ImplementsContract

=============================================================================
