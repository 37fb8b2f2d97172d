------------------------- MODULE EbpfInjectorProofs -------------------------
(***************************************************************************)
(* Theorems about the eBPF injector, for every set of system calls and     *)
(* every number of kprobes and capacity of ring and channel.               *)
(***************************************************************************)
EXTENDS EbpfInjector, EventsProofs

\* How far Start and Stop have come determines what is held: the reader
\* goroutine runs only between a complete Start and the join in Stop.
Phases ==
    /\ main \in {"new", "attach", "failed"} => goroutine = "off"
    /\ main = "new" => links = 0 /\ ~objs
    /\ main \in {"attach", "up"} => objs /\ reader = "open"
    /\ reader = "none" => goroutine = "off" /\ links = 0 /\ ~objs
    /\ main \in {"detach", "unload", "unloaded", "stopped"} => goroutine \in {"off", "done"}
    /\ main \in {"join", "detach", "unload", "unloaded", "stopped"} => reader # "open"
    /\ main \in {"failed", "unload", "unloaded", "stopped"} => links = 0
    /\ main \in {"failed", "unloaded", "stopped"} => ~objs

LEMMA SendType ==
    ASSUME buf \in Seq(EventType), Len(buf) <= EventBuffer,
           NEW ev \in EventType, Send(ev)
    PROVE  buf' \in Seq(EventType) /\ Len(buf') <= EventBuffer /\ panicked' \in BOOLEAN
<1>1. CASE main = "stopped"
  <2>1. buf' = buf  BY <1>1 DEF Send
  <2>2. panicked' = (main = "stopped")  BY DEF Send
  <2>3. panicked' \in BOOLEAN  BY <2>2
  <2> QED  BY <2>1, <2>3
<1>2. CASE main # "stopped"
  <2>1. buf' = TrySend(buf, ev)  BY <1>2 DEF Send
  <2>2. panicked' = (main = "stopped")  BY DEF Send
  <2>3. panicked' \in BOOLEAN  BY <2>2
  <2> QED  BY <2>1, <2>3, TrySendType
<1> QED  BY <1>1, <1>2

\* readEvents is not running before Start has attached every kprobe.
StartedOnce == main \in {"new", "attach", "failed"} => goroutine = "off"

LEMMA ReaderStartsLast == Spec => []StartedOnce
<1>1. Init => StartedOnce  BY DEF Init, StartedOnce
<1>2. ASSUME StartedOnce, [Next]_vars
      PROVE  StartedOnce'
  <2> USE <1>2 DEF StartedOnce
  <2>1. CASE Load \/ LoadFails \/ Attach \/ AttachFails \/ Started
    BY <2>1 DEF Load, LoadFails, Attach, AttachFails, Started
  <2>2. CASE SetTargetPID \/ Drain \/ \E call \in Call : Inject(call)
    BY <2>2 DEF SetTargetPID, Drain, Inject
  <2>3. CASE Reader
    BY <2>3 DEF Reader, Read, SendFault, ReadClosed, ReadFails
  <2>4. CASE BeginStop
    BY <2>4 DEF BeginStop, StopStep
  <2>5. CASE Stopping
    BY <2>5 DEF Stopping, CloseReader, Join, Detach, Unload, CloseEvents, StopStep
  <2>6. CASE UNCHANGED vars  BY <2>6 DEF vars
  <2> QED  BY <2>1, <2>2, <2>3, <2>4, <2>5, <2>6 DEF Next
<1> QED  BY <1>1, <1>2, PTL DEF Spec

\* Type correctness.
THEOREM TypeCorrect == Spec => []TypeOK
<1>c. /\ Kprobes \in Nat /\ RingSize \in Nat /\ EventBuffer \in Nat
      /\ NoCall \notin Call
  BY EbpfInjectorAssumption, EventBufferAssumption
     DEF EbpfInjectorAssumption, EventBufferAssumption
<1>1. Init => TypeOK
  <2> SUFFICES ASSUME Init PROVE TypeOK  OBVIOUS
  <2>1. objs \in BOOLEAN /\ registered \in BOOLEAN /\ panicked \in BOOLEAN  BY DEF Init
  <2>2. ring \in Seq(Call) /\ Len(ring) <= RingSize  BY <1>c DEF Init
  <2>3. buf \in Seq(EventType) /\ Len(buf) <= EventBuffer  BY <1>c DEF Init
  <2> QED  BY <1>c, <2>1, <2>2, <2>3 DEF Init, TypeOK
<1>2. ASSUME TypeOK, StartedOnce, [Next]_vars
      PROVE  TypeOK'
  <2> USE <1>c, <1>2 DEF TypeOK, setupVars, kernelVars, eventVars
  <2>1. CASE Load
    <3>1. objs' \in BOOLEAN  BY <2>1 DEF Load
    <3>2. /\ main' = "attach" /\ reader' = "open"
          /\ UNCHANGED <<links, goroutine, held, kernelVars, eventVars, collected>>
      BY <2>1 DEF Load
    <3> QED  BY <3>1, <3>2
  <2>2. CASE LoadFails
    BY <2>2 DEF LoadFails
  <2>s. CASE Started
    <3>1. /\ main' = "up" /\ goroutine' = "read" /\ held = NoCall
          /\ UNCHANGED <<setupVars, held, kernelVars, eventVars, collected>>
      BY <2>s DEF Started, StartedOnce
    <3> QED  BY <3>1
  <2>a. CASE Attach
    <3>1. links' \in 0 .. Kprobes  BY <2>a DEF Attach
    <3>2. main' = main /\ reader' = reader /\ goroutine' = goroutine /\ held' = held
      BY <2>a DEF Attach
    <3>3. objs' \in BOOLEAN /\ registered' \in BOOLEAN /\ panicked' \in BOOLEAN
      BY <2>a DEF Attach
    <3>4. applied' = applied /\ ring' = ring /\ offered' = offered /\ buf' = buf /\ collected' = collected
      BY <2>a DEF Attach
    <3> QED  BY <3>1, <3>2, <3>3, <3>4
  <2>b. CASE AttachFails
    <3>0. objs' = FALSE /\ links' = 0  BY <2>b DEF AttachFails
    <3>1. objs' \in BOOLEAN  BY <3>0
    <3>3. links' \in 0 .. Kprobes  BY <3>0
    <3>2. /\ main' = "failed"
          /\ UNCHANGED <<reader, goroutine, held, kernelVars, eventVars, collected>>
      BY <2>b DEF AttachFails
    <3> QED  BY <3>1, <3>2, <3>3
  <2>3. CASE SetTargetPID
    BY <2>3 DEF SetTargetPID
  <2>4. ASSUME NEW call \in Call, Inject(call)
        PROVE  TypeOK'
    <3>1. ring' \in Seq(Call) /\ Len(ring') <= RingSize
      <4>1. CASE Len(ring) < RingSize
        <5>1. ring' = Append(ring, call)  BY <2>4, <4>1 DEF Inject
        <5>2. Len(Append(ring, call)) = Len(ring) + 1 /\ Len(ring) \in Nat  OBVIOUS
        <5> QED  BY <4>1, <5>1, <5>2
      <4>2. CASE ~(Len(ring) < RingSize)  BY <2>4, <4>2 DEF Inject
      <4> QED  BY <4>1, <4>2
    <3> QED  BY <2>4, <3>1 DEF Inject
  <2>5. CASE Read
    <3>1. /\ Head(ring) \in Call /\ Tail(ring) \in Seq(Call)
          /\ Len(Tail(ring)) = Len(ring) - 1 /\ Len(ring) \in Nat
      BY <2>5, DrainType DEF Read
    <3> QED  BY <2>5, <3>1 DEF Read
  <2>6. CASE SendFault
    <3>1. held \in Call /\ held \in EventType  BY <2>6 DEF SendFault, EventType
    <3>2. Send(held)  BY <2>6 DEF SendFault
    <3>3. buf' \in Seq(EventType) /\ Len(buf') <= EventBuffer /\ panicked' \in BOOLEAN
      BY <3>1, <3>2, SendType
    <3>4. /\ goroutine' = "read" /\ held' = NoCall /\ offered' = offered \cup {held}
          /\ UNCHANGED <<main, setupVars, kernelVars, collected>>
      BY <2>6 DEF SendFault
    <3> QED  BY <3>1, <3>3, <3>4
  <2>7. CASE ReadClosed
    BY <2>7 DEF ReadClosed
  <2>8. CASE ReadFails
    <3>1. ReadError \in EventType /\ Send(ReadError)  BY <2>8 DEF ReadFails, EventType
    <3>2. buf' \in Seq(EventType) /\ Len(buf') <= EventBuffer /\ panicked' \in BOOLEAN
      BY <3>1, SendType
    <3>3. /\ goroutine = "read" /\ goroutine' = "done"
          /\ UNCHANGED <<main, setupVars, held, kernelVars, offered, collected>>
      BY <2>8 DEF ReadFails
    <3> QED  BY <3>2, <3>3
  <2>9. CASE BeginStop
    <3>1. PICK to \in {"detach", "close"} : main' = to  BY <2>9 DEF BeginStop, StopStep
    <3>2. UNCHANGED <<setupVars, held, kernelVars, eventVars, collected, goroutine>>
      BY <2>9 DEF BeginStop, StopStep
    <3> QED  BY <3>1, <3>2
  <2>10. CASE Stopping
    <3>1. /\ main' \in {"join", "detach", "unload", "unloaded", "stopped"}
          /\ reader' \in {"none", "open", "closed"}
      BY <2>10 DEF Stopping, CloseReader, Join, Detach, Unload, CloseEvents, StopStep
    <3>a. objs' = objs \/ objs' = FALSE
      BY <2>10 DEF Stopping, CloseReader, Join, Detach, Unload, CloseEvents, StopStep
    <3>b. links' = links \/ links' = 0
      BY <2>10 DEF Stopping, CloseReader, Join, Detach, Unload, CloseEvents, StopStep
    <3>2. links' \in 0 .. Kprobes  BY <3>b
    <3>c. objs' \in BOOLEAN  BY <3>a
    <3>3. UNCHANGED <<held, kernelVars, eventVars, collected, goroutine>>
      BY <2>10 DEF Stopping, CloseReader, Join, Detach, Unload, CloseEvents, StopStep
    <3> QED  BY <3>1, <3>2, <3>3, <3>c
  <2>11. CASE Drain
    <3>1. /\ Head(buf) \in EventType /\ Tail(buf) \in Seq(EventType)
          /\ Len(Tail(buf)) = Len(buf) - 1 /\ Len(buf) \in Nat
      BY <2>11, DrainType DEF Drain
    <3> QED  BY <2>11, <3>1 DEF Drain
  <2>12. CASE UNCHANGED vars  BY <2>12 DEF vars
  <2> QED  BY <2>1, <2>2, <2>s, <2>a, <2>b, <2>3, <2>4, <2>5, <2>6, <2>7, <2>8, <2>9,
              <2>10, <2>11, <2>12 DEF Next, Reader
<1> QED  BY <1>1, <1>2, ReaderStartsLast, PTL DEF Spec

\* The phases hold in every state.
LEMMA PhasesHold == Spec => []Phases
<1>1. Init => Phases
  BY DEF Init, Phases
<1>2. ASSUME TypeOK, Phases, [Next]_vars
      PROVE  Phases'
  <2> USE <1>2 DEF Phases, setupVars
  <2>1. CASE Load \/ LoadFails \/ Started
    BY <2>1 DEF Load, LoadFails, Started
  <2>2. CASE Attach \/ AttachFails
    BY <2>2 DEF Attach, AttachFails
  <2>3. CASE SetTargetPID \/ Drain \/ \E call \in Call : Inject(call)
    BY <2>3 DEF SetTargetPID, Drain, Inject
  <2>4. CASE Reader
    BY <2>4 DEF Reader, Read, SendFault, ReadClosed, ReadFails
  <2>5. CASE BeginStop
    <3>1. UNCHANGED <<setupVars, goroutine>>  BY <2>5 DEF BeginStop, StopStep
    <3>2. CASE reader = "none"
      <4>1. main' = "detach"  BY <2>5, <3>2 DEF BeginStop, StopStep
      <4> QED  BY <3>1, <3>2, <4>1
    <3>3. CASE reader # "none"
      <4>1. main' = "close"  BY <2>5, <3>3 DEF BeginStop, StopStep
      <4> QED  BY <3>1, <3>3, <4>1
    <3> QED  BY <3>2, <3>3
  <2>6. CASE Stopping
    BY <2>6 DEF TypeOK, Stopping, CloseReader, Join, Detach, Unload, CloseEvents, StopStep
  <2>7. CASE UNCHANGED vars  BY <2>7 DEF vars
  <2> QED  BY <2>1, <2>2, <2>3, <2>4, <2>5, <2>6, <2>7 DEF Next
<1> QED  BY <1>1, <1>2, TypeCorrect, PTL DEF Spec

\* Stop joins the reader goroutine before it closes the channel, so nothing
\* is ever sent on the closed channel.
THEOREM NoLateSend == Spec => []NoSendAfterClose
<1>1. Init => NoSendAfterClose
  BY DEF Init, NoSendAfterClose
<1>2. ASSUME Phases, NoSendAfterClose, [Next]_vars
      PROVE  NoSendAfterClose'
  <2> USE <1>2 DEF NoSendAfterClose, eventVars
  <2>1. CASE Reader
    <3>1. goroutine \in {"read", "send"} => main # "stopped"  BY DEF Phases
    <3> QED  BY <2>1, <3>1 DEF Reader, Read, SendFault, ReadClosed, ReadFails, Send
  <2>2. UNCHANGED panicked \/ Reader
    BY DEF Next, Load, LoadFails, Attach, AttachFails, Started, SetTargetPID, Inject,
       BeginStop, Stopping, CloseReader, Join, Detach, Unload, CloseEvents, StopStep,
       Drain, vars
  <2> QED  BY <2>1, <2>2
<1> QED  BY <1>1, <1>2, PhasesHold, PTL DEF Spec

\* A failed Start and a finished Stop leave no kprobe and no loaded collection,
\* a finished Stop no open reader, and a kprobe never outlives its objects.
THEOREM HostIsLeftClean == Spec => []HostLeftClean
<1> DEFINE Backed == links > 0 => objs
<1>1. Init => Backed
  BY DEF Init
<1>2. ASSUME TypeOK, Phases, Backed, [Next]_vars
      PROVE  Backed'
  <2> USE <1>2 DEF setupVars
  <2>1. CASE Load \/ LoadFails \/ Started
    BY <2>1 DEF Load, LoadFails, Started
  <2>2. CASE Attach \/ AttachFails
    BY <2>2, EbpfInjectorAssumption DEF Attach, AttachFails, Phases
  <2>3. CASE Unload
    BY <2>3 DEF Unload, StopStep, Phases
  <2>4. CASE Detach
    BY <2>4 DEF Detach, StopStep
  <2>5. UNCHANGED <<objs, links>> \/ Load \/ LoadFails \/ Started \/ Attach
        \/ AttachFails \/ Unload \/ Detach
    BY DEF Next, SetTargetPID, Inject, Reader, Read, SendFault, ReadClosed, ReadFails,
       BeginStop, Stopping, CloseReader, Join, CloseEvents, StopStep, Drain, vars
  <2> QED  BY <2>1, <2>2, <2>3, <2>4, <2>5
<1>3. Phases /\ Backed => HostLeftClean
  BY DEF Phases, HostLeftClean
<1> QED  BY <1>1, <1>2, <1>3, TypeCorrect, PhasesHold, PTL DEF Spec

\* Until readEvents has ended nothing but faults is in the channel, so a
\* channel too full for a fault holds one already.
OnlyFaults == goroutine # "done" => buf \in Seq(Call)

LEMMA OnlyFaultsQueued == Spec => []OnlyFaults
<1>1. Init => OnlyFaults
  BY DEF Init, OnlyFaults
<1>2. ASSUME TypeOK, Phases, OnlyFaults, [Next]_vars
      PROVE  OnlyFaults'
  <2> USE <1>2 DEF OnlyFaults, eventVars
  <2>1. CASE SendFault
    <3>1. held \in Call /\ main # "stopped" /\ buf \in Seq(Call) /\ Len(buf) <= EventBuffer
      BY <2>1 DEF SendFault, TypeOK, Phases
    <3>2. buf' = TrySend(buf, held)  BY <2>1, <3>1 DEF SendFault, Send
    <3> QED  BY <3>1, <3>2, TrySendType
  <2>2. CASE Drain
    <3>1. buf # <<>> /\ buf' = Tail(buf) /\ goroutine' = goroutine  BY <2>2 DEF Drain
    <3>2. goroutine # "done" => Tail(buf) \in Seq(Call)  BY <3>1, DrainType
    <3> QED  BY <3>1, <3>2
  <2>3. CASE ReadFails
    BY <2>3 DEF ReadFails
  <2>4. \/ SendFault \/ Drain \/ ReadFails
        \/ buf' = buf /\ (goroutine' = "done" \/ goroutine # "done")
        \/ buf' = buf /\ goroutine' = goroutine
    BY DEF Next, Load, LoadFails, Attach, AttachFails, Started, SetTargetPID, Inject,
       Reader, Read, ReadClosed, BeginStop, Stopping, CloseReader, Join, Detach, Unload,
       CloseEvents, StopStep, Phases, vars
  <2> QED  BY <2>1, <2>2, <2>3, <2>4
<1> QED  BY <1>1, <1>2, TypeCorrect, PhasesHold, PTL DEF Spec

\* However small the ring and the channel, their drops never lose the last
\* evidence that a fault was applied.
THEOREM EvidenceIsNotDropped == Spec => []EvidenceNotDropped
<1> DEFINE Queued == \E i \in DOMAIN buf : buf[i] \in Call
           Drained == collected \cap Call # {}
<1>1. Init => EvidenceNotDropped
  BY DEF Init, EvidenceNotDropped
<1>2. ASSUME TypeOK, Phases, OnlyFaults, EvidenceNotDropped, [Next]_vars
      PROVE  EvidenceNotDropped'
  <2> USE <1>2
  <2>1. ASSUME NEW call \in Call, Inject(call)
        PROVE  ring' # <<>>
    <3>1. ring \in Seq(Call) /\ RingSize \in Nat \ {0}
      BY EbpfInjectorAssumption DEF EbpfInjectorAssumption, TypeOK
    <3>2. CASE Len(ring) < RingSize
      <4>1. ring' = Append(ring, call)  BY <2>1, <3>2 DEF Inject
      <4>2. Len(Append(ring, call)) = Len(ring) + 1 /\ Len(ring) \in Nat  BY <3>1
      <4>3. Append(ring, call) # <<>>  BY <4>2, <3>1
      <4> QED  BY <4>1, <4>3
    <3>3. CASE ~(Len(ring) < RingSize)
      <4>1. ring' = ring  BY <2>1, <3>3 DEF Inject
      <4>2. ring # <<>>  BY <3>1, <3>3
      <4> QED  BY <4>1, <4>2
    <3> QED  BY <3>2, <3>3
  <2>2. CASE Read
    <3>1. goroutine' = "send"  BY <2>2 DEF Read
    <3> QED  BY <3>1 DEF EvidenceNotDropped
  <2>3. CASE SendFault
    <3>1. held \in Call /\ main # "stopped" /\ buf \in Seq(Call) /\ Len(buf) <= EventBuffer
      BY <2>3 DEF SendFault, TypeOK, Phases, OnlyFaults
    <3>2. buf' = TrySend(buf, held)  BY <2>3, <3>1 DEF SendFault, Send
    <3>3. buf' \in Seq(Call) /\ buf' # <<>>  BY <3>1, <3>2, TrySendType
    <3>4. 1 \in DOMAIN buf' /\ buf'[1] \in Call  BY <3>3
    <3> QED  BY <3>4 DEF EvidenceNotDropped
  <2>4. CASE ReadFails
    <3>1. ReadError \in EventType /\ buf \in Seq(EventType) /\ Len(buf) <= EventBuffer
      BY DEF TypeOK, EventType
    <3>2. goroutine = "read" /\ main # "stopped"  BY <2>4 DEF ReadFails, Phases
    <3>3. buf' = TrySend(buf, ReadError)  BY <2>4, <3>2 DEF ReadFails, Send
    <3>4. Queued => Queued'
      BY <3>1, <3>3 DEF TrySend
    <3>5. ring' = ring /\ applied' = applied /\ collected' = collected /\ goroutine # "send"
      BY <2>4 DEF ReadFails, kernelVars
    <3> QED  BY <3>4, <3>5 DEF EvidenceNotDropped
  <2>5. CASE Drain
    <3>1. buf \in Seq(EventType) /\ buf # <<>>  BY <2>5 DEF Drain, TypeOK
    <3>2. buf' = Tail(buf) /\ collected' = collected \cup {Head(buf)}
          /\ UNCHANGED <<ring, applied, goroutine>>
      BY <2>5 DEF Drain, kernelVars
    <3>3. ASSUME NEW i \in DOMAIN buf, buf[i] \in Call
          PROVE  Queued' \/ Drained'
      <4>1. CASE i = 1  BY <3>1, <3>2, <3>3, <4>1
      <4>2. CASE i # 1
        <5>1. i - 1 \in DOMAIN Tail(buf) /\ Tail(buf)[i - 1] = buf[i]  BY <3>1, <4>2
        <5> QED  BY <3>2, <3>3, <5>1
      <4> QED  BY <4>1, <4>2
    <3> QED  BY <3>2, <3>3 DEF EvidenceNotDropped
  <2>6. \/ Read \/ SendFault \/ ReadFails \/ Drain
        \/ (\E call \in Call : Inject(call))
        \/ UNCHANGED <<applied, ring, buf, collected>> /\ (goroutine = "send" => goroutine' = "send")
    BY DEF Next, Load, LoadFails, Attach, AttachFails, Started, SetTargetPID,
       Reader, ReadClosed, BeginStop, Stopping, CloseReader, Join, Detach, Unload,
       CloseEvents, StopStep, kernelVars, eventVars, Phases, vars
  <2> QED  BY <2>1, <2>2, <2>3, <2>4, <2>5, <2>6 DEF EvidenceNotDropped
<1> QED  BY <1>1, <1>2, TypeCorrect, PhasesHold, OnlyFaultsQueued, PTL DEF Spec

\* A fault is reported once: no record is twice in the ring, nor there while it
\* is sent or after its event was offered.
EachOnce ==
    /\ \A i \in DOMAIN ring : /\ ring[i] \in applied \ offered
                              /\ goroutine = "send" => ring[i] # held
    /\ \A i, j \in DOMAIN ring : ring[i] = ring[j] => i = j
    /\ goroutine = "send" => held \in applied \ offered
    /\ offered \subseteq applied

LEMMA OfferedOnce == Spec => []EachOnce
<1>1. Init => EachOnce
  BY DEF Init, EachOnce
<1>2. ASSUME TypeOK, EachOnce, [Next]_vars
      PROVE  EachOnce'
  <2> USE <1>2 DEF kernelVars, eventVars
  <2>t. ring \in Seq(Call)  BY DEF TypeOK
  <2>1. ASSUME NEW call \in Call, Inject(call)
        PROVE  EachOnce'
    <3>1. /\ applied' = applied \cup {call} /\ call \notin applied
          /\ UNCHANGED <<goroutine, held, offered>>
      BY <2>1 DEF Inject
    <3>2. \A i \in DOMAIN ring : ring[i] # call  BY <3>1 DEF EachOnce
    <3>3. CASE Len(ring) < RingSize
      <4>1. ring' = Append(ring, call)  BY <2>1, <3>3 DEF Inject
      <4>2. /\ Len(ring) \in Nat /\ DOMAIN ring = 1 .. Len(ring)
            /\ DOMAIN ring' = 1 .. Len(ring) + 1 /\ ring'[Len(ring) + 1] = call
            /\ \A i \in 1 .. Len(ring) : ring'[i] = ring[i]
        BY <2>t, <4>1
      <4>3. \A i \in DOMAIN ring' : i \in DOMAIN ring \/ i = Len(ring) + 1  BY <4>2
      <4>4. ASSUME NEW i \in DOMAIN ring'
            PROVE  /\ ring'[i] \in applied' \ offered'
                   /\ goroutine' = "send" => ring'[i] # held'
        BY <3>1, <4>2, <4>3 DEF EachOnce
      <4>5. ASSUME NEW i \in DOMAIN ring', NEW j \in DOMAIN ring', ring'[i] = ring'[j]
            PROVE  i = j
        BY <3>2, <4>2, <4>3, <4>5 DEF EachOnce
      <4>6. /\ goroutine' = "send" => held' \in applied' \ offered'
            /\ offered' \subseteq applied'
        BY <3>1 DEF EachOnce
      <4> QED  BY <4>4, <4>5, <4>6 DEF EachOnce
    <3>4. CASE ~(Len(ring) < RingSize)
      <4>1. ring' = ring  BY <2>1, <3>4 DEF Inject
      <4> QED  BY <3>1, <4>1 DEF EachOnce
    <3> QED  BY <3>3, <3>4
  <2>2. CASE Read
    <3>1. /\ ring # <<>> /\ ring' = Tail(ring) /\ held' = Head(ring) /\ goroutine' = "send"
          /\ UNCHANGED <<applied, offered>>
      BY <2>2 DEF Read
    <3>2. /\ Len(ring) \in Nat /\ DOMAIN ring = 1 .. Len(ring) /\ 1 \in DOMAIN ring /\ held' = ring[1]
      BY <2>t, <3>1
    <3>3. \A i \in DOMAIN ring' : i + 1 \in DOMAIN ring /\ i \in Nat /\ i >= 1 /\ ring'[i] = ring[i + 1]
      BY <2>t, <3>1
    <3>4. ASSUME NEW i \in DOMAIN ring'
          PROVE  ring'[i] \in applied' \ offered' /\ ring'[i] # held'
      <4>1. i + 1 \in DOMAIN ring /\ i + 1 # 1 /\ ring'[i] = ring[i + 1]  BY <3>3
      <4> QED  BY <3>1, <3>2, <4>1 DEF EachOnce
    <3>5. ASSUME NEW i \in DOMAIN ring', NEW j \in DOMAIN ring', ring'[i] = ring'[j]
          PROVE  i = j
      <4>1. i + 1 = j + 1  BY <3>3, <3>5 DEF EachOnce
      <4> QED  BY <3>3, <4>1
    <3>6. held' \in applied' \ offered' /\ offered' \subseteq applied'
      BY <3>1, <3>2 DEF EachOnce
    <3> QED  BY <3>4, <3>5, <3>6 DEF EachOnce
  <2>3. CASE SendFault
    <3>1. /\ goroutine = "send" /\ goroutine' = "read" /\ offered' = offered \cup {held}
          /\ UNCHANGED <<ring, applied>>
      BY <2>3 DEF SendFault
    <3> QED  BY <3>1 DEF EachOnce
  <2>4. \/ Read \/ SendFault \/ (\E call \in Call : Inject(call))
        \/ UNCHANGED <<applied, ring, held, offered>> /\ (goroutine' = "send" => goroutine = "send")
    BY DEF Next, Load, LoadFails, Attach, AttachFails, Started, SetTargetPID,
       Reader, ReadClosed, ReadFails, BeginStop, Stopping, CloseReader, Join, Detach, Unload,
       CloseEvents, StopStep, Drain, vars
  <2>5. CASE UNCHANGED <<applied, ring, held, offered>> /\ (goroutine' = "send" => goroutine = "send")
    BY <2>5 DEF EachOnce
  <2> QED  BY <2>1, <2>2, <2>3, <2>4, <2>5
<1> QED  BY <1>1, <1>2, TypeCorrect, PTL DEF Spec

\* What moves nothing that the contract looks at.
LEMMA ContractStutters ==
    ASSUME UNCHANGED <<ContractPhase, offered, buf, collected>>
    PROVE  UNCHANGED Contract!contractVars
  BY DEF Contract!contractVars

\* But for the event of a failed read every step of the eBPF injector is one
\* the Injector contract allows: a fault is offered at most once and only while
\* the injector runs, the channel drops only when full, and Stop alone ends it.
THEOREM Implements == Spec => ImplementsContract
<1>1. Init => Contract!ContractInit
  BY DEF Init, Contract!ContractInit, ContractPhase
<1>2. ASSUME TypeOK, Phases, EachOnce, [Next]_vars
      PROVE  ReadFails \/ Contract!ContractNext \/ UNCHANGED Contract!contractVars
  <2> USE <1>2 DEF eventVars
  <2>1. CASE Load \/ Attach \/ SetTargetPID \/ (\E call \in Call : Inject(call)) \/ Read \/ ReadClosed
    <3>1. UNCHANGED <<offered, buf, collected>>
      BY <2>1 DEF Load, Attach, SetTargetPID, Inject, Read, ReadClosed
    <3>2. ContractPhase' = ContractPhase
      BY <2>1 DEF Load, Attach, SetTargetPID, Inject, Read, ReadClosed, ContractPhase, Phases
    <3> QED  BY <3>1, <3>2, ContractStutters
  <2>2. CASE LoadFails \/ AttachFails
    <3>1. /\ ContractPhase = "new" /\ ContractPhase' = "failed"
          /\ UNCHANGED <<offered, buf, collected>>
      BY <2>2 DEF LoadFails, AttachFails, ContractPhase, Phases
    <3> QED  BY <3>1 DEF Contract!ContractNext, Contract!StartFails
  <2>3. CASE Started
    <3>1. /\ ContractPhase = "new" /\ ContractPhase' = "running"
          /\ UNCHANGED <<offered, buf, collected>>
      BY <2>3 DEF Started, ContractPhase, Phases
    <3> QED  BY <3>1 DEF Contract!ContractNext, Contract!Start
  <2>4. CASE SendFault
    <3>1. /\ goroutine = "send" /\ goroutine' = "read" /\ main # "stopped" /\ main' = main
          /\ held \in Call /\ held \notin offered
          /\ offered' = offered \cup {held} /\ collected' = collected
      BY <2>4 DEF SendFault, TypeOK, Phases, EachOnce
    <3>2. buf' = TrySend(buf, held)  BY <2>4, <3>1 DEF SendFault, Send
    <3>3. ContractPhase = "running" /\ ContractPhase' = "running"  BY <3>1 DEF ContractPhase
    <3>4. Contract!Offer(held)
      BY <3>1, <3>2, <3>3 DEF Contract!Offer, Contract!TrySend, TrySend
    <3> QED  BY <3>1, <3>4 DEF Contract!ContractNext
  <2>5. CASE BeginStop
    <3>1. PICK from \in {"new", "up", "failed"} :
             StopStep(from, IF reader = "none" THEN "detach" ELSE "close")
      BY <2>5 DEF BeginStop
    <3>2. /\ main = from /\ main' \in {"detach", "close"} /\ goroutine' = goroutine
          /\ UNCHANGED <<offered, buf, collected>>
      BY <3>1 DEF StopStep
    <3>3. CASE from = "new"
      <4>1. ContractPhase = "new" /\ ContractPhase' = "failed"
        BY <3>2, <3>3 DEF ContractPhase, Phases
      <4> QED  BY <3>2, <4>1 DEF Contract!ContractNext, Contract!StartFails
    <3>4. CASE from # "new"
      <4>1. ContractPhase' = ContractPhase  BY <3>2, <3>4 DEF ContractPhase
      <4> QED  BY <3>2, <4>1, ContractStutters
    <3> QED  BY <3>3, <3>4
  <2>6. CASE CloseReader \/ Join \/ Detach \/ Unload
    <3>1. /\ main \in {"close", "join", "detach", "unload"}
          /\ main' \in {"join", "detach", "unload", "unloaded"} /\ goroutine' = goroutine
          /\ UNCHANGED <<offered, buf, collected>>
      BY <2>6 DEF CloseReader, Join, Detach, Unload, StopStep
    <3>2. ContractPhase' = ContractPhase  BY <3>1 DEF ContractPhase
    <3> QED  BY <3>1, <3>2, ContractStutters
  <2>7. CASE CloseEvents
    <3>1. /\ main = "unloaded" /\ main' = "stopped" /\ goroutine' = goroutine
          /\ UNCHANGED <<offered, buf, collected>>
      BY <2>7 DEF CloseEvents, StopStep
    <3>2. CASE goroutine = "off"
      <4>1. ContractPhase' = ContractPhase  BY <3>1, <3>2 DEF ContractPhase
      <4> QED  BY <3>1, <4>1, ContractStutters
    <3>3. CASE goroutine # "off"
      <4>1. ContractPhase = "running" /\ ContractPhase' = "stopped"
        BY <3>1, <3>3 DEF ContractPhase
      <4> QED  BY <3>1, <4>1 DEF Contract!ContractNext, Contract!Stop
    <3> QED  BY <3>2, <3>3
  <2>8. CASE Drain
    <3>1. ContractPhase' = ContractPhase  BY <2>8 DEF Drain, ContractPhase
    <3>2. Contract!Drain  BY <2>8, <3>1 DEF Drain, Contract!Drain
    <3> QED  BY <3>2 DEF Contract!ContractNext
  <2>9. CASE UNCHANGED vars
    <3>1. UNCHANGED <<ContractPhase, offered, buf, collected>>  BY <2>9 DEF vars, ContractPhase
    <3> QED  BY <3>1, ContractStutters
  <2> QED
    BY <2>1, <2>2, <2>3, <2>4, <2>5, <2>6, <2>7, <2>8, <2>9 DEF Next, Reader, Stopping
<1> QED  BY <1>1, <1>2, TypeCorrect, PhasesHold, OfferedOnce, PTL DEF Spec, ImplementsContract

=============================================================================
