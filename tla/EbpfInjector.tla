---------------------------- MODULE EbpfInjector ----------------------------
(***************************************************************************)
(* The eBPF injector (internal/inject/ebpf): Start loads a program, opens  *)
(* the ring-buffer reader and attaches the kprobes one by one;             *)
(* SetTargetPID registers the target; the kprobe overrides system calls in *)
(* the kernel and pushes a record for each; a reader goroutine turns       *)
(* records into events; Stop takes everything down again.  Which processes *)
(* are registered besides the target is not modelled here.                 *)
(***************************************************************************)
EXTENDS Events

CONSTANTS
    Call,        \* the system calls of the target that the program hooks
    NoCall,      \* "the reader holds no record"
    ReadError,   \* the event of a failed read, which is not a fault
    Kprobes,     \* number of kprobes the program needs
    RingSize,    \* records the ring buffer fault_events holds
    PerThousand  \* the probability the scenario asks for

ASSUME EbpfInjectorAssumption ==
    /\ NoCall \notin Call /\ ReadError \notin Call
    /\ Kprobes \in Nat \ {0}
    /\ RingSize \in Nat \ {0}
    /\ PerThousand \in 0 .. 1000

VARIABLES
    main,        \* program counter of Start, SetTargetPID and Stop
    objs,        \* the BPF objects are loaded (closeObjs # nil)
    links,       \* kprobes attached
    reader,      \* the ring-buffer reader
    goroutine,   \* program counter of readEvents; readerDone is nil when "off"
    held,        \* the record it has read and not yet sent
    registered,  \* the target is in the fault_config map
    applied,     \* calls whose return value was overridden
    ring,        \* records not yet read
    offered,     \* calls whose fired event was handed to TrySend
    buf,         \* the event channel
    collected,   \* events the CLI has drained
    panicked     \* a send on the closed channel has crashed the process

kernelVars == <<registered, applied, ring>>
eventVars  == <<offered, buf, panicked>>
setupVars  == <<objs, links, reader>>
vars == <<main, setupVars, goroutine, held, kernelVars, eventVars, collected>>

Alive == ~panicked

Init ==
    /\ main = "new"
    /\ objs = FALSE /\ links = 0 /\ reader = "none"
    /\ goroutine = "off" /\ held = NoCall
    /\ registered = FALSE /\ applied = {} /\ ring = <<>>
    /\ offered = {} /\ buf = <<>> /\ panicked = FALSE
    /\ collected = {}

-----------------------------------------------------------------------------
(* Start *)

\* The program is loaded and the reader opened.
Load ==
    /\ Alive /\ main = "new"
    /\ main' = "attach" /\ objs' = TRUE /\ reader' = "open"
    /\ UNCHANGED <<links, goroutine, held, kernelVars, eventVars, collected>>

\* No program fits the scenario, the load fails, or NewReader fails, which
\* closes the objects again.
LoadFails ==
    /\ Alive /\ main = "new"
    /\ main' = "failed"
    /\ UNCHANGED <<setupVars, goroutine, held, kernelVars, eventVars, collected>>

Attach ==
    /\ Alive /\ main = "attach" /\ links < Kprobes
    /\ links' = links + 1
    /\ UNCHANGED <<main, objs, reader, goroutine, held, kernelVars, eventVars, collected>>

\* link.Kprobe's error returned without closeLinks.
AttachFailsLeaky ==
    /\ Alive /\ main = "attach" /\ links < Kprobes
    /\ main' = "failed" /\ objs' = FALSE
    /\ UNCHANGED <<links, reader, goroutine, held, kernelVars, eventVars, collected>>

\* The links so far and the objects are closed; the reader is not.
AttachFails ==
    /\ Alive /\ main = "attach" /\ links < Kprobes
    /\ main' = "failed" /\ links' = 0 /\ objs' = FALSE
    /\ UNCHANGED <<reader, goroutine, held, kernelVars, eventVars, collected>>

Started ==
    /\ Alive /\ main = "attach" /\ links = Kprobes
    /\ main' = "up" /\ goroutine' = "read"
    /\ UNCHANGED <<setupVars, held, kernelVars, eventVars, collected>>

\* The runner's OnStarted callback; an Update that fails is only a warning.
SetTargetPID ==
    /\ Alive /\ main = "up" /\ ~registered
    /\ registered' = TRUE
    /\ UNCHANGED <<main, setupVars, goroutine, held, applied, ring, eventVars, collected>>

-----------------------------------------------------------------------------
(* The kernel: maybe_inject *)

\* A call the dice selects is overridden whether or not a record could be
\* reserved.  The program runs as long as its kprobe is attached.
Inject(call) ==
    /\ Alive /\ links > 0 /\ registered /\ PerThousand > 0
    /\ call \notin applied
    /\ applied' = applied \cup {call}
    /\ ring' = IF Len(ring) < RingSize THEN Append(ring, call) ELSE ring
    /\ UNCHANGED <<main, setupVars, goroutine, held, registered, eventVars, collected>>

-----------------------------------------------------------------------------
(* readEvents *)

\* A read that leaves its record in the ring.
ReadLeaves ==
    /\ Alive /\ goroutine = "read" /\ reader = "open" /\ ring # <<>>
    /\ goroutine' = "send" /\ held' = Head(ring)
    /\ UNCHANGED <<main, setupVars, kernelVars, eventVars, collected>>

Read ==
    /\ Alive /\ goroutine = "read" /\ reader = "open" /\ ring # <<>>
    /\ goroutine' = "send" /\ held' = Head(ring)
    /\ ring' = Tail(ring)
    /\ UNCHANGED <<main, setupVars, registered, applied, eventVars, collected>>

\* A send on the channel, which panics once Stop has closed it.
Send(ev) ==
    /\ buf' = IF main = "stopped" THEN buf ELSE TrySend(buf, ev)
    /\ panicked' = (main = "stopped")

\* A reader that reuses its record without clearing it.
SendFaultReusing ==
    /\ Alive /\ goroutine = "send"
    /\ Send(held) /\ offered' = offered \cup {held}
    /\ goroutine' = "read" /\ UNCHANGED held
    /\ UNCHANGED <<main, setupVars, kernelVars, collected>>

SendFault ==
    /\ Alive /\ goroutine = "send"
    /\ Send(held) /\ offered' = offered \cup {held}
    /\ goroutine' = "read" /\ held' = NoCall
    /\ UNCHANGED <<main, setupVars, kernelVars, collected>>

\* A loop that goes on reading after ErrClosed.
ReadClosedSpins == Alive /\ goroutine = "read" /\ reader = "closed" /\ UNCHANGED vars

\* ringbuf.ErrClosed: records still in the ring are not read any more.
ReadClosed ==
    /\ Alive /\ goroutine = "read" /\ reader = "closed"
    /\ goroutine' = "done"
    /\ UNCHANGED <<main, setupVars, held, kernelVars, eventVars, collected>>

\* Any other error ends the goroutine after an event that is not a fault.
ReadFails ==
    /\ Alive /\ goroutine = "read" /\ reader = "open"
    /\ Send(ReadError) /\ goroutine' = "done"
    /\ UNCHANGED <<main, setupVars, held, kernelVars, offered, collected>>

-----------------------------------------------------------------------------
(* Stop, which the CLI calls after a Start that succeeded and the package's *)
(* tests after any Start, or none                                           *)

StopStep(from, to) ==
    /\ Alive /\ main = from /\ main' = to
    /\ UNCHANGED <<held, kernelVars, eventVars, collected, goroutine>>

BeginStop ==
    /\ \E from \in {"new", "up", "failed"} :
          StopStep(from, IF reader = "none" THEN "detach" ELSE "close")
    /\ UNCHANGED setupVars

CloseReader == StopStep("close", "join") /\ reader' = "closed" /\ UNCHANGED <<objs, links>>

\* Stop without its <-i.readerDone.
JoinNever == StopStep("join", "detach") /\ UNCHANGED setupVars

\* <-i.readerDone, on a nil channel if readEvents was never started.
Join == goroutine = "done" /\ StopStep("join", "detach") /\ UNCHANGED setupVars

Detach      == StopStep("detach", "unload") /\ links' = 0 /\ UNCHANGED <<objs, reader>>
Unload      == StopStep("unload", "unloaded") /\ objs' = FALSE /\ UNCHANGED <<links, reader>>
CloseEvents == StopStep("unloaded", "stopped") /\ UNCHANGED setupVars

Drain ==
    /\ Alive /\ buf # <<>>
    /\ collected' = collected \cup {Head(buf)}
    /\ buf' = Tail(buf)
    /\ UNCHANGED <<main, setupVars, goroutine, held, kernelVars, offered, panicked>>

-----------------------------------------------------------------------------
Reader == Read \/ SendFault \/ ReadClosed \/ ReadFails

Stopping == CloseReader \/ Join \/ Detach \/ Unload \/ CloseEvents

Next ==
    \/ Load \/ LoadFails \/ Attach \/ AttachFails \/ Started
    \/ SetTargetPID
    \/ \E call \in Call : Inject(call)
    \/ Reader
    \/ BeginStop \/ Stopping
    \/ Drain

Spec == Init /\ [][Next]_vars

\* The Go scheduler runs the main, reader and drain goroutines.
FairSpec == Spec /\ WF_vars(Reader) /\ WF_vars(Stopping) /\ WF_vars(Drain)

-----------------------------------------------------------------------------
(* Properties *)

EventType == Call \cup {ReadError}

\* Every variable ranges over the values the code can give it.
TypeOK ==
    /\ main \in {"new", "attach", "up", "failed", "close", "join", "detach",
                 "unload", "unloaded", "stopped"}
    /\ objs \in BOOLEAN /\ registered \in BOOLEAN /\ panicked \in BOOLEAN
    /\ links \in 0 .. Kprobes
    /\ reader \in {"none", "open", "closed"}
    /\ goroutine \in {"off", "read", "send", "done"}
    /\ IF goroutine = "send" THEN held \in Call ELSE held = NoCall
    /\ applied \subseteq Call
    /\ ring \in Seq(Call) /\ Len(ring) <= RingSize
    /\ offered \subseteq Call
    /\ buf \in Seq(EventType) /\ Len(buf) <= EventBuffer
    /\ collected \subseteq EventType

\* The reader goroutine is joined before the channel is closed, so no event
\* is sent on a closed channel.
NoSendAfterClose == ~panicked

\* The host is left clean: once Start has failed or Stop is done no kprobe is
\* attached and the collection is closed, a kprobe never outlives it, and once
\* Stop is done the ring is unmapped too.  After a failed attach it is not: the
\* reader stays open, until the process exits if Stop is not called.
HostLeftClean ==
    /\ main \in {"failed", "unloaded", "stopped"} => links = 0 /\ ~objs
    /\ main \in {"unloaded", "stopped"} => reader # "open"
    /\ links > 0 => objs

\* Drops on a full ring or a full channel never lose the last evidence: once a
\* fault was applied its record is in the ring, or a fired event under way.
EvidenceNotDropped ==
    applied # {} =>
        \/ ring # <<>> \/ goroutine = "send"
        \/ (\E i \in DOMAIN buf : buf[i] \in Call) \/ collected \cap Call # {}

\* Stop completes once the reader goroutine has been started.
StopCompletes == main = "close" /\ goroutine # "off" ~> main = "stopped"

\* What the comment on Stop says, and the tests of the package rely on: Stop
\* takes the injector down from any state, a failed Start included.
StopAlwaysReturns == main = "close" ~> main = "stopped"

-----------------------------------------------------------------------------
(* The contract this injector implements *)

\* An injector runs from a complete Start to the end of Stop; one that is
\* stopped without it never runs.
ContractPhase ==
    IF goroutine = "off" THEN IF main \in {"new", "attach"} THEN "new" ELSE "failed"
    ELSE IF main = "stopped" THEN "stopped" ELSE "running"

\* The kernel applies a fault before its event is offered: of the contract's
\* order between the two nothing is claimed.
Contract == INSTANCE InjectorContract WITH
    Occurrence <- Call, phase <- ContractPhase, observed <- {}

\* Every step but the event of a failed read, which is no fault, is one that
\* the Injector contract allows: a fault is offered once, while the injector
\* runs, and only Stop closes the channel.
ImplementsContract ==
    /\ Contract!ContractInit
    /\ [][ReadFails \/ Contract!ContractNext \/ UNCHANGED Contract!contractVars]_vars

=============================================================================
