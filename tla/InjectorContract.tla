-------------------------- MODULE InjectorContract --------------------------
(***************************************************************************)
(* What internal/inject promises of every Injector: a lifecycle of Start   *)
(* and Stop, an event for each fault handed over before the target can see *)
(* the fault, and a channel that is drained, drops events only when full,  *)
(* and is closed by Stop and by nothing else.                              *)
(***************************************************************************)
EXTENDS Events

CONSTANT Occurrence   \* the fault occurrences of a run

VARIABLES
    phase,      \* the lifecycle of the injector
    offered,    \* occurrences whose event was handed to TrySend
    observed,   \* occurrences the target has seen the fault of
    buf,        \* the event channel; it is closed when phase = "stopped"
    collected   \* events the consumer has drained

contractVars == <<phase, offered, observed, buf, collected>>

ContractInit ==
    /\ phase = "new"
    /\ offered = {} /\ observed = {} /\ collected = {}
    /\ buf = <<>>

Start ==
    /\ phase = "new" /\ phase' = "running"
    /\ UNCHANGED <<offered, observed, buf, collected>>

StartFails ==
    /\ phase = "new" /\ phase' = "failed"
    /\ UNCHANGED <<offered, observed, buf, collected>>

\* A fault fires: its event is offered to the channel, once.
Offer(o) ==
    /\ phase = "running" /\ o \notin offered
    /\ offered' = offered \cup {o}
    /\ buf' = TrySend(buf, o)
    /\ UNCHANGED <<phase, observed, collected>>

\* The effect of the fault reaches the target, its event being on record.
Observe(o) ==
    /\ phase = "running" /\ o \in offered
    /\ observed' = observed \cup {o}
    /\ UNCHANGED <<phase, offered, buf, collected>>

Drain ==
    /\ buf # <<>>
    /\ collected' = collected \cup {Head(buf)}
    /\ buf' = Tail(buf)
    /\ UNCHANGED <<phase, offered, observed>>

Stop ==
    /\ phase = "running" /\ phase' = "stopped"
    /\ UNCHANGED <<offered, observed, buf, collected>>

ContractNext ==
    \/ Start \/ StartFails \/ Stop \/ Drain
    \/ \E o \in Occurrence : Offer(o) \/ Observe(o)

Contract == ContractInit /\ [][ContractNext]_contractVars

ContractTypeOK ==
    /\ phase \in {"new", "running", "stopped", "failed"}
    /\ offered \subseteq Occurrence
    /\ observed \subseteq Occurrence
    /\ buf \in Seq(Occurrence)
    /\ collected \subseteq Occurrence

\* The evidence chain the verdict rests on: what the target has observed was
\* recorded, what is in the channel or drained was recorded, and once anything
\* was recorded the channel and the drained events are not both empty.
Evidence ==
    /\ observed \subseteq offered
    /\ collected \subseteq offered
    /\ \A i \in DOMAIN buf : buf[i] \in offered
    /\ offered # {} => buf # <<>> \/ collected # {}

=============================================================================
