------------------------- MODULE FaultkitRunProofs -------------------------
(***************************************************************************)
(* Theorems about a run of faultkit: the evidence chain from the faults    *)
(* that fire to the exit code, for every set of occurrences and every      *)
(* capacity of the event channel.                                          *)
(***************************************************************************)
EXTENDS FaultkitRun, EventsProofs, FiniteSetTheorems

\* The evidence chain and the type of the injector survive every step of it.
LEMMA ContractStep ==
    ASSUME ContractTypeOK, Evidence, Len(buf) <= EventBuffer, IsFiniteSet(collected),
           [ContractNext]_contractVars
    PROVE  /\ ContractTypeOK' /\ Evidence'
           /\ Len(buf') <= EventBuffer /\ IsFiniteSet(collected')
<1> USE DEF ContractTypeOK, Evidence
<1>1. CASE Start \/ StartFails \/ Stop \/ UNCHANGED contractVars
  BY <1>1 DEF Start, StartFails, Stop, contractVars
<1>2. CASE Drain
  <2>1. /\ Head(buf) \in Occurrence /\ Tail(buf) \in Seq(Occurrence)
        /\ Len(Tail(buf)) = Len(buf) - 1 /\ Len(buf) \in Nat
    BY <1>2, DrainType DEF Drain
  <2>2. Head(buf) \in offered  BY <1>2 DEF Drain
  <2>3. \A i \in DOMAIN Tail(buf) : Tail(buf)[i] \in offered  BY <1>2, <2>1 DEF Drain
  <2>4. IsFiniteSet(collected \cup {Head(buf)})  BY FS_AddElement
  <2>5. UNCHANGED <<phase, offered, observed>> /\ collected' = collected \cup {Head(buf)}
        /\ buf' = Tail(buf)
    BY <1>2 DEF Drain
  <2>6. ContractTypeOK' /\ Len(buf') <= EventBuffer /\ IsFiniteSet(collected')
    BY <2>1, <2>4, <2>5, EventBufferAssumption DEF EventBufferAssumption
  <2>7. (\A i \in DOMAIN buf : buf[i] \in offered)'  BY <2>3, <2>5
  <2>8. collected' # {} /\ collected' \subseteq offered' /\ observed' \subseteq offered'
    BY <2>2, <2>5
  <2> QED  BY <2>6, <2>7, <2>8
<1>3. ASSUME NEW o \in Occurrence, Offer(o)
      PROVE  /\ ContractTypeOK' /\ Evidence'
             /\ Len(buf') <= EventBuffer /\ IsFiniteSet(collected')
  <2>1. /\ TrySend(buf, o) \in Seq(Occurrence)
        /\ Len(TrySend(buf, o)) <= EventBuffer
        /\ TrySend(buf, o) # <<>>
    BY TrySendType
  <2>2. \A i \in DOMAIN TrySend(buf, o) : TrySend(buf, o)[i] \in offered \cup {o}
    BY TrySendElements
  <2>3. /\ offered' = offered \cup {o} /\ buf' = TrySend(buf, o)
        /\ UNCHANGED <<phase, observed, collected>>
    BY <1>3 DEF Offer
  <2> QED  BY <2>1, <2>2, <2>3
<1>4. ASSUME NEW o \in Occurrence, Observe(o)
      PROVE  /\ ContractTypeOK' /\ Evidence'
             /\ Len(buf') <= EventBuffer /\ IsFiniteSet(collected')
  BY <1>4 DEF Observe
<1> QED  BY <1>1, <1>2, <1>3, <1>4 DEF ContractNext

\* The injector's part of the invariant of a run.
Injecting ==
    ContractTypeOK /\ Evidence /\ Len(buf) <= EventBuffer /\ IsFiniteSet(collected)

\* Every action of the run is a step of the contract or leaves it alone.
LEMMA RunKeepsContract == [Next]_vars => [ContractNext]_contractVars
<1> SUFFICES ASSUME [Next]_vars PROVE [ContractNext]_contractVars
  OBVIOUS
<1>1. CASE Main
  BY <1>1 DEF Main, ContractNext, Prepare, PrepareFails, StartInjector, StartInjectorFails,
     Spawn, SpawnFails, WaitReturns, StopInjector, Finish
<1>2. CASE Signal \/ CancelTarget \/ TargetExits \/ KillTarget \/ Request \/ DrainEvent
  BY <1>2 DEF ContractNext, Signal, CancelTarget, TargetExits, KillTarget, Request, DrainEvent
<1>3. ASSUME NEW o \in Occurrence, FaultFires(o) \/ FaultSeen(o)
      PROVE  ContractNext
  BY <1>3 DEF ContractNext, FaultFires, FaultSeen
<1>4. CASE UNCHANGED vars
  BY <1>4 DEF vars
<1> QED  BY <1>1, <1>2, <1>3, <1>4 DEF Next

\* A run keeps the contract of its injector.
LEMMA RunInjecting == Spec => []Injecting
<1>1. Init => Injecting
  <2>1. IsFiniteSet({})  BY FS_EmptySet
  <2>2. <<>> \in Seq(Occurrence) /\ Len(<<>>) <= EventBuffer /\ DOMAIN <<>> = {}
    BY EventBufferAssumption DEF EventBufferAssumption
  <2> QED  BY <2>1, <2>2 DEF Init, ContractInit, Injecting, ContractTypeOK, Evidence
<1>2. Injecting /\ [Next]_vars => Injecting'
  BY RunKeepsContract, ContractStep DEF Injecting
<1> QED  BY <1>1, <1>2, PTL DEF Spec

\* Every fault the target has seen was recorded, and evidence of it is kept.
THEOREM EvidenceHolds == Spec => []Evidence
<1>1. Injecting => Evidence
  BY DEF Injecting
<1> QED  BY <1>1, RunInjecting, PTL

-----------------------------------------------------------------------------
\* What the main goroutine's program counter says of the injector, the target
\* and the result it holds.
RunState ==
    /\ main \in {"prepare", "start"} => phase = "new" /\ target = "none"
    /\ main = "spawn" => phase = "running" /\ target = "none"
    /\ main = "wait" => phase = "running" /\ target \in {"running", "exited"}
    /\ main = "stop" => phase = "running" /\ target \in {"none", "reaped"}
    /\ main = "drain" => phase = "stopped" /\ target \in {"none", "reaped"}
    /\ main = "exited" =>
          /\ phase \in {"new", "failed", "stopped"} /\ target \in {"none", "reaped"}
          /\ buf = <<>>
    /\ target \in {"none", "running", "exited", "reaped"}
    /\ main \in {"prepare", "start", "spawn", "wait", "stop", "drain", "exited"}

\* Until the injector runs there is no event.
Quiet == phase \in {"new", "failed"} => buf = <<>> /\ offered = {} /\ observed = {}

\* The exit code and the verdict are those of the drained events.
Judged ==
    /\ exit # NoExit <=> main = "exited"
    /\ main \in {"stop", "drain"} /\ target = "reaped" =>
          targetExit = status /\ runErr = (status = 0 /\ interrupted)
    /\ main \in {"stop", "drain"} /\ target = "none" => runErr
    /\ exit = ExitOK =>
          /\ collected # {} /\ status = 0 /\ target = "reaped" /\ ~interrupted
          /\ verdict = "invariant_proven_under_fault"
    /\ exit = ExitFaultNotFired => collected = {}

\* The main goroutine keeps the injector around the target.
LEMMA RunControl == Spec => [](RunState /\ Quiet)
<1> DEFINE Inv == RunState /\ Quiet
<1>1. Init => Inv
  BY DEF Init, ContractInit, RunState, Quiet
<1>2. ASSUME Inv, [Next]_vars
      PROVE  Inv'
  <2> USE <1>2 DEF RunState, Quiet, contractVars
  <2>1. CASE Prepare \/ PrepareFails
    BY <2>1 DEF Prepare, PrepareFails
  <2>2. CASE StartInjector \/ StartInjectorFails
    BY <2>2 DEF StartInjector, StartInjectorFails, Start, StartFails
  <2>3. CASE Spawn \/ SpawnFails \/ WaitReturns
    BY <2>3 DEF Spawn, SpawnFails, WaitReturns
  <2>4. CASE StopInjector
    BY <2>4 DEF StopInjector, Stop
  <2>5. CASE Finish
    BY <2>5 DEF Finish, Judge
  <2>6. CASE Signal \/ CancelTarget \/ TargetExits \/ KillTarget \/ Request
    BY <2>6 DEF Signal, CancelTarget, TargetExits, KillTarget, Request
  <2>7. CASE DrainEvent
    BY <2>7 DEF DrainEvent, Drain, runVars
  <2>8. ASSUME NEW o \in Occurrence, FaultFires(o) \/ FaultSeen(o)
        PROVE  Inv'
    BY <2>8 DEF FaultFires, FaultSeen, Offer, Observe, runVars
  <2>9. CASE UNCHANGED vars
    BY <2>9 DEF vars, runVars
  <2> QED  BY <2>1, <2>2, <2>3, <2>4, <2>5, <2>6, <2>7, <2>8, <2>9 DEF Next, Main
<1> QED  BY <1>1, <1>2, PTL DEF Spec

\* The target runs only inside a running injector, and faultkit never exits
\* with an injector running or events unread.
THEOREM ShutdownIsOrderly == Spec => []OrderlyShutdown
<1>1. RunState => OrderlyShutdown
  BY DEF RunState, OrderlyShutdown
<1> QED  BY <1>1, RunControl, PTL

-----------------------------------------------------------------------------
\* What the exit codes mean, as the outcome of the run reaches them.
LEMMA ExitMeaning ==
    ASSUME NEW err \in BOOLEAN, NEW code \in Int, NEW n \in Nat
    PROVE  /\ ExitCode(Outcome(err, code, n)) # NoExit
           /\ ExitCode(Outcome(err, code, n)) = ExitOK => ~err /\ code = 0 /\ n # 0
           /\ ExitCode(Outcome(err, code, n)) = ExitFaultNotFired => n = 0
           /\ code = 0 /\ n # 0 => VerdictFor(n, code) = "invariant_proven_under_fault"
BY DEF ExitCode, Outcome, VerdictFor, NoExit, ExitOK, ExitTargetFailed,
   ExitInternalError, ExitFaultNotFired, ExitUsage

\* Types of the variables the judgement reads.
ResultType ==
    /\ status \in Int /\ targetExit \in Int
    /\ runErr \in BOOLEAN /\ interrupted \in BOOLEAN

LEMMA JudgedStep ==
    ASSUME RunState, IsFiniteSet(collected), ResultType, Judged, [Next]_vars
    PROVE  ResultType' /\ Judged'
<1> USE DEF RunState, ResultType, Judged, NoExit, ExitOK, ExitFaultNotFired
<1>1. CASE Prepare \/ StartInjector \/ Spawn \/ SpawnFails
  BY <1>1 DEF Prepare, StartInjector, Start, Spawn, SpawnFails, contractVars
<1>2. CASE PrepareFails \/ StartInjectorFails
  BY <1>2 DEF PrepareFails, StartInjectorFails, StartFails, contractVars,
     ExitCode, ExitTargetFailed, ExitInternalError, ExitUsage
<1>3. CASE WaitReturns
  BY <1>3 DEF WaitReturns, contractVars
<1>4. CASE StopInjector
  BY <1>4 DEF StopInjector, Stop
<1>5. CASE Finish
  <2> DEFINE n == Cardinality(collected)
  <2>1. n \in Nat /\ (n = 0 <=> collected = {})  BY FS_CardinalityType, FS_EmptySet
  <2>2. exit' = ExitCode(Outcome(runErr, targetExit, n)) /\ verdict' = VerdictFor(n, targetExit)
    BY <1>5 DEF Finish, Judge
  <2>3. /\ main' = "exited" /\ main = "drain"
        /\ UNCHANGED <<contractVars, target, status, interrupted, runErr, targetExit>>
    BY <1>5 DEF Finish, Judge
  <2>4. collected' = collected  BY <2>3 DEF contractVars
  <2>5. runErr \in BOOLEAN /\ targetExit \in Int  OBVIOUS
  <2> HIDE DEF n
  <2>6. /\ exit' # NoExit
        /\ exit' = ExitOK => ~runErr /\ targetExit = 0 /\ n # 0
                             /\ verdict' = "invariant_proven_under_fault"
        /\ exit' = ExitFaultNotFired => n = 0
    BY <2>1, <2>2, <2>5, ExitMeaning
  <2>7. target = "reaped" /\ ~runErr /\ targetExit = 0 => status = 0 /\ ~interrupted
    BY <2>3
  <2>8. ~runErr => target = "reaped"  BY <2>3
  <2>9. ResultType'  BY <2>3
  <2>10. (exit # NoExit <=> main = "exited")'  BY <2>3, <2>6
  <2>11. (exit = ExitOK =>
            /\ collected # {} /\ status = 0 /\ target = "reaped" /\ ~interrupted
            /\ verdict = "invariant_proven_under_fault")'
    BY <2>1, <2>3, <2>4, <2>6, <2>7, <2>8
  <2>12. (exit = ExitFaultNotFired => collected = {})'  BY <2>1, <2>4, <2>6
  <2>13. /\ (main \in {"stop", "drain"} /\ target = "reaped" =>
                targetExit = status /\ runErr = (status = 0 /\ interrupted))'
         /\ (main \in {"stop", "drain"} /\ target = "none" => runErr)'
    BY <2>3
  <2>14. Judged'  BY ONLY <2>10, <2>11, <2>12, <2>13, Zenon
  <2> QED  BY ONLY <2>9, <2>14
<1>6. CASE Signal
  BY <1>6 DEF Signal, contractVars
<1>12. CASE CancelTarget
  <2>1. /\ main = "wait" /\ main' = "wait" /\ interrupted' = TRUE
        /\ UNCHANGED <<contractVars, target, status, runErr, targetExit, verdict, exit>>
    BY <1>12 DEF CancelTarget
  <2>2. exit # NoExit <=> main = "exited"  OBVIOUS
  <2>3. exit = NoExit  BY <2>1, <2>2
  <2>4. status' \in Int /\ targetExit' \in Int /\ runErr' \in BOOLEAN  BY <2>1
  <2>5. interrupted' \in BOOLEAN  BY <2>1, Zenon
  <2>6. Judged'  BY ONLY <2>1, <2>3 DEF Judged, NoExit, ExitOK, ExitFaultNotFired
  <2> QED  BY <2>4, <2>5, <2>6
<1>10. CASE TargetExits \/ KillTarget
  BY <1>10 DEF TargetExits, KillTarget, contractVars
<1>11. CASE Request
  BY <1>11 DEF Request, contractVars
<1>7. CASE DrainEvent
  BY <1>7 DEF DrainEvent, Drain, runVars
<1>8. ASSUME NEW o \in Occurrence, FaultFires(o) \/ FaultSeen(o)
      PROVE  ResultType' /\ Judged'
  BY <1>8 DEF FaultFires, FaultSeen, Offer, Observe, runVars
<1>9. CASE UNCHANGED vars
  BY <1>9 DEF vars, runVars, contractVars
<1> QED
  BY <1>1, <1>2, <1>3, <1>4, <1>5, <1>6, <1>7, <1>8, <1>9, <1>10, <1>11, <1>12
  DEF Next, Main

\* What the run judges is right in every state.
LEMMA RunJudged == Spec => [](ResultType /\ Judged)
<1>1. Init => ResultType /\ Judged
  <2> SUFFICES ASSUME Init PROVE ResultType /\ Judged  OBVIOUS
  <2>1. /\ main = "prepare" /\ exit = -1 /\ target = "none" /\ interrupted = FALSE
        /\ status = 0 /\ targetExit = 0 /\ runErr = FALSE
    BY DEF Init, NoExit
  <2>2. status \in Int /\ targetExit \in Int  BY <2>1
  <2>3. runErr \in BOOLEAN /\ interrupted \in BOOLEAN  BY <2>1, Zenon
  <2>4. Judged  BY ONLY <2>1 DEF Judged, NoExit, ExitOK, ExitFaultNotFired
  <2> QED  BY <2>2, <2>3, <2>4 DEF ResultType
<1>2. RunState /\ Injecting /\ ResultType /\ Judged /\ [Next]_vars => (ResultType /\ Judged)'
  BY JudgedStep DEF Injecting
<1> QED  BY <1>1, <1>2, RunInjecting, RunControl, PTL DEF Spec

\* Exit code 0 is earned by a recorded fault and a target that exited with 0
\* and was not interrupted.
THEOREM GreenIsEarnedAlways == Spec => []GreenIsEarned
<1>1. Judged => GreenIsEarned
  BY DEF Judged, GreenIsEarned
<1> QED  BY <1>1, RunJudged, PTL

\* Exit code 3 is true: whatever the schedule and the losses of a full
\* channel, no fault fired and the target saw none.
THEOREM NotFiredIsTrueAlways == Spec => []NotFiredIsTrue
<1>1. RunState /\ Injecting /\ Judged => NotFiredIsTrue
  BY DEF RunState, Injecting, Evidence, Judged, NotFiredIsTrue, NoExit, ExitFaultNotFired
<1> QED  BY <1>1, RunInjecting, RunControl, RunJudged, PTL

-----------------------------------------------------------------------------
\* The types of what a run of faultkit adds to its injector.
Truths == {ctxDone, interrupted, runErr, requests, warned} \subseteq BOOLEAN

Codes ==
    /\ {status, targetExit} \subseteq {-1, 0, 1}
    /\ verdict \in Verdicts \cup {"none"}
    /\ exit \in -1 .. 4

LEMMA TruthsStep == Truths /\ [Next]_vars => Truths'
<1> SUFFICES ASSUME Truths, [Next]_vars PROVE Truths'
  OBVIOUS
<1> USE DEF Truths
<1>1. CASE Prepare \/ PrepareFails \/ StartInjector \/ StartInjectorFails \/ Spawn
           \/ StopInjector \/ TargetExits \/ KillTarget
  <2>1. UNCHANGED <<ctxDone, interrupted, runErr, requests, warned>>
    BY <1>1 DEF Prepare, PrepareFails, StartInjector, StartInjectorFails, Spawn,
       StopInjector, TargetExits, KillTarget
  <2> QED  BY <2>1, Zenon
<1>2. CASE SpawnFails \/ WaitReturns
  <2>1. UNCHANGED <<ctxDone, interrupted, requests, warned>> /\ runErr' \in BOOLEAN
    BY <1>2, Zenon DEF SpawnFails, WaitReturns
  <2> QED  BY <2>1, Zenon
<1>3. CASE Finish
  <2>1. UNCHANGED <<ctxDone, interrupted, runErr, requests>> /\ warned' \in BOOLEAN
    BY <1>3, Zenon DEF Finish, Judge
  <2> QED  BY <2>1, Zenon
<1>4. CASE Signal
  <2>1. UNCHANGED <<interrupted, runErr, requests, warned>> /\ ctxDone' = TRUE
    BY <1>4, Zenon DEF Signal
  <2> QED  BY <2>1, Zenon
<1>5. CASE CancelTarget
  <2>1. UNCHANGED <<ctxDone, runErr, requests, warned>> /\ interrupted' = TRUE
    BY <1>5, Zenon DEF CancelTarget
  <2> QED  BY <2>1, Zenon
<1>6. CASE Request
  <2>1. UNCHANGED <<ctxDone, interrupted, runErr, warned>> /\ requests' = TRUE
    BY <1>6, Zenon DEF Request
  <2> QED  BY <2>1, Zenon
<1>7. CASE DrainEvent \/ (\E o \in Occurrence : FaultFires(o) \/ FaultSeen(o)) \/ UNCHANGED vars
  <2>1. UNCHANGED <<ctxDone, interrupted, runErr, requests, warned>>
    BY <1>7 DEF DrainEvent, FaultFires, FaultSeen, runVars, vars
  <2> QED  BY <2>1, Zenon
<1> QED  BY <1>1, <1>2, <1>3, <1>4, <1>5, <1>6, <1>7 DEF Next, Main

LEMMA CodesStep == Codes /\ [Next]_vars => Codes'
<1> SUFFICES ASSUME Codes, [Next]_vars PROVE Codes'
  OBVIOUS
<1> USE DEF Codes
<1>0. \A outcome : ExitCode(outcome) \in -1 .. 4
  BY DEF ExitCode, ExitOK, ExitTargetFailed, ExitInternalError, ExitFaultNotFired, ExitUsage
<1>1. CASE PrepareFails \/ StartInjectorFails
  <2>1. UNCHANGED <<status, targetExit, verdict>> /\ \E outcome : exit' = ExitCode(outcome)
    BY <1>1 DEF PrepareFails, StartInjectorFails
  <2> QED  BY <1>0, <2>1
<1>2. CASE Finish
  <2>1. /\ UNCHANGED <<status, targetExit>>
        /\ \E outcome : exit' = ExitCode(outcome)
        /\ verdict' \in Verdicts
    BY <1>2 DEF Finish, Judge, VerdictFor, Verdicts
  <2> QED  BY <1>0, <2>1
<1>3. CASE WaitReturns
  BY <1>3 DEF WaitReturns
<1>4. CASE TargetExits \/ KillTarget
  BY <1>4 DEF TargetExits, KillTarget
<1>5. CASE Prepare \/ StartInjector \/ Spawn \/ SpawnFails \/ StopInjector \/ Signal
           \/ CancelTarget \/ Request \/ DrainEvent
           \/ (\E o \in Occurrence : FaultFires(o) \/ FaultSeen(o)) \/ UNCHANGED vars
  <2>1. UNCHANGED <<status, targetExit, verdict, exit>>
    BY <1>5 DEF Prepare, StartInjector, Spawn, SpawnFails, StopInjector, Signal,
       CancelTarget, Request, DrainEvent, FaultFires, FaultSeen, runVars, vars
  <2> QED  BY <2>1
<1> QED  BY <1>1, <1>2, <1>3, <1>4, <1>5 DEF Next, Main

\* Every variable of a run keeps its type, whatever the injector does.
THEOREM TypeCorrect == Spec => []TypeOK
<1>1. Init => Truths /\ Codes
  <2> SUFFICES ASSUME Init PROVE Truths /\ Codes  OBVIOUS
  <2>1. Truths  BY Zenon DEF Init, Truths
  <2>2. Codes  BY DEF Init, Codes, NoExit
  <2> QED  BY <2>1, <2>2
<1>2. RunState /\ Injecting /\ Truths /\ Codes => TypeOK
  <2> SUFFICES ASSUME RunState, Injecting, Truths, Codes PROVE TypeOK  OBVIOUS
  <2>1. ContractTypeOK /\ Len(buf) <= EventBuffer  BY Zenon DEF Injecting
  <2>2. /\ main \in {"prepare", "start", "spawn", "wait", "stop", "drain", "exited"}
        /\ target \in {"none", "running", "exited", "reaped"}
    BY Zenon DEF RunState
  <2> QED  BY <2>1, <2>2, Zenon DEF TypeOK, Truths, Codes
<1> QED
  BY <1>1, <1>2, TruthsStep, CodesStep, RunInjecting, RunControl, PTL DEF Spec

=============================================================================
