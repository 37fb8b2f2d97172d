---------------------------- MODULE FaultkitRun ----------------------------
(***************************************************************************)
(* One `faultkit run` from its arguments to its exit code: runFaultkit,    *)
(* the runner around exec.Cmd with its cancellation, and the drain         *)
(* goroutine, composed with an injector that keeps the Injector contract.  *)
(***************************************************************************)
EXTENDS InjectorContract, Verdict, FiniteSets

VARIABLES
    main,         \* program counter of runFaultkit
    ctxDone,      \* SIGINT or SIGTERM has cancelled the context
    target,       \* the target process; "exited" until Wait reaps it
    status,       \* the exit code of the target, -1 when a signal ended it
    interrupted,  \* cmd.Cancel has sent the target a SIGINT
    runErr,       \* runner.Run returned an error
    targetExit,   \* targetExit of the summary
    requests,     \* RequestsSeen is not zero
    verdict,      \* verdict of the report
    warned,       \* warnNoTrafficReached was called
    exit          \* exit code of faultkit

runVars == <<main, ctxDone, target, status, interrupted, runErr, targetExit,
             requests, verdict, warned, exit>>
vars == <<contractVars, runVars>>

NoExit == -1

Init ==
    /\ ContractInit
    /\ main = "prepare" /\ ctxDone = FALSE
    /\ target = "none" /\ status = 0 /\ interrupted = FALSE
    /\ runErr = FALSE /\ targetExit = 0
    /\ requests = FALSE
    /\ verdict = "none" /\ warned = FALSE /\ exit = NoExit

-----------------------------------------------------------------------------
(* runFaultkit *)

\* loadScenario, the target check and pickInjector, whose errors return.
Prepare ==
    /\ main = "prepare" /\ main' = "start"
    /\ UNCHANGED <<contractVars, ctxDone, target, status, interrupted, runErr,
                   targetExit, requests, verdict, warned, exit>>

PrepareFails ==
    /\ main = "prepare" /\ main' = "exited"
    /\ \E outcome \in {"usage", "internal"} : exit' = ExitCode(outcome)
    /\ UNCHANGED <<contractVars, ctxDone, target, status, interrupted, runErr,
                   targetExit, requests, verdict, warned>>

StartInjector ==
    /\ main = "start" /\ main' = "spawn"
    /\ Start
    /\ UNCHANGED <<ctxDone, target, status, interrupted, runErr, targetExit,
                   requests, verdict, warned, exit>>

\* Start's error is returned at once, and Stop is not called.
StartInjectorFails ==
    /\ main = "start" /\ main' = "exited"
    /\ StartFails
    /\ exit' = ExitCode("internal")
    /\ UNCHANGED <<ctxDone, target, status, interrupted, runErr, targetExit,
                   requests, verdict, warned>>

\* cmd.Start refuses a context that is already done.
Spawn ==
    /\ main = "spawn" /\ ~ctxDone
    /\ main' = "wait" /\ target' = "running"
    /\ UNCHANGED <<contractVars, ctxDone, status, interrupted, runErr,
                   targetExit, requests, verdict, warned, exit>>

\* Run's error returned before the injector is stopped.
SpawnFailsEarly ==
    /\ main = "spawn" /\ main' = "exited"
    /\ runErr' = TRUE /\ exit' = ExitCode("internal")
    /\ UNCHANGED <<contractVars, ctxDone, target, status, interrupted,
                   targetExit, requests, verdict, warned>>

SpawnFails ==
    /\ main = "spawn" /\ main' = "stop"
    /\ runErr' = TRUE
    /\ UNCHANGED <<contractVars, ctxDone, target, status, interrupted,
                   targetExit, requests, verdict, warned, exit>>

\* A wait that a cancellation ends while the target is still running.
WaitReturnsOnCancel ==
    /\ main = "wait" /\ (target = "exited" \/ interrupted)
    /\ main' = "stop"
    /\ runErr' = (status = 0 /\ interrupted)
    /\ targetExit' = status
    /\ UNCHANGED <<contractVars, ctxDone, target, status, interrupted,
                   requests, verdict, warned, exit>>

\* cmd.Wait: an exit error becomes the result; a target that exits with 0
\* after Cancel signalled it yields the context's error and no result.
WaitReturns ==
    /\ main = "wait" /\ target = "exited"
    /\ main' = "stop" /\ target' = "reaped"
    /\ runErr' = (status = 0 /\ interrupted)
    /\ targetExit' = status
    /\ UNCHANGED <<contractVars, ctxDone, status, interrupted, requests,
                   verdict, warned, exit>>

StopInjector ==
    /\ main = "stop" /\ main' = "drain"
    /\ Stop
    /\ UNCHANGED <<ctxDone, target, status, interrupted, runErr, targetExit,
                   requests, verdict, warned, exit>>

Judge ==
    LET fired == Cardinality(collected)
    IN  /\ verdict' = VerdictFor(fired, targetExit)
        /\ exit' = ExitCode(Outcome(runErr, targetExit, fired))
        /\ warned' = (Outcome(runErr, targetExit, fired) = "notFired" /\ ~requests)
        /\ main' = "exited"

\* A report made of whatever has been drained when Stop returns.
FinishEarly ==
    /\ main = "drain"
    /\ Judge
    /\ UNCHANGED <<contractVars, ctxDone, target, status, interrupted, runErr,
                   targetExit, requests>>

\* <-drainDone: the channel is closed and empty.  Then the summary, the
\* reports and the return value.
Finish ==
    /\ main = "drain" /\ phase = "stopped" /\ buf = <<>>
    /\ Judge
    /\ UNCHANGED <<contractVars, ctxDone, target, status, interrupted, runErr,
                   targetExit, requests>>

-----------------------------------------------------------------------------
(* Signals, the target, and exec.Cmd's watch on the context *)

Signal ==
    /\ main # "exited" /\ ~ctxDone
    /\ ctxDone' = TRUE
    /\ UNCHANGED <<contractVars, main, target, status, interrupted, runErr,
                   targetExit, requests, verdict, warned, exit>>

\* cmd.Cancel; signalling a target that exited but was not reaped succeeds.
CancelTarget ==
    /\ main = "wait" /\ ctxDone /\ ~interrupted
    /\ target \in {"running", "exited"}
    /\ interrupted' = TRUE
    /\ UNCHANGED <<contractVars, main, ctxDone, target, status, runErr,
                   targetExit, requests, verdict, warned, exit>>

TargetExits ==
    /\ target = "running" /\ target' = "exited"
    /\ \E code \in {-1, 0, 1} : status' = code
    /\ UNCHANGED <<contractVars, main, ctxDone, interrupted, runErr,
                   targetExit, requests, verdict, warned, exit>>

\* A killed process reported as a shell does, with 128 + 9.
KillTargetAsShell ==
    /\ interrupted /\ target = "running"
    /\ target' = "exited" /\ status' = 137
    /\ UNCHANGED <<contractVars, main, ctxDone, interrupted, runErr,
                   targetExit, requests, verdict, warned, exit>>

\* A command without a WaitDelay is never killed.
KillTargetNever == FALSE

\* WaitDelay has passed since Cancel: Process.Kill.
KillTarget ==
    /\ interrupted /\ target = "running"
    /\ target' = "exited" /\ status' = -1
    /\ UNCHANGED <<contractVars, main, ctxDone, interrupted, runErr,
                   targetExit, requests, verdict, warned, exit>>

-----------------------------------------------------------------------------
(* Traffic: the target and what it leaves running use the injector *)

Request ==
    /\ target # "none" /\ phase = "running"
    /\ requests' = TRUE
    /\ UNCHANGED <<contractVars, main, ctxDone, target, status, interrupted,
                   runErr, targetExit, verdict, warned, exit>>

FaultFires(o) ==
    /\ target # "none" /\ requests
    /\ Offer(o)
    /\ UNCHANGED runVars

FaultSeen(o) == Observe(o) /\ UNCHANGED runVars

DrainEvent == main # "exited" /\ Drain /\ UNCHANGED runVars

Main ==
    \/ Prepare \/ PrepareFails \/ StartInjector \/ StartInjectorFails
    \/ Spawn \/ SpawnFails \/ WaitReturns \/ StopInjector \/ Finish

Next ==
    \/ Main
    \/ Signal \/ CancelTarget \/ TargetExits \/ KillTarget
    \/ Request \/ DrainEvent
    \/ \E o \in Occurrence : FaultFires(o) \/ FaultSeen(o)

Spec == Init /\ [][Next]_vars

\* The scheduler runs the main, drain and watch goroutines, the WaitDelay
\* timer fires, and the injector's Stop returns.  Nothing is asked of the
\* target.
Fairness ==
    /\ WF_vars(Main) /\ WF_vars(DrainEvent)
    /\ WF_vars(CancelTarget) /\ WF_vars(KillTarget)

FairSpec == Spec /\ Fairness

-----------------------------------------------------------------------------
(* Properties *)

\* Every variable ranges over the values the code can give it.
TypeOK ==
    /\ ContractTypeOK /\ Len(buf) <= EventBuffer
    /\ main \in {"prepare", "start", "spawn", "wait", "stop", "drain", "exited"}
    /\ target \in {"none", "running", "exited", "reaped"}
    /\ {status, targetExit} \subseteq {-1, 0, 1}
    /\ {ctxDone, interrupted, runErr, requests, warned} \subseteq BOOLEAN
    /\ verdict \in Verdicts \cup {"none"}
    /\ exit \in -1 .. 4

\* Exit code 0 is earned: a fault was recorded, the target itself exited with
\* 0 without having been interrupted, and the report says the same.
GreenIsEarned ==
    exit = ExitOK =>
        /\ collected # {} /\ status = 0 /\ target = "reaped" /\ ~interrupted
        /\ verdict = "invariant_proven_under_fault"

\* Exit code 3 is true: no fault fired, so the target cannot have seen one.
NotFiredIsTrue == exit = ExitFaultNotFired => offered = {} /\ observed = {}

\* The target runs only while the injector does, and faultkit never exits
\* with an injector running or with events it has not read.
OrderlyShutdown ==
    /\ target \in {"running", "exited"} => phase = "running" /\ main = "wait"
    /\ main = "exited" => phase # "running" /\ buf = <<>>

\* SIGINT and SIGTERM end the run even if the target ignores its SIGINT.
CancelEnds == ctxDone ~> main = "exited"

\* What the comment on report.Verdict says: verdict and exit code agree, here
\* for the runs whose target ran to its end.
VerdictMatchesExit ==
    verdict # "none" /\ target = "reaped" =>
        /\ exit = ExitOK <=> verdict = "invariant_proven_under_fault"
        /\ exit = ExitTargetFailed <=> verdict = "silent_failure_confirmed"
        /\ exit = ExitFaultNotFired <=> verdict = "invalid_evidence"

=============================================================================
