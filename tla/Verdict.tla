------------------------------ MODULE Verdict ------------------------------
(***************************************************************************)
(* How a finished run is judged, twice: the verdict of the JSON report     *)
(* (internal/report) and the error runFaultkit returns, which ExecuteWith  *)
(* turns into the exit code of the process (internal/cli).                 *)
(***************************************************************************)
EXTENDS Integers

ExitOK            == 0
ExitTargetFailed  == 1
ExitInternalError == 2
ExitFaultNotFired == 3
ExitUsage         == 4

Verdicts == {"invalid_evidence", "silent_failure_confirmed", "invariant_proven_under_fault"}

\* The proof state derived from the fired count and the target's exit code.
VerdictFor(fired, targetExit) ==
    IF fired = 0 THEN "invalid_evidence"
    ELSE IF targetExit # 0 THEN "silent_failure_confirmed" ELSE "invariant_proven_under_fault"

\* The end of runFaultkit without its test of the fired count.
OutcomeUncounted(runErr, targetExit, fired) ==
    IF runErr THEN "internal" ELSE IF targetExit # 0 THEN "targetExit" ELSE "nil"

\* The error runFaultkit returns: a runner error, a failed target, no fault.
Outcome(runErr, targetExit, fired) ==
    IF runErr THEN "internal"
    ELSE IF targetExit # 0 THEN "targetExit"
    ELSE IF fired = 0 THEN "notFired" ELSE "nil"

\* ExecuteWith's dispatch on that error.
ExitCode(outcome) ==
    CASE outcome = "nil"        -> ExitOK
      [] outcome = "targetExit" -> ExitTargetFailed
      [] outcome = "notFired"   -> ExitFaultNotFired
      [] outcome = "usage"      -> ExitUsage
      [] OTHER                  -> ExitInternalError

=============================================================================
