------------------------------ MODULE Scenario ------------------------------
(***************************************************************************)
(* Scenarios and what makes one coherent (pkg/scenario, pkg/faulttypes).   *)
(* A field the YAML leaves out is Absent, or <<>>, 0 or FALSE.  Hosts,     *)
(* paths and globs are sequences of words, in which "*" and "?" are the    *)
(* wildcards; the name of an experiment is a sequence of the words that    *)
(* dashes join.  Of a body or header set only its presence matters, and a  *)
(* probability is counted in ten-thousandths.                              *)
(***************************************************************************)
EXTENDS Integers, Sequences

Certain == 10000

Absent == ""

NoFault == [status |-> 0, headers |-> FALSE, body |-> FALSE, cutoff |-> 0, errno |-> Absent]

NoMatch == [host |-> <<>>, path |-> <<>>, syscall |-> Absent]

Word == STRING

\* What the decoder makes of a YAML file, coherent or not.
FaultType == [status : Int, headers : BOOLEAN, body : BOOLEAN, cutoff : Int, errno : Word]

MatchType == [host : Seq(Word), path : Seq(Word), syscall : Word]

ExperimentType ==
    [name : Seq(Word), failure : Word, provider : Word, fault : FaultType,
     match : MatchType, probability : Int]

FaultIsHTTP(fault) ==
    fault.status # 0 \/ fault.headers \/ fault.body \/ fault.cutoff > 0

FaultIsSyscall(fault) == fault.errno # Absent

MatchIsHTTP(match) == match.host # <<>> \/ match.path # <<>>

MatchIsSyscall(match) == match.syscall # Absent

IsFixtureDriven(exp) == exp.failure # Absent

FaultValid(fault) ==
    /\ FaultIsHTTP(fault) # FaultIsSyscall(fault)
    /\ fault.status = 0 \/ fault.status \in 100 .. 599
    /\ fault.cutoff >= 0

MatchValid(match) == MatchIsHTTP(match) # MatchIsSyscall(match)

\* A fixture-driven experiment takes its fault and match from the catalog, and
\* may carry neither; a raw one needs both, of one level.
FixtureValid(exp) ==
    /\ ~FaultIsHTTP(exp.fault) /\ ~FaultIsSyscall(exp.fault)
    /\ ~MatchIsHTTP(exp.match) /\ ~MatchIsSyscall(exp.match)

RawValid(exp) ==
    /\ exp.provider = Absent /\ FaultValid(exp.fault) /\ MatchValid(exp.match)
    /\ FaultIsHTTP(exp.fault) = MatchIsHTTP(exp.match)

ExperimentValid(exp) ==
    /\ exp.name # <<>>
    /\ exp.probability \in 0 .. Certain
    /\ IF IsFixtureDriven(exp) THEN FixtureValid(exp) ELSE RawValid(exp)

\* Names are kept as the classes of their characters.
IsKebabCase(name) ==
    /\ name # <<>>
    /\ \A i \in DOMAIN name :
          name[i] = "lower" \/ (name[i] \in {"digit", "dash"} /\ i > 1)

ScenarioValid(scn) ==
    /\ IsKebabCase(scn.name)
    /\ scn.experiments # <<>>
    /\ \A i \in DOMAIN scn.experiments : ExperimentValid(scn.experiments[i])

=============================================================================
