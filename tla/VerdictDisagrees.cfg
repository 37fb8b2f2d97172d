SPECIFICATION Spec
CONSTANTS
    Occurrence = {o1}
    EventBuffer = 1
CHECK_DEADLOCK FALSE
INVARIANTS
    VerdictMatchesExit
