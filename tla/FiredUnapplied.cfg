SPECIFICATION Spec
CONSTANTS
    Conn = {c1}
    Req = {r1}
    NoReq = NoReq
    Faults = {"cutoff"}
    CutAt = 1
    MaxLines = 1
    EventBuffer = 2
CHECK_DEADLOCK FALSE
INVARIANT
    FiredMeansApplied
