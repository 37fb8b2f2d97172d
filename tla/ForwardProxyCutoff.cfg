SPECIFICATION ProgramSpec
CONSTANTS
    Conn = {c1, c2}
    Req = {r1}
    NoReq = NoReq
    Faults = {"cutoff"}
    CutAt = 2
    MaxLines = 2
    EventBuffer = 1
CHECK_DEADLOCK FALSE
INVARIANTS
    CutBudget
PROPERTIES
    StopCompletes
    StreamExits
