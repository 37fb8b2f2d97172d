SPECIFICATION ProgramSpec
CONSTANTS
    Req = {r1, r2}
    Faults = {"synthetic", "cutoff"}
    CutAt = 1
    EventBuffer = 1
CHECK_DEADLOCK FALSE
INVARIANTS
    TypeOK
    RecordedBeforeComplete
    AppliedIsRecorded
    EvidenceKept
    CrashNeedsCutoff
PROPERTIES
    NothingAfterClose
    StopCompletes
    ImplementsContract
