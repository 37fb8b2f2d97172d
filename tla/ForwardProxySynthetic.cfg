SPECIFICATION Spec
CONSTANTS
    Conn = {c1, c2}
    Req = {r1, r2}
    NoReq = NoReq
    Faults = {"synthetic"}
    CutAt = 1
    MaxLines = 0
    EventBuffer = 1
SYMMETRY Symmetry
CHECK_DEADLOCK FALSE
INVARIANTS
    TypeOK
    HandlersQuiesced
    NoSendAfterClose
    RecordedBeforeSeen
    EvidenceKept
    CAFileLifetime
PROPERTIES
    ImplementsContract
