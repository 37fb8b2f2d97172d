SPECIFICATION FairSpec
CONSTANTS
    Call = {s1, s2, s3}
    NoCall = NoCall
    ReadError = ReadError
    Kprobes = 4
    RingSize = 2
    PerThousand = 100
    EventBuffer = 1
CHECK_DEADLOCK FALSE
INVARIANTS
    TypeOK
    NoSendAfterClose
    HostLeftClean
    EvidenceNotDropped
PROPERTIES
    StopCompletes
    ImplementsContract
