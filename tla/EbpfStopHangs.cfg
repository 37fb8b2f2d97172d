SPECIFICATION FairSpec
CONSTANTS
    Call = {s1}
    NoCall = NoCall
    ReadError = ReadError
    Kprobes = 3
    RingSize = 1
    PerThousand = 100
    EventBuffer = 1
CHECK_DEADLOCK FALSE
PROPERTIES
    StopAlwaysReturns
