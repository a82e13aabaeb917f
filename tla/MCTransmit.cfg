SPECIFICATION Spec
CONSTANTS
    N = 2
    Fpp1 = 2
    Fpp2 = 2
    Forward = 1
    Back = 3
    Fpp <- FppOf
    Jumps <- JumpsOf
    MaxLag = 1
    Discontinuity = 5
    KeepaliveTimeout = 7
    EventsInterval = 1
    SelectThreshold = 3
    MaxAwake = 1
    KeepaliveGap = 2
    MaxStall = 0
    Breakable = {2}
    MaxCommands = 3
    MaxTime = 17
INVARIANT KeptAlive AbandonedExpires StreamResumes NeverTwice ShownIsSent
CHECK_DEADLOCK FALSE
