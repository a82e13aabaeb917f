SPECIFICATION Spec
CONSTANTS
    N = 2
    Fpp1 = 2
    Fpp2 = 2
    Forward = 1
    Back = 9
    Fpp <- FppOf
    Jumps <- JumpsOf
    MaxLag = 1
    Discontinuity = 5
    KeepaliveTimeout = 6
    EventsInterval = 1
    SelectThreshold = 3
    MaxAwake = 1
    KeepaliveGap = 2
    MaxStall = 0
    Breakable = {}
    MaxCommands = 1
    MaxTime = 20
INVARIANT StreamResumes
CHECK_DEADLOCK FALSE
