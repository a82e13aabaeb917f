SPECIFICATION Spec
CONSTANTS
    Size = 8
    HoleFixWait = 3
    f1 = f1
    f2 = f2
    Flows = {f1, f2}
    Fpp = 2
    MaxDelay = 2
    MaxStall = 1
    Period = 3
    Epoch = 11
    MaxTime = 32
    MaxStart = 12
    MaxConnects = 2
    ConnectEarly = TRUE
    Latency <- LatencyOf
INVARIANT HeardIsDue
CHECK_DEADLOCK FALSE
