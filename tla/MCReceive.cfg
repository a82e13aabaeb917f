SPECIFICATION Spec
CONSTANTS
    Size = 8
    HoleFixWait = 3
    f1 = f1
    f2 = f2
    Flows = {f1, f2}
    Fpp = 2
    MaxDelay = 2
    MaxStall = 1
    Period = 3
    Epoch = 11
    MaxTime = 31
    MaxStart = 11
    MaxConnects = 2
    ConnectEarly = FALSE
    Latency <- LatencyOf
INVARIANT HeardIsDue ArrivedIsHeard
CHECK_DEADLOCK FALSE
