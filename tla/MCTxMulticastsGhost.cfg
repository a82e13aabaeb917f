\* A bundle is deleted before its task advertises it.
CONSTANTS
    Indices = {0, 1}
    Receivers = {r1}
    MulticastAddrs = {m1, m2}
    NoAddr = NoAddr
    QueueSize = 2
    MaxFlows = 3
    MaxRequested = 3
    Channels = {c1}
    MaxBundles = 2
    MaxConflicts = 1
    Races = {"deleteInGrace"}
SYMMETRY Interchangeable
SPECIFICATION Spec
INVARIANT DeletedIsNotAdvertised
CHECK_DEADLOCK FALSE
