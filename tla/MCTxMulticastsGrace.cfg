\* A bundle is deleted, and another one added at its index, while its task is
\* still asking for its address.
CONSTANTS
    Indices = {0, 1}
    Receivers = {r1}
    MulticastAddrs = {m1, m2}
    NoAddr = NoAddr
    QueueSize = 2
    MaxFlows = 3
    MaxRequested = 3
    Channels = {c1}
    MaxBundles = 2
    MaxConflicts = 1
    Races = {"deleteInGrace"}
SYMMETRY Interchangeable
SPECIFICATION Spec
INVARIANT GracePeriodRespected
CHECK_DEADLOCK FALSE
