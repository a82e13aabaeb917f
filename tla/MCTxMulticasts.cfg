\* Two bundles on two indices next to a unicast flow, with a conflict; nobody
\* deletes a bundle before it is on the air, an index found free is not taken
\* meanwhile, nothing is loaded, and every flow gets its socket.
CONSTANTS
    Indices = {0, 1}
    Receivers = {r1}
    MulticastAddrs = {m1, m2}
    NoAddr = NoAddr
    QueueSize = 1
    MaxFlows = 6
    MaxRequested = 3
    Channels = {c1}
    MaxBundles = 2
    MaxConflicts = 1
    Races = {}
SPECIFICATION FairSpec
INVARIANTS
    GracePeriodRespected
    AdvertisedIsOnAir
PROPERTY BundleGoesOnAir
CHECK_DEADLOCK FALSE
