\* Bundles are deleted at any time, the transmitter is stopped, the process dies
\* between two requests, and what was saved is loaded again, at addresses that
\* may be in use; a receiver takes the index found free, a socket cannot be made.
CONSTANTS
    Indices = {0, 1}
    Receivers = {r1}
    MulticastAddrs = {m1, m2}
    NoAddr = NoAddr
    QueueSize = 1
    MaxFlows = 3
    MaxRequested = 1
    Channels = {c1}
    MaxBundles = 2
    MaxConflicts = 1
    Races = {"deleteInGrace", "stop", "crashIdle", "takenIndex", "usedAddress", "noSocket"}
SYMMETRY Interchangeable
SPECIFICATION Spec
INVARIANTS
    CommandsApply
    TablesAgree
PROPERTY SavedBundlesSurvive
CHECK_DEADLOCK FALSE
