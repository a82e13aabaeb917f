\* The instance changes while the old one is still stopping.
CONSTANTS
    Captures = {rx}
    Playbacks = {tx}
    MaxInstances = 2
    MaxStreams = 2
    MaxBuffers = 1
SPECIFICATION FairSpec
INVARIANT NoStaleBuffersAtAll
CHECK_DEADLOCK FALSE
