\* The bridge: one capture and one playback handle.
CONSTANTS
    Captures = {rx}
    Playbacks = {tx}
    MaxInstances = 2
    MaxStreams = 2
    MaxBuffers = 1
SPECIFICATION FairSpec
INVARIANTS
    StreamsAreKept
    NoStaleBuffers
PROPERTY PrepareReturns
CHECK_DEADLOCK FALSE
