\* A handle is opened again at once.
CONSTANTS
    Captures = {rx}
    Playbacks = {tx}
    MaxInstances = 2
    MaxStreams = 2
    MaxBuffers = 1
SPECIFICATION FairSpec
INVARIANT OneInstanceAtATime
CHECK_DEADLOCK FALSE
