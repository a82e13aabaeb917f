\* A latency and a stall of the RX thread that are longer than READ_INTERVAL
\* together.
CONSTANTS
    MaxSends = 6
    CollectAfterSend = TRUE
    Inputs = {1, 2}
    LatencyOf <- ShortAndTooLong
    MaxStalled = 1
    Interval = 4
    MaxLag = 16
    BufferSize = 20
    SaneDiff = 30
    Word = 1024
    Channels = {1, 2}
    MoreLabels = {3, 4}
    MaxRestarts = 2
    EarlyCommand = FALSE
    SharedLabels = FALSE
SPECIFICATION FairServerSpec
INVARIANT NeverReplays
