\* The plugin sends its first command while the device server waits for the clock.
CONSTANTS
    MaxSends = 6
    CollectAfterSend = TRUE
    Inputs = {1, 2}
    LatencyOf <- ShortAndLong
    MaxStalled = 1
    Interval = 4
    MaxLag = 16
    BufferSize = 20
    SaneDiff = 30
    Word = 1024
    Channels = {1, 2}
    MoreLabels = {3, 4}
    MaxRestarts = 2
    EarlyCommand = TRUE
    SharedLabels = FALSE
SPECIFICATION FairServerSpec
INVARIANT GivenNamesAreFound
