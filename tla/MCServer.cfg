\* The channel as the samples collector uses it, every command being followed by
\* a collection of garbage; the periodic collector with two channels whose flows
\* differ in latency, a READ_INTERVAL as long as the longer latency and the stall
\* of the RX thread together; two channels with two more names, a bundle and two
\* crashes.
CONSTANTS
    MaxSends = 6
    CollectAfterSend = TRUE
    Inputs = {1, 2}
    LatencyOf <- ShortAndLong
    MaxStalled = 1
    Interval = 4
    MaxLag = 16
    BufferSize = 20
    SaneDiff = 30
    Word = 1024
    Channels = {1, 2}
    MoreLabels = {3, 4}
    MaxRestarts = 2
    EarlyCommand = FALSE
    SharedLabels = FALSE
SPECIFICATION FairServerSpec
INVARIANTS
    RealTimeNeverFrees
    SingleOwner
    NeverReplays
    ConnectedIsHeard
    GivenNamesAreFound
PROPERTIES
    ImplementsMailbox
    SettledBoxIsReceived
