\* The threads with two channels and rings of one sample, any two of PulseAudio,
\* the playback and the capture device and the pipe-source failing at any time;
\* the faders with two lines of the file, two levels, the `save` command, saves
\* that fail anywhere and restarts; the units with every kind of config, an address that
\* comes and goes, and two processes that die.
CONSTANTS
    Channels = 2
    RingSize = 1
    Frames = 1
    MaxPulseErrors = 1
    MaxBroken = 2
    Faders = 2
    Loudest = 1
    SaveCommands = TRUE
    Waiter = waiter
    Engine = engine
    Clients = {waiter, engine}
    Backlog = 1
    Configs = {"valid", "noInterface", "invalid", "broken"}
    MaxCrashes = 2
    Overlap = FALSE
SPECIFICATION FairHostSpec
INVARIANTS
    LatestSampleWins
    RealTimeThreadsWait
    SavedWhenClean
    NobodyIsForgotten
PROPERTIES
    JackLegGoesOn
    ChangesAreSaved
    ComesUp
    BridgeFollowsClock
\* A device or PulseAudio is gone for good, or `stop` ended the bridge.
CHECK_DEADLOCK FALSE
