\* Whether a refusal of update() ends by itself: the collector sends and collects
\* only when it is told to connect or disconnect a channel.
CONSTANTS
    MaxSends = 3
    CollectAfterSend = TRUE
SPECIFICATION FairSpec
PROPERTY RefusalIsTemporary
