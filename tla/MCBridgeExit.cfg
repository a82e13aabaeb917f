\* The sound server dies for good.
CONSTANTS
    Channels = 1
    RingSize = 1
    Frames = 1
    MaxPulseErrors = 0
SPECIFICATION FairSpec
PROPERTY GivingUpRestarts
