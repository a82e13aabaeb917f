\* Late, lost and reordered packets within one length of the ring.
CONSTANTS
    Size = 4
    StartTime = 4
    HoleFixWait = 2
    MaxTime = 9
    MaxPacket = 2
    MaxRead = 2
    MaxLate = 4
    MaxGap = 2
    StoresInOrder = TRUE
SPECIFICATION Spec
INVARIANTS
    ReadsAreFaithful
    BrokenStreamIsSilent
PROPERTIES
    ArrivedSamplesSurvive
