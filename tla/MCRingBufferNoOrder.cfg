\* No order between the stores of the writer: what still holds on AArch64.
CONSTANTS
    Size = 4
    StartTime = 4
    HoleFixWait = 2
    MaxTime = 9
    MaxPacket = 1
    MaxRead = 2
    MaxLate = 3
    MaxGap = 1
    StoresInOrder = FALSE
SPECIFICATION Spec
INVARIANTS
    ReadsWithMarginAreFaithful
