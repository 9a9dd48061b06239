CONSTANTS
    Regs <- TwoRegs
    LastBlock = 1
    BlockOf <- OneEach
    Values <- Bits
    Default = 0
    MaxCount = 1
    SafeModes <- Anyway
    CpuWaits = "ram"
    ResetAt <- AnyTime
    Cuts = 2
SPECIFICATION FairSpec
INVARIANTS TypeOK SavesSettings IdTellsSaving
PROPERTIES ReadsOneSave SaveEnds
