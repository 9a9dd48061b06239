CONSTANTS
    Regs <- TwoRegs
    LastBlock = 1
    BlockOf <- OneEach
    Values <- Bits
    Default = 0
    MaxCount = 2
    SafeModes <- Normal
    CpuWaits = "id"
    ResetAt <- WhenIdle
    Cuts = 0
SPECIFICATION Spec
INVARIANT EverySaveIsCurrent
