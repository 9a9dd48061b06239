CONSTANTS
    FrameBytes <- MCFrameBytes
    Commands <- MCCommands
    FrameBits = 2
    LastChannel = 1
    WaitTicks = 1
    SendBits = 2
    Gap = 2
SPECIFICATION FairSpec
INVARIANTS TypeOK MessagesWhole
PROPERTY MessagesEnd
