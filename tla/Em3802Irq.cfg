CONSTANTS
    Bytes <- MCBytes
    FrameBytes <- MCBytes
    Causes <- BothCauses
    Writes <- ClearWrites
    Depth = 3
    FrameBits = 2
    RstLen = 1
    Careful = TRUE
SPECIFICATION Spec
PROPERTY RiseRequested
