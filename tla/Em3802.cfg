CONSTANTS
    Bytes <- MCBytes
    FrameBytes <- MCBytes
    Causes <- MCCauses
    Writes <- SendWrites
    Depth = 4
    FrameBits = 2
    RstLen = 1
    Careful = TRUE
SPECIFICATION Spec
INVARIANTS TypeOK PopSafe
PROPERTY BytesInOrder
