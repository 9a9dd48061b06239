CONSTANTS
    LastBlock = 2
    Buffered = 36
    QueueDepth = 8
    MaxStalls = 2
    MaxRefusals = 2
SPECIFICATION FairSpec
INVARIANTS TypeOK InStep NoMixture CompletedIsWritten
PROPERTIES WriterEnds
\* The writer ends in a loop that only shows the switches, or waits for an answer for ever.
CHECK_DEADLOCK FALSE
