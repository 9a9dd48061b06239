CONSTANTS
    Setups <- MCSetups
    HalfPeriod = 5
    CpuDelay = 2
    DtackSetup = 2
    Answered <- MainAnswers
    WatchdogInit = 50
    CounterInit = 63
    AckLatency <- Latency
    SampleAges <- Samples
    SwitchTicks = 8
    ReadLatency = 6
SPECIFICATION FairSpec
INVARIANTS TypeOK AnswersOnlyItsOwn DataInTime TakenIntact ClaimsOnlyFree MasterExclusive
PROPERTIES WriteNotLost CyclesEnd
