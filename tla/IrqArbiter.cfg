SPECIFICATION IrqFairSpec
CONSTANTS
    Vector <- MCVector
    CheckAt = {3}
    IackHold = 1
INVARIANTS IrqTypeOK OncePerAssertion AnswerMatchesClaim
PROPERTY RequestsServed
