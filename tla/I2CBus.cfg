CONSTANTS
    N = 3
    Hasty <- First
    Quitters <- Nobody
SPECIFICATION FairSpec
INVARIANTS TypeOK GrantExclusive BytesOwned
PROPERTY BusServed
