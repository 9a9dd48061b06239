CONSTANTS
    N = 2
    Hasty <- Nobody
    Quitters <- Last
SPECIFICATION FairSpec
PROPERTY FirstServed
