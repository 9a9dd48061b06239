CONSTANTS
    Nibbles <- Bits
    Size = 4
    Periods <- SixOrSeven
    Gap = 14
SPECIFICATION Spec
INVARIANT TypeOK
PROPERTY NibblesInOrder
