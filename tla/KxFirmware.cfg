CONSTANTS
    Setups <- MCSetups
    Colors <- MCColors
    Brights <- MCBrights
    Shades <- MCShades
    Mix <- MCMix
SPECIFICATION FairSpec
INVARIANTS TypeOK SwapShown
PROPERTIES MelodyWhole FourPhaseKept MmcSettles RegistersSettle
