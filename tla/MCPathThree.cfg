SPECIFICATION FairSpec
CONSTANTS
    Experts = {1, 2, 3}
    Expert <- MCExpert
    FloorBits = 2
    Window = 2
    InitialWeight = 2
    WeightLimit = 4
    Rate = 2
    Even = 8
    Gain = 6
    Ceiling = 15
    Sources <- MCSources
INVARIANTS
    ProbabilitiesAreUsable
    DecoderInStep
PROPERTIES
    ImplementsExactReplay
CHECK_DEADLOCK FALSE
