SPECIFICATION CodecSpec
CONSTANTS
    FloorBits = {4}
    Bits = 4
    Step = 4
    ByteBits = 3
    Window = 3
    ResetInterval = 3
    MaxWeight = 5
    Draw <- MCDraw
    Swap <- MCSwap
    Controls = {"Unique", "DuplicateSharedState", "ShufflePriorHistory", "Reset", "Persistent"}
    Inputs <- MCInputs
    MaxBytes = 6
    ForeignBytes = 2
    ForeignCounts = {0, 1, 2, 3}
    FLOORS <- MCFloors
    ChainSources <- MCSources
    ChainModes = {"Raw", "Path3Hook", "Path123"}
    ChainControls = {"Unique", "Persistent"}
    ChainPasses = {0, 1, 2}
    MaxEdits = 2
INVARIANTS
    HonestIsRestored
    OnlyCanonicalIsAccepted
    OmegaSignsTheCodersState
    WrittenIsRestored
    AcceptedAsEncoded
CHECK_DEADLOCK FALSE
