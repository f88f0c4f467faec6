SPECIFICATION FairSpec
CONSTANTS
    MaskBytes = 3
    MaskBit <- MCMaskBit
    MaxBytes = 8
    Chunks <- MCChunks
INVARIANTS
    ChunksDoNotMatter
PROPERTIES
    ImplementsExactReplay
CHECK_DEADLOCK FALSE
