SPECIFICATION FairSpec
CONSTANTS
    Quarter = 8
    Total = 8
    Probabilities <- MCProbabilities
    ByteBits = 4
    MaxBits = 4
INVARIANTS
    NoCoderError
    DecoderMirrorsEncoder
PROPERTIES
    ImplementsExactReplay
CHECK_DEADLOCK FALSE
