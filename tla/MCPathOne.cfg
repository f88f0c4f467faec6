SPECIFICATION Spec
CONSTANTS
    Base = 3
    Window = 3
    MinMatch = 2
    MaxMatch = 4
    Modes = {"auto", "literals", "require"}
    Sources <- MCSources
    Streams <- MCStreams
    Probes <- MCProbes
    TokenLists <- MCTokens
    Lengths = {0, 3, 4}
INVARIANTS
    HonestIsRestored
    ParsedIsDecodable
