SPECIFICATION FairSpec
CONSTANTS
    AlphabetSize = 2
    Capacity = 5
    MaxSymbols = 9
    Sources <- MCSources
    Streams <- MCStreams
INVARIANTS
    HonestIsRestored
    CatalogsAgree
    AcceptedStreamsAreCausal
PROPERTIES
    ImplementsExactReplay
CHECK_DEADLOCK FALSE
