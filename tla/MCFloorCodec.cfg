SPECIFICATION CodecSpec
CONSTANTS
    ByteBits = 2
    Quarter = 32
    Scale = 32
    CountLimit = 5
    Floor = 4
    ResetInterval = 2
    MaxDirections = 3
    Requested = {2, 3}
    Seeds <- MCSeeds
    Hash <- MCHash
    MaxBytes = 3
    Foreign <- MCForeign
    FLOORS <- MCFloors
    ArchiveDirections = 2
    MaxU64 = 9
    ArchiveSources <- MCSources
    ArchiveLanes = {"Baseline", "Unique", "Reset"}
    ArchiveRequests = {0, 1, 2, 3}
    DecoderCharges = {0, 3, 9}
    MaxEdits = 1
INVARIANTS
    CoderStaysInRange
    ControlsAddNothing
    PackedUnpacks
    AcceptedAsEncoded
PROPERTIES
    ImplementsExactReplay
CHECK_DEADLOCK FALSE
