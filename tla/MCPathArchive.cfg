SPECIFICATION ArchiveSpec
CONSTANTS
    Originals <- MCOriginals
    FloorBits = {6, 7, 12}
    Seeds = {s1, s2}
    Lanes = {"Unique", "DuplicateSharedState"}
    P1Modes = {"Auto", "LiteralOnly", "RequireMatch"}
    PipelineModes = {"Path1Only", "Path2Only", "Path3Only", "P123"}
    Charges = {0, 20}
    MaxU64 = 25
INVARIANTS
    HandedOutIsRestored
    AcceptedAsEncoded
CHECK_DEADLOCK FALSE
