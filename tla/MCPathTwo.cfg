SPECIFICATION FairCrtSpec
CONSTANTS
    ByteBits = 8
    Floors <- MCFloors
    Inputs <- MCInputs
    Alter <- MCAlter
INVARIANTS
    HonestIsDecoded
    OnlyCanonicalIsAccepted
    EveryPairHasASolution
PROPERTIES
    Terminates
CHECK_DEADLOCK FALSE
