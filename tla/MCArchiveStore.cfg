SPECIFICATION StoreSpec
CONSTANTS
    Outputs <- MCOutputs
    MaxCommands = 5
    MaxInterruptions = 3
INVARIANTS
    OneInterruptionKeepsACopy
    LaterFilesAreNotNewer
    SuccessIsComplete
    ReplacedFilesStay
CHECK_DEADLOCK FALSE
