SPECIFICATION Spec
CONSTANTS
    MaxBlocks = 2
    MaxPolls = 1
INVARIANTS
    SuccessIsReal
    TransferSound
PROPERTIES
    SendReturns
CHECK_DEADLOCK FALSE
