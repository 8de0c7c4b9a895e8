SPECIFICATION Spec
CONSTANTS
    Clients = {"self", "pair", "slave"}
    Tx = 0
    Rx = 1
    Threshold = 1
INVARIANTS
    CompletionIsCurrent
    NoLostCompletion
    FillsQuietBuffers
    SharingIsSafe
PROPERTIES
    MenuReturns
CHECK_DEADLOCK FALSE
