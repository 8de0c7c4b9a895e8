SPECIFICATION Spec
CONSTANTS
    NumTds = 4
    MaxFrag = 3
    MaxMerge = 1
INVARIANTS
    RingSound
PROPERTIES
    FifoSpec
    SendReturns
    Reclaimed
