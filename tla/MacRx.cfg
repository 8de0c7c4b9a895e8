SPECIFICATION Spec
CONSTANTS
    NumRds = 3
    MaxSeg = 2
    PooliMax = 3
    MaxUnread = 3
    MaxBad = 1
    Merging = FALSE
    IgnoreError = FALSE
INVARIANTS
    RxSound
PROPERTIES
    FifoSpec
    RxGoesOn
CHECK_DEADLOCK FALSE
