SPECIFICATION Spec
CONSTANTS
    PATTERN_BUF_SIZE = 8
    FIFO_SIZE = 4
    MaxRetry = 0
    Backlog = 2
INVARIANTS
    PassIsReal
    HeaderIsExact
    FlowControl
PROPERTIES
    BothGoOn
CHECK_DEADLOCK FALSE
