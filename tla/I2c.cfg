SPECIFICATION Spec
CONSTANTS
    PATTERN_BUF_SIZE = 2
    MaxTries = 2
    Noise = {"tomaster", "toslave", "arbitration"}
INVARIANTS
    RetryIsExact
    StoresInBounds
    Handshake
PROPERTIES
    TransferEnds
CHECK_DEADLOCK FALSE
