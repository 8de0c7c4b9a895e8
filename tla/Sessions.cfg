SPECIFICATION Spec
CONSTANTS
    PATTERN_BUF_SIZE = 4
    SQ_UART_FIFO_SIZE = 2
    TriggerLevel = 2
    Steps = 1
    Idle = 16
    Settings = {"sos", "day"}
    Sweep = {60, 1500}
    FLASH_TOTAL_SEC_NUM = 2
    TempWords = 2
    SpiSize = 6
    SQ_SPI_FIFO_SIZE = 4
    AT25040_MAX_PKG_LEN = 3
    RETRY_CNT_THRESHOLD = 0
INVARIANTS
    ContextsSafe
    GoodDevicePasses
    PassIsReal
    LeavesAlone
PROPERTIES
    TestsEnd
CHECK_DEADLOCK FALSE
