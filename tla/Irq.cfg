SPECIFICATION Spec
CONSTANTS
    INTC_MAX_IRQ = 3
    Threshold = 2
INVARIANTS
    TypeOK
    NoFalsePass
    NoUnhandledInterrupt
    NoDanglingParam
PROPERTIES
    TestReturns
