SPECIFICATION Spec
CONSTANTS
    Clients = {"pair"}
    Tx = 0
    Rx = 1
    Threshold = 2
INVARIANTS
    PairCompletionIsCurrent
