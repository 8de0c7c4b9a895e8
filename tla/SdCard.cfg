SPECIFICATION Spec
CONSTANTS
    Kinds = {"sd2", "sdhc", "mmc", "sdio"}
    Modes <- MCModes
    Sectors = 2
    MaxFaults = 1
    MaxTries = 0
INVARIANTS
    PassIsReal
    IdentIsTrue
    NoStaleData
    BusLegal
