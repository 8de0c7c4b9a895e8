SPECIFICATION Spec
CONSTANTS
    Main = "main"
    Items <- MCItems
    Enabled <- MCEnabled
    Allowed <- MCAllowed
    Keys <- MCKeys
    MaxFails = 2
INVARIANTS
    PromptSound
    VerdictIsTrue
PROPERTIES
    AutoTestEnds
CHECK_DEADLOCK FALSE
