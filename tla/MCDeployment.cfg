SPECIFICATION Spec
CONSTANTS
    MaxFaults = 1
    MaxRuns = 3
INVARIANTS
    SetupIsWhole
    AdminSurvives
PROPERTIES
    OnlyTheSwapInterrupts
    SetupEnds
CHECK_DEADLOCK FALSE
