SPECIFICATION Spec
CONSTANTS
    Total = 4
    NumWorkers = 2
    Capacity = 2
PROPERTY
    KeepsContract
CHECK_DEADLOCK FALSE
