SPECIFICATION FiguresSpec
CONSTANTS
    Alerts <- MCAlerts
    Installed <- MCInstalled
    Reports <- MCReports
    Hits <- MCHits
    Metrics <- MCMetrics
    Batches = {1, 10}
    Labels = {1, 2, 3}
    Loads <- MCLoads
    MaxTime = 3
    MaxEvents = 3
INVARIANTS
    NoSingleServiceConvicts
    PercentilesAreRanks
    PairingKeepsTheTotal
    GroupsAreBursts
    NoBreachPassesUnseen
PROPERTY
    ContainIsStable
CHECK_DEADLOCK FALSE
