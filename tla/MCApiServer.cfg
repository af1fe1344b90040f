CONSTANTS
    Files = {f1, f2}
    Versions = {1, 2}
    Seconds = 2
    MaxChanges = 1
    MaxClients = 2
    MaxRequests = 3
SPECIFICATION Spec
INVARIANTS RestoreAddsWhatIsMissing MissesAreRemovals
PROPERTIES ReportedBackupIsThere LoopGetsFree
CHECK_DEADLOCK FALSE
