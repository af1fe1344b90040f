SPECIFICATION GraphSpec
CONSTANTS
    Catalog <- MCCatalog
    DataTypes <- MCDataTypes
INVARIANTS
    EveryNodeRuns
    ReadsAreUpstream
    EveryNodeIsAwaited
