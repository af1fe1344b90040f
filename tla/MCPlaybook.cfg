SPECIFICATION Spec
CONSTANTS
    e1 = e1
    e2 = e2
    Execs <- MCExecs
    borderline = borderline
    unrated = unrated
    Alerts <- MCAlerts
    Rejected <- MCRejected
    Profile <- MCProfile
    Known = {borderline}
    Deployed <- MCDeployed
    MaxFaults = 1
INVARIANTS
    FalsePositiveUncontained
    DecisionIsCurrent
    MetricsTruthful
    OneMetricsDocPerAlert
    ExactlyOneNotice
PROPERTY
    ExecutionEnds
CHECK_DEADLOCK FALSE
