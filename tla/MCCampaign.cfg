SPECIFICATION Spec
CONSTANTS
  Count = 2
  Keep = 1
  MaxTries = 2
  WarmTries = 2
  MaxPolls = 2
  MaxRuns = 2
  MaxFaults = 1
  MaxExec = 3
INVARIANTS
  SurvivorsWereHeld
  WaitIsHonest
  WarmupLeavesNoTrace
PROPERTIES
  FinishedSurvive
  ScriptsEnd
CHECK_DEADLOCK FALSE
