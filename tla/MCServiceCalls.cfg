CONSTANTS
  Polls = 2
  Pages = 2
  Fetches = 2
  Retries = 2
  Threshold = 2
  Recovery = 1
  MaxCalls = 4
  MaxRetries = 2
  MaxKeys = 3
  MaxFaults = 2
SPECIFICATION Spec
INVARIANTS
  NoHiddenDuplicate
  SuccessIsTrue
  
  OutcomeIsTrue
  HealedKeyIsReal
PROPERTIES
  BreakerKept
  CallsEnd
CHECK_DEADLOCK FALSE
