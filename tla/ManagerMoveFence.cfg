SPECIFICATION Spec
CHECK_DEADLOCK FALSE
CONSTANTS
  Callers = {"w", "r"}
  Ops <- OneWriter
  Bound = 2
  MaxValues = 2
  WriteErrors = {}
  ReadErrors = {}
  FailureThreshold = 2
  Wants = {1}
  Ttls = {FALSE}
  FetchErrors = {}
  Cancels = FALSE
  MaxGeneration = 2
  MaxRetryGeneration = 4
  MaxCommitAttempts = 3
  MaxEvictionPasses = 1
  MaxPopulateAttempts = 2
PROPERTY MovesFindReady
