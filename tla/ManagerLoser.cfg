SPECIFICATION Spec
CHECK_DEADLOCK FALSE
CONSTANTS
  Callers = {"w", "v"}
  Ops <- TwoSetters
  Bound = 1
  MaxValues = 2
  WriteErrors = {}
  ReadErrors = {}
  FailureThreshold = 2
  Wants = {0}
  Ttls = {FALSE}
  FetchErrors = {}
  Cancels = TRUE
  MaxGeneration = 2
  MaxRetryGeneration = 4
  MaxCommitAttempts = 64
  MaxEvictionPasses = 1
  MaxPopulateAttempts = 2
INVARIANT QuietIsCommitted
