SPECIFICATION Spec
CHECK_DEADLOCK FALSE
CONSTANTS
  Callers = {"f", "g", "w"}
  Ops <- Populations
  Bound = 1
  MaxValues = 2
  WriteErrors = {"TierUnavailable"}
  ReadErrors = {}
  FailureThreshold = 2
  Wants = {0}
  Ttls = {TRUE}
  FetchErrors = {"PopulationFailed"}
  Cancels = TRUE
  MaxGeneration = 2
  MaxRetryGeneration = 3
  MaxCommitAttempts = 64
  MaxEvictionPasses = 1
  MaxPopulateAttempts = 2
INVARIANT QuietIsSettled
