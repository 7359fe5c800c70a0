SPECIFICATION Spec
CHECK_DEADLOCK FALSE
CONSTANTS
  Callers = {"f", "g"}
  Ops <- TwoFetchers
  Bound = 1
  MaxValues = 2
  WriteErrors = {}
  ReadErrors = {}
  FailureThreshold = 2
  Wants = {0}
  Ttls = {FALSE}
  FetchErrors = {}
  Cancels = FALSE
  MaxGeneration = 2
  MaxRetryGeneration = 4
  MaxCommitAttempts = 64
  MaxEvictionPasses = 1
  MaxPopulateAttempts = 2
INVARIANT SingleFlightFetch
