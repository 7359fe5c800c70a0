SPECIFICATION Spec
CHECK_DEADLOCK FALSE
CONSTANTS
  Callers = {"w", "r"}
  Ops <- OneWriter
  Bound = 7
  MaxValues = 2
  WriteErrors = {"CapacityExhausted", "WriteIndeterminate", "ConfigurationError"}
  ReadErrors = {}
  FailureThreshold = 2
  Wants = {5, 6}
  Ttls = {FALSE}
  FetchErrors = {}
  Cancels = TRUE
  MaxGeneration = 2
  MaxRetryGeneration = 2
  MaxCommitAttempts = 2
  MaxEvictionPasses = 1
  MaxPopulateAttempts = 2
INVARIANT TypeOK
INVARIANT ReadyIsCommitted
PROPERTY AuthorityUntouched
