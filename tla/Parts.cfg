SPECIFICATION PartsSpec
CONSTANTS
  Callers = {"w", "v", "f"}
  Ops <- Writers
  Bound = 1
  MaxValues = 3
  WriteErrors = {}
  ReadErrors = {}
  FailureThreshold = 2
  Wants = {0}
  Ttls = {FALSE}
  FetchErrors = {}
  Cancels = FALSE
  MaxGeneration = 2
  MaxRetryGeneration = 4
  MaxCommitAttempts = 64
  MaxEvictionPasses = 1
  MaxPopulateAttempts = 2
  k1 = k1
  k2 = k2
  k3 = k3
  k4 = k4
  Keys = {k1, k2, k3, k4}
  Placement <- MCPlacement
  UseCases <- MCUseCases
  ShardCount = 2
  Capacity = 2
  Tiers = {1}
  Generations = {1}
  Errors = {"Timeout"}
  SetStates = {"Stale"}
  Sweepers = {s1, s2}
  MaxSlotGeneration = 1
  MaxPrepares = 1
  Tenants <- MCTenants
  AppKeys <- MCAppKeys
  Cases <- MCCases
  MaxKeySize = 5
  BoundRungs = 3
  RungErrors = {"TierUnavailable", "CapacityExhausted"}
  RingCap = 3
  Requesters = {c1, c2}
  OpensAt = 2
  CustomTiers = {0, 5, 6}
  RungKeys = {a}
  RungValues = {"v1", "v2"}
  BoundTo <- MCBoundTo
  Lifetimes = {0, 3}
  Second = 2
  MaxClock = 4
  MaxSets = 2
  MaxUnflushed = 2
  MaxFailures = 2
  Tasks = {t1, t2}
  Plans <- MCPlans
  MaxCalls = 3
  MaxArms = 1
INVARIANTS
  
  RoomIsFound StatsAddUp RecoveriesAreReal
  TenantIsolation AuthorityIsNeverWritten  PercentilesAreQuantiles
  
  FaultsAreConserved WindowsAreHonoured CleanErrorsAreClean
PROPERTIES ImplementsMap 
SYMMETRY Symmetry
CHECK_DEADLOCK FALSE
