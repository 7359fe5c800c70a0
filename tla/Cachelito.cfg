SPECIFICATION FairSpec
CONSTANTS
  Clients = {c1, c2}
  Waiters = {w1}
  Tiers = {1}
  Errors = {"Cancelled"}
  MaxGeneration = 3
INVARIANTS TypeOK OwnersAreLive OneLivePopulation NoLostWakeup
PROPERTIES NoResurrection WaitersAreWoken
CHECK_DEADLOCK FALSE
