SPECIFICATION Spec
CONSTANTS
  Clients = {c1, c2}
  Waiters = {}
  Tiers = {1}
  Errors = {"Cancelled"}
  MaxGeneration = 2
INVARIANT PreparedHasAWriter
CHECK_DEADLOCK FALSE
