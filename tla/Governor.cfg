SPECIFICATION FairSpec
CONSTANTS
  Keys = {k1, k2}
  LastCacheRung = 2
  Wants = {1}
  Capacity <- MCCapacity
  Pressure <- MCPressure
  HotRungs = {1}
  Unbound = {}
  Flaky = {1}
  HotHeat = 1
  MaxMoves = 2
  MaxRebinds = 1
  RingSize = 2
  MaxCensus = 3
  Modes = {"Manual", "SemiAutonomous", "FullyAutonomous"}
INVARIANTS TypeOK MovesWithinBudget MovesFollowEvidence 
 
