SPECIFICATION RungsSpec
CONSTANTS
  k1 = k1
  k2 = k2
  k3 = k3
  Keys = {k1, k2, k3}
  Versions = {1, 2}
  Capacity = 2
  Home <- MCHome
  Garbage = Garbage
  s1 = s1
  s2 = s2
  StubKeys = {s1, s2}
  Askers = {a1, a2}
  Hash <- MCHash
  RequestedShards = 2
  ShardCapacity = 1
  MaxPoisoned = 1
  Envs <- MCEnvs
  Clients = {c1, c2}
  Threshold = 3
  MaxStarts = 3
INVARIANTS TypeOK PoolAccounting NoCrossKeyRead ScansMissNothing 
PROPERTIES WriteIsRead OthersUndisturbed EvictionGoesRound RotationReaches RedisIsRepaired
