SPECIFICATION Spec
CONSTANTS
  k1 = k1
  k2 = k2
  k3 = k3
  Keys = {k1, k2, k3}
  Versions = {1, 2}
  Capacity = 3
  Home <- MCHome
  Garbage = Garbage
PROPERTY RemovedIsGone
