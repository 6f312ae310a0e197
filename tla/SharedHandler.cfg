SPECIFICATION Spec
CONSTANTS
  h1 = h1
  h2 = h2
  h3 = h3
  k1 = k1
  w1 = w1
  None = None
  Handlers <- MCHandlers
  Deferred <- MCDeferred
  Keys <- MCKeys
  Workers <- MCWorkers
  MaxVer = 2
  MaxFails = 1
INVARIANTS TypeOK NoMissedChange
CHECK_DEADLOCK FALSE
