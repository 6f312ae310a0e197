SPECIFICATION FairSpec
CONSTANTS
  k1 = k1
  k2 = k2
  w1 = w1
  w2 = w2
  Keys = {k1, k2}
  Workers = {w1, w2}
  MaxRuns = 1
  MaxInputs = 3
  MaxFails = 1
INVARIANT TypeOK
PROPERTIES ImplementsKeyQueue DueIsServed StartUnlocks Stops
CHECK_DEADLOCK FALSE
