SPECIFICATION FairSpec
CONSTANTS
  a = a
  b = b
  other = other
  Selected <- MCSelected
  Others <- MCOthers
  Good = {"ready"}
  Bad = {"pending"}
  MaxLog = 3
  MaxFaults = 3
INVARIANTS TypeOK NoGapNoRepeat
PROPERTIES GoodEnds CancelEnds
CHECK_DEADLOCK FALSE
