SPECIFICATION FairSpec
CONSTANTS
  f1 = f1
  f2 = f2
  g = g
  Ours = {f1, f2}
  Foreign = {g}
  Labels = {FALSE, TRUE}
  MaxInputs = 2
  Routes <- TwoRoutes
  Starts <- NewOrDeleted
  Refresh = {FALSE}
INVARIANT TypeOK
PROPERTIES CleanedFirst ForeignKept Finalized Settles
CHECK_DEADLOCK FALSE
