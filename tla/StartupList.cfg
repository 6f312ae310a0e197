SPECIFICATION Spec
CONSTANTS
  r1 = r1
  r2 = r2
  App = App
  Secret = Secret
  Routers = {r1, r2}
  Kinds = {App, Secret}
  Handled <- HandledDef
  Needs <- NeedsDef
  Failures = {"list"}
  MaxFails = 1
INVARIANT WatchedIsRegistered
CHECK_DEADLOCK FALSE
