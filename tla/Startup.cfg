SPECIFICATION FairSpec
CONSTANTS
  r1 = r1
  r2 = r2
  App = App
  Secret = Secret
  Routers = {r1, r2}
  Kinds = {App, Secret}
  Handled <- HandledDef
  Needs <- NeedsDef
  Failures = {"index", "new", "list", "start"}
  MaxFails = 1
INVARIANTS TypeOK HandlersCalled
PROPERTY NobodyStuck
CHECK_DEADLOCK FALSE
