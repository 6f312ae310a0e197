SPECIFICATION FairSpec
CONSTANTS
  app = app
  secret = secret
  App = App
  Secret = Secret
  w1 = w1
  w2 = w2
  w3 = w3
  Objects = {app, secret}
  Kinds = {App, Secret}
  KindOf <- KindOfDef
  Handled = {App}
  Workers = {w1, w3}
  Serves <- ServesDef
  Queries <- QueriesGet
  Labels = {FALSE}
  MaxRev = 2
  MaxFails = 1
  Outcomes = {"requeue", "swallow"}
  Delays = {FALSE}
INVARIANTS  NoStaleDependent
PROPERTY Converges
CHECK_DEADLOCK FALSE
