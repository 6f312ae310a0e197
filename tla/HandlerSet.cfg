SPECIFICATION Spec
CONSTANTS
  app = app
  secret = secret
  App = App
  Secret = Secret
  w1 = w1
  w2 = w2
  w3 = w3
  Objects = {app, secret}
  Kinds = {App, Secret}
  KindOf <- KindOfDef
  Handled = {App}
  Workers = {w1, w2, w3}
  Serves <- ServesDef
  Queries <- QueriesList
  Labels = {FALSE}
  MaxRev = 2
  MaxFails = 1
  Outcomes = {"requeue", "ignore"}
  Delays = {FALSE, TRUE}
INVARIANTS TypeOK OneRunPerObject NoLostChange NoStaleDependent
PROPERTY ImplementsObjectLoop
CHECK_DEADLOCK FALSE
SYMMETRY AppWorkers
