SPECIFICATION ResyncSpec
CONSTANTS
  svc = svc
  eps = eps
  Service = Service
  f = f
  t = t
  Owners <- RoutersDef
  Keys = {svc, eps}
  Kinds = {Service}
  KindOf <- KindOfDef
  Fields = {f, t}
  Vals = {1, 2}
  Immutable = {t}
  Options <- OptionsDef
  ValidOwnerChange <- Handover
  Slow = {FALSE, TRUE}
  Strangers <- Copies
  MaxInputs = 1
INVARIANT TypeOK
PROPERTIES OwnerKept CopiesKept Converges
CHECK_DEADLOCK FALSE
