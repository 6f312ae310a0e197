SPECIFICATION Spec
CONSTANTS
  a = a
  b = b
  Nobody = Nobody
  Replicas <- MCReplicas
  TTL = 4
  MaxStops = 1
INVARIANT ReadyOnceStarted
