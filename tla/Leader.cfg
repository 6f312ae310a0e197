SPECIFICATION FairSpec
CONSTANTS
  a = a
  b = b
  Nobody = Nobody
  Replicas <- MCReplicas
  TTL = 4
  MaxStops = 1
INVARIANTS TypeOK OneLeader
PROPERTIES SomeoneLeads LeavesWhenOver
