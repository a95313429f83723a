SPECIFICATION FairSpec
CONSTANTS
  Instances = {i1}
  Clients = {c1, c2}
  Workers = {w1}
  None = None
  Rounds = 2
  MaxChanges = 2
  MaxFlushes = 1
  MaxFaults = 1
PROPERTIES FlushAnswered ImplementsReplication
CHECK_DEADLOCK FALSE
