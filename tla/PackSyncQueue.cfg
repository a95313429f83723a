SPECIFICATION Spec
CONSTANTS
  Instances = {i1, i2}
  Clients = {c1, c2}
  Workers = {w1, w2}
  None = None
  Rounds = 1
  MaxChanges = 2
  MaxFlushes = 2
  MaxFaults = 1
SYMMETRY Symmetry
INVARIANTS TypeOK OneWorker NoLostWakeup TimerKept WaiterKept RestIsSynced
PROPERTIES FreshAnswer NoLostEdit
CHECK_DEADLOCK FALSE
