SPECIFICATION Spec
CONSTANTS
  Instances = {i1}
  Accounts = {a1}
  Games = {g1,g2}
  Pids = {p1}
  None = None
  MaxCrashes = 0
  MaxPlayed = 2
INVARIANTS TimeKept
CHECK_DEADLOCK FALSE
