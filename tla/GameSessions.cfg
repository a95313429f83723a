SPECIFICATION Spec
CONSTANTS
  Instances = {i1}
  Accounts = {a1,a2}
  Games = {g1,g2,g3}
  Pids = {p1,p2}
  None = None
  MaxCrashes = 2
  MaxPlayed = 1
SYMMETRY Symmetry
INVARIANTS OneGame BindingKept
CHECK_DEADLOCK FALSE
