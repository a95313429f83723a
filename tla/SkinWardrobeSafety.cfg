SPECIFICATION Spec
CONSTANTS
  Uploads = {u1,u2}
  Defaults = {d}
  Fallback = d
  Capes = {c}
  None = None
  MaxOps = 2
  MaxLists = 1
  MaxFaults = 2
SYMMETRY Symmetry
INVARIANTS TypeOK SkinsKept
PROPERTIES EquipTakesHold
CHECK_DEADLOCK FALSE
