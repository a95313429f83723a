SPECIFICATION Spec
CONSTANTS
  Uploads = {u1}
  Defaults = {d}
  Fallback = d
  Capes = {c}
  None = None
  MaxOps = 2
  MaxLists = 1
  MaxFaults = 0
PROPERTIES UnequipTakesCapeOff
CHECK_DEADLOCK FALSE
