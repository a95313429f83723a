SPECIFICATION Spec
CONSTANTS
    Servers = {s1, s2}
    None = None
    Instances = {i1, i2}
    Commands = {"add"}
    Overlap = TRUE
    PackWhileSynced = FALSE
    CloseEarly = FALSE
    MaxCommands = 0
    MaxEdits = 2
    MaxActs = 2
    MaxCrashes = 0
PROPERTIES AddedServersKept
CHECK_DEADLOCK FALSE
