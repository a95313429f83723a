SPECIFICATION Spec
CONSTANTS
    Servers = {s1, s2}
    None = None
    Instances = {i1, i2}
    Commands = {"add", "remove", "update", "desync", "edit_shared", "drop_shared", "off", "base", "join", "leave", "pack"}
    Overlap = FALSE
    PackWhileSynced = FALSE
    CloseEarly = FALSE
    MaxCommands = 1
    MaxEdits = 2
    MaxActs = 2
    MaxCrashes = 1
SYMMETRY ServerSymmetry
INVARIANTS TypeOK UpToDateIsComposed
PROPERTIES ImplementsSharedList EditsKept ShownOnce PackServersStayLocal
CHECK_DEADLOCK FALSE
