SPECIFICATION Spec
CONSTANTS
  Jobs = {j1, j2}
  Tasks = {t1, t2, t3}
  Existing = {e}
  Fresh = {f1, f2}
  None = None
  MaxPermits = 1
  MaxCrashes = 2
  MaxRetries = 2
  Kinds = {"create", "existing", "update"}
  Commands = {"retry", "cancel"}
  Faults = {"prepare", "lock", "work", "cleanup", "directory", "statement"}
  Serial = TRUE
SYMMETRY Symmetry
INVARIANTS PermitBound NoOrphanLock BackupKept UpdateIsAtomic RollbackErrorRetriable NoOrphanInstance FailedRollbackRepeatable
CHECK_DEADLOCK FALSE
