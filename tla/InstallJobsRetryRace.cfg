SPECIFICATION Spec
CONSTANTS
  Jobs = {j1}
  Tasks = {t1, t2}
  Existing = {e}
  Fresh = {f1, f2}
  None = None
  MaxPermits = 1
  MaxCrashes = 0
  MaxRetries = 2
  Kinds = {"create"}
  Commands = {"retry"}
  Faults = {"work"}
  Serial = FALSE
PROPERTIES OnlyFailedJobsAreRetried
CHECK_DEADLOCK FALSE
