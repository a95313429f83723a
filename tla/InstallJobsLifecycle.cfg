SPECIFICATION FairSpec
CONSTANTS
  Jobs = {j1, j2}
  Tasks = {t1, t2}
  Existing = {e}
  Fresh = {f1}
  None = None
  MaxPermits = 1
  MaxCrashes = 1
  MaxRetries = 1
  Kinds = {"pack", "update"}
  Commands = {"retry", "cancel", "delete", "dismiss"}
  Faults = {"lock", "work", "cleanup", "delete"}
  Serial = TRUE
INVARIANTS TypeOK ActiveIsBacked LaunchBlockedWhileInstalling
PROPERTIES ImplementsLifecycle LateWorkerLeavesFinishedJob
CHECK_DEADLOCK FALSE
