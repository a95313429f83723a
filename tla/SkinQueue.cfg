SPECIFICATION FairSpec
CONSTANTS
  Profiles = {p1,p2}
  Keys = {k1}
  Tasks = {t1,t2,t3}
  None = None
  MaxSets = 2
  MaxFailures = 1
INVARIANTS TypeOK NewestKept PendingIsTimed
PROPERTIES AppliedInOrder FlushSettles ImplementsSlot ChangesSettle
CHECK_DEADLOCK FALSE
