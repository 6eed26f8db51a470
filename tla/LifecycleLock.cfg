SPECIFICATION FairSpec
CONSTANTS
  Tasks = {t1, t2, t3}
  Keys = {k1, k2}
  Locks = {l1, l2, l3}
  None = None
INVARIANTS
  TypeOK
  MutualExclusion
  NoLeakedEntry
PROPERTIES
  ImplementsMutex
  WaiterServed
