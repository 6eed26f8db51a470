\* One workspace, three reports of scans: order, loss, lateness and a crash.
SPECIFICATION Spec
CONSTANTS
  Instances = {i1}
  Payloads = {}
  Shas = {s1, s2}
  Trees = {clean}
  Clean = clean
  MaxRows = 2
  MaxAttempts = 2
  MaxStamp = 3
  MaxCrashes = 1
  MaxLate = 1
  None = None
SYMMETRY Symmetry
INVARIANTS
  TypeOK
PROPERTIES
  KeepsPromise
  NewCommitsAreQueuedFirst
CHECK_DEADLOCK FALSE
