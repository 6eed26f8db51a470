\* Two workspaces whose batches may have the same content, and outboxes of two rows, of
\* which one may keep failing ahead of the other.
SPECIFICATION FairSpec
CONSTANTS
  Instances = {i1, i2}
  Payloads = {p1}
  Shas = {s1}
  Trees = {clean}
  Clean = clean
  MaxRows = 2
  MaxAttempts = 2
  MaxStamp = 2
  MaxCrashes = 0
  MaxLate = 1
  None = None
PROPERTIES
  KeepsPromise
  OutboxDrains
CHECK_DEADLOCK FALSE
