\* A working tree is edited, and the edit is undone.
SPECIFICATION Spec
CONSTANTS
  Instances = {i1}
  Payloads = {}
  Shas = {s1}
  Trees = {clean, dirty}
  Clean = clean
  MaxRows = 2
  MaxAttempts = 2
  MaxStamp = 3
  MaxCrashes = 0
  MaxLate = 0
  None = None
INVARIANTS
  ShowsLatestTree
CHECK_DEADLOCK FALSE
