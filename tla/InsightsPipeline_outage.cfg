\* The controller may stay out of reach for every attempt at a batch.
SPECIFICATION Spec
CONSTANTS
  Instances = {i1}
  Payloads = {p1}
  Shas = {s1}
  Trees = {clean}
  Clean = clean
  MaxRows = 2
  MaxAttempts = 2
  MaxStamp = 2
  MaxCrashes = 0
  MaxLate = 1
  None = None
PROPERTIES
  DroppedOnlyAtBounds
CHECK_DEADLOCK FALSE
