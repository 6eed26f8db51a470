SPECIFICATION Spec
CONSTANTS
  Boxes = {b1}
  Tenants = {n1}
  TenantOf <- OneTenant
  Controllers = {c1}
  Requests = {r1}
  Loops = {l1}
  ControllerOf <- OneController
  Ops = {"create", "start", "stop", "delete", "purge"}
  Ids = {i1, i2, i3, i4}
  Configs = {v1, v2}
  Off = Off
  Unresolvable = {}
  Quota = TRUE
  Ttl = 1
  MaxTime = 0
  MaxFaults = 1
  ScaleAttempts = 2
  None = None
SYMMETRY Symmetry
INVARIANTS
  CollectsUnderVolumeIdentity
PROPERTIES
  IdentityStable
