SPECIFICATION FairSpec
CONSTANTS
  Boxes = {b1}
  Tenants = {n1}
  TenantOf <- OneTenant
  Controllers = {c1}
  Requests = {r1}
  Loops = {l1}
  ControllerOf <- OneController
  Ops = {"create", "start", "delete"}
  Ids = {i1}
  Configs = {v1}
  Off = Off
  Unresolvable = {}
  Quota = FALSE
  Ttl = 1
  MaxTime = 1
  MaxFaults = 2
  ScaleAttempts = 2
  None = None
INVARIANTS
  TypeOK
PROPERTIES
  ExpiredIsStopped
  RequestsEnd
