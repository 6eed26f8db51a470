SPECIFICATION FairSpec
CONSTANTS
  Boxes = {b1, b2}
  Tenants = {n1, n2}
  TenantOf <- TwoTenants
  Controllers = {c1}
  Requests = {}
  Loops = {l1}
  ControllerOf <- OneController
  Ops = {"stop"}
  Ids = {i1, i2, i3, i4, i5}
  Configs = {Off, v1}
  Off = Off
  Unresolvable = {b1}
  Quota = FALSE
  Ttl = 1
  MaxTime = 2
  MaxFaults = 0
  ScaleAttempts = 2
  None = None
PROPERTIES
  ResolvableBoxesExpire
