\* Two login attempts on one port, two subjects, one restart.
SPECIFICATION FairSpec
CONSTANTS
  op = op
  ann = ann
  l1 = l1
  l2 = l2
  port = port
  x = x
  y = y
  w1 = w1
  w2 = w2
  None = None
  Attempts = {l1, l2}
  Subjects = {op, ann}
  Operator = op
  Tenants = {t1}
  RedirectOf <- MCRedirectOf
  Configs <- MCConfigs
  FirstConfigs <- MCFirst
  CodeTtl = 1
  StoreSize = 1
  SessionTtl = 1
  Leeway = 1
  LoginTimeout = 1
  MaxTime = 2
  MaxStarts = 1
  MaxSessions = 1
  MaxIssued = 2
INVARIANTS
  TypeOK
  TokensFollowApprovals
  AccessRestsOnCurrentSecret
  AcceptedTokensAreYoung
PROPERTIES
  AttemptsEnd
  OthersKeepAccess
  CodesLostOnlyAtBound
CHECK_DEADLOCK FALSE
