SPECIFICATION MCSpec
CONSTANTS
  r1 = r1
  r2 = r2
  Reqs <- MCReqs
  Kids = {"k1", "k2"}
  FirstKids = {"k1"}
  Tokens <- MCTokens
  NoToken = NoToken
  TTL = 1
  FetchTimeout = 1
  MaxClock = 2
  Fields = {"timeout"}
  Values = {0, 1}
  BadValues = {0}
  Absent = Absent
  Bodies <- MCBodies
  Calls <- MCCalls
SYMMETRY Symmetric
INVARIANTS
  AdminTypeOK
  WithdrawnKeyExpires
  AuditTruth
  WriteNeedsAdmin
CHECK_DEADLOCK FALSE
