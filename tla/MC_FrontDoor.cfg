SPECIFICATION Spec
CONSTANTS
  Unset = Unset
  Malformed = Malformed
  Refused = Refused
  Scopes = {"device", "ip", "query"}
  Keys = {"d1", "d2", "proxy", "client", "f1", Unknown}
  Window = 2
  MaxKeys = 1
  AllUrls = {"root", "typo", "issuing"}
  MalformedUrls = {"typo"}
  Serials = {"s1"}
  Unfetched = Unfetched
  Nobody = Nobody
  Unknown = Unknown
  Deployments <- MCDeployments
  Requests <- MCRequests
  Threads = {1, 2}
  MaxFaults = 1
INVARIANTS
  IdentityTruth
  BurstBound
  CapHeld
PROPERTIES
  RevokedStaysOut
  RevocationArrives
CHECK_DEADLOCK FALSE
