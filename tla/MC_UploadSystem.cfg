SPECIFICATION SysSpec
CONSTANTS
    r1 = r1  r2 = r2  d1 = d1  b1 = b1  b2 = b2  c1 = c1  c2 = c2
    u1 = u1  u2 = u2  u3 = u3  s1 = s1  s2 = s2  s3 = s3
    Handlers = {r1, r2}
    Devices = {d1}
    Bundles = {b1}
    Contents = {c1}
    Length <- MC_Length
    MaxSize = 2
    MaxChunk = 1
    Decls <- MC_Decls
    UploadIds = {u1, u2, u3}
    SessionIds = {s1, s2, s3}
    Times = {1}
    ParseSlots = 1
    NoRow = NoRow  NoFile = NoFile  NoId = NoId  NoReq = NoReq
    NoReply = NoReply  Hole = Hole
    Device = d1
    ContentOf <- MC_ContentOf1
    ChunkSize = 1
    MaxAttempts = 2
    EnqueueTimes = {1}
    NoEntry = NoEntry  NoBundle = NoBundle  NoConn = NoConn
    Faults <- FaultKinds
    MaxFaults = 3
SYMMETRY MC_Symmetry
INVARIANTS SysTypeOK DoneMeansStored QueuedHasZip
PROPERTIES ImplementsDelivery
CHECK_DEADLOCK FALSE
