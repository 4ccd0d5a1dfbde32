SPECIFICATION FairSpec
CONSTANTS
    s1 = s1  s2 = s2
    Sessions = {s1, s2}
    Legacy = {s2}
    Zips <- MC_Zips
    Buffer = 1
    Batch = 2
    Ttl = 1
    Day = 2
    MaxNow = 5
    Faults <- FaultKinds
    MaxFaults = 2
    NoRow = NoRow
INVARIANTS TypeOK NoOrphans OkIsComplete NoLeakedBlob
PROPERTIES NothingEarly WorkersEnd OwnSwept
CHECK_DEADLOCK FALSE
