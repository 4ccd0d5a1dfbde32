SPECIFICATION Spec
CONSTANTS
    r1 = r1  r2 = r2  d1 = d1  d2 = d2  c1 = c1  c2 = c2
    u1 = u1  u2 = u2  s1 = s1  s2 = s2
    Handlers = {r1, r2}
    Devices = {d1, d2}
    Bundles = {b1}
    Contents = {c1}
    Length <- MC_Length
    MaxSize = 2
    MaxChunk = 1
    Decls <- MC_Decls
    UploadIds = {u1, u2}
    SessionIds = {s1, s2}
    Times = {1}
    ParseSlots = 1
    NoRow = NoRow  NoFile = NoFile  NoId = NoId  NoReq = NoReq
    NoReply = NoReply  Hole = Hole
VIEW MC_View
SYMMETRY MC_Symmetry
INVARIANTS IndInv
PROPERTIES OnlyOwner
