SPECIFICATION Spec
CONSTANTS
    u1 = u1
    User = {u1}
    Sid = {s1}
    Jti = {j1, j2}
    Req = {r1, r2}
    Owner <- MCOwner
    AccessTtl = 1
    Leeway = 1
    BlacklistTtl = 1
    MayFail = TRUE
    MaxTime = 3
    None = None
SYMMETRY Symmetry
CHECK_DEADLOCK FALSE
INVARIANTS
    TypeOK
    ListedIsRefusedForItsTtl
    DeletedIsRefused
    RevocationFades
