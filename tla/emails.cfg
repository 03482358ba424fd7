SPECIFICATION Spec
CONSTANTS
    User = {u1, u2}
    Address = {a1, a2}
    Token = {t1, t2}
    Req = {r1, r2}
    OwnerEmail = a1
    None = None
SYMMETRY Symmetry
CHECK_DEADLOCK FALSE
INVARIANTS
    TypeOK
    VerifiedWasMailed
    DeletedIsAnonymousUnlessOverlapped
    OneOwnerUnlessMisled
