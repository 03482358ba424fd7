SPECIFICATION Spec
CONSTANTS
    Password = {p1, p2}
    Sid = {s1, s2, s3}
    ResetToken = {t1}
    Req = {r1, r2}
    ListLimit = 2
    None = None
SYMMETRY Symmetry
CHECK_DEADLOCK FALSE
INVARIANTS
    TypeOK
    SupersededIsExcused
    DeletedIsExcused
    ResetTokenOnceUnlessOverlapped
