SPECIFICATION Spec
CONSTANTS
    User = {u1}
    Sid = {s1, s2}
    Token = {t1, t2, t3, t4}
    Req = {r1, r2}
    RefreshTtl = 1
    MaxTime = 2
    None = None
SYMMETRY Symmetry
CHECK_DEADLOCK FALSE
INVARIANTS
    TypeOK
    SingleUse
    CurrentHashIsLive
    LateIsRefused
    AlarmIsJustifiedAndFinal
PROPERTY ImplementsContract
