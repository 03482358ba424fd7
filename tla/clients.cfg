SPECIFICATION ClientsSpec
CONSTANTS
    User = {u1}
    Sid = {s1}
    Token = {t1, t2, t3}
    Req = {r1, r2}
    RefreshTtl = 0
    MaxTime = 1
    None = None
    Client = {c1, c2}
    Serial = {c1}
    MaxCalls = 2
CHECK_DEADLOCK FALSE
INVARIANTS
    ClientsTypeOK
    InStepUnlessCut
    AlarmNeedsCrossing
    SerialCrossesOnlyWhenCut
PROPERTY RefreshReturns
