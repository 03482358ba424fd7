SPECIFICATION Spec
CONSTANTS
    Email = {e1}
    Ip = {i1, i2}
    Req = {r1, r2}
    MaxFailed = 2
    Base = 2
    Window = 2
    Cap = 5
    MaxTime = 3
SYMMETRY Symmetry
CHECK_DEADLOCK FALSE
INVARIANTS
    TypeOK
    RecordedFailuresAreBounded
    LockNeedsRecentFailure
