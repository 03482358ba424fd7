SPECIFICATION LoginSpec
CONSTANTS
    Secret = {k1, k2}
    Code = {c1, c2, c3, c4}
    BatchSize = 2
    Req = {r1, r2}
    Password = {p1, p2}
    PendingTtl = 0
    Leeway = 0
    MaxPending = 1
    MaxTime = 1
    None = None
SYMMETRY Symmetry
CONSTRAINTS PasswordsAreNew FewOverlaps
CHECK_DEADLOCK FALSE
INVARIANTS
    LoginTypeOK
    EnabledIsConfirmed
    ShownCodesWork
    SpentIsGone
    SecondFactorHeld
    GroundsHeld
