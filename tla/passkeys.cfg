SPECIFICATION Spec
CONSTANTS
    User = {u1, u2}
    RegChallenge = {g1, g2}
    LoginChallenge = {h1, h2}
    Cred = {k1}
    Req = {r1, r2}
    Ttl = 1
    MaxTime = 1
    MaxCounter = 2
    None = None
SYMMETRY Symmetry
CHECK_DEADLOCK FALSE
INVARIANTS
    TypeOK
    ReplacedRegistersNothing
    LateIsRefused
PROPERTIES
    ImplementsContract
    CounterFallsOnlyWhenOvertaken
