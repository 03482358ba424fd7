SPECIFICATION Spec
CONSTANTS
    Backends = {"memory", "redis"}
    Req = {r1, r2}
    Limit = 2
    Window = 2
    MaxTime = 3
    MaxHits = 3
SYMMETRY Symmetry
CHECK_DEADLOCK FALSE
INVARIANTS
    TypeOK
    
PROPERTY RefusedOnlyOverLimit
