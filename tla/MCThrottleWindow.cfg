CONSTANTS
    Instances = {i1, i2}
    THROTTLE_TTL = 3
    THROTTLE_LIMIT = 2
    MaxTime = 7
    MaxHits = 7
SPECIFICATION Spec
INVARIANTS
    TypeOK
    AdmittedBounded
    RefusedForCause
SYMMETRY Symmetry
CHECK_DEADLOCK FALSE
