CONSTANTS
    Requests = {r1, r2}
    Rate = 1
    RateWindow = 1
    Threshold = 2
    FailWindow = 1
    BlockFor = 1
    Ttl = 1
    Patience = 1
    Permanent = Permanent
    Terms = {4}
    MaxNow = 3
    MaxAttempts = 3
SPECIFICATION Spec
SYMMETRY Symm
CHECK_DEADLOCK FALSE
INVARIANT TypeOK
INVARIANT ChecksBounded
PROPERTY BlockBites
