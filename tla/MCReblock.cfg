CONSTANTS
    Requests = {r1}
    Rate = 2
    RateWindow = 1
    Threshold = 2
    FailWindow = 2
    BlockFor = 1
    Ttl = 1
    Patience = 1
    Permanent = Permanent
    Terms = {Permanent, 1}
    MaxNow = 3
    MaxAttempts = 2
SPECIFICATION Spec
CHECK_DEADLOCK FALSE
PROPERTY BlockTakesEffect
