CONSTANTS
    u1 = u1
    u2 = u2
    Users = {u1, u2}
    Present = {u1}
    Audiences <- Lists
    Mailer = FALSE
    Concurrency = 2
    Attempts = 2
    MaxStalls = 1
    MaxTroubles = 2

SPECIFICATION Spec

INVARIANT SentMeansMailed

CHECK_DEADLOCK FALSE
