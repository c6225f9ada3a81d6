CONSTANTS
    Requests = {r1, r2}
    Endpoints = {"login", "verifyEmail", "changePassword"}
    Passwords = {p1, p2}
    OtpMax = 1
    MaxSessions = 1
    MaxClock = 1
    MaxSecrets = 1
    MaxRows = 2
SPECIFICATION Spec
CHECK_DEADLOCK FALSE
PROPERTY PasswordChangesStick
