CONSTANTS
    Desks = {"sessions", "passwords", "texts", "storage", "activations", "settings"}
    Requests = {r1, r2}
    Endpoints = {"login", "refresh", "logout", "logoutAll", "verifyEmail", "changePassword", "forgotPassword", "resetPassword", "requestChange", "confirmChange"}
    Passwords = {pw1, pw2}
    OtpMax = 1
    MaxSessions = 2
    MaxClock = 2
    MaxSecrets = 2
    MaxRows = 4
    Slots = {h1, h2}
    u1 = u1
    u2 = u2
    People = {u1, u2}
    Authors = {u1}
    Audience = {u1, u2}
    Mutings = {{"tasks"}}
    Toggled = {"task_assigned"}
    MaxEvents = 0
    MaxComments = 0
    Staff = {u1, u2}
    Root = u1
    MaxFiles = 0
    p1 = p1
    p2 = p2
    Places = {p1, p2}
    Seeded = {p1}
    Values = {"v"}
    Imports <- Lists
    MaxTexts = 2
    Keys = {"k1", "k2"}
    Shipped = {"k1"}
    Choices = {"v", "w"}
    Providers = {local, s3}
    Local = local
    MaxVersion = 2
    MaxSecret = 0
SPECIFICATION ServicesSpec
SYMMETRY Symm
CHECK_DEADLOCK FALSE
INVARIANT TypeOK
INVARIANT SessionBound
PROPERTY OnlyLoginSignsIn
PROPERTY OnlyOvertakenUndo
PROPERTY CachesAgree
PROPERTY ActivationTakesEffect
