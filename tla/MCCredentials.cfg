CONSTANTS
    Desks = {"storage"}
    Requests = {r1}
    Endpoints = {"login", "refresh", "logout", "logoutAll", "resendOtp", "requestChange", "sendPhoneOtp", "verifyEmail", "verifyPhone", "confirmChange", "changePassword", "forgotPassword", "resetPassword", "revokeById", "clean"}
    Passwords = {pw1}
    OtpMax = 2
    MaxSessions = 2
    MaxClock = 2
    MaxSecrets = 4
    MaxRows = 3
    Slots = {h1}
    u1 = u1
    u2 = u2
    People = {u1, u2}
    Authors = {u1}
    Audience = {u1, u2}
    Mutings = {{"tasks"}}
    Toggled = {"task_assigned"}
    MaxEvents = 0
    MaxComments = 0
    Staff = {u1, u2}
    Root = u1
    MaxFiles = 0
    p1 = p1
    p2 = p2
    Places = {p1, p2}
    Seeded = {p1}
    Values = {"v"}
    Imports <- Lists
    MaxTexts = 1
    Keys = {"k1", "k2"}
    Shipped = {"k1"}
    Choices = {"v", "w"}
    Providers = {local, s3}
    Local = local
    MaxVersion = 3
    MaxSecret = 2
SPECIFICATION ServicesSpec
CHECK_DEADLOCK FALSE
INVARIANT CredentialsReadable
