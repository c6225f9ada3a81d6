CONSTANTS
    Desks = {"accounts", "inbox", "comments", "administration", "profiles"}
    Requests = {r1}
    Endpoints = {"login", "refresh", "logout", "logoutAll", "resendOtp", "requestChange", "sendPhoneOtp", "verifyEmail", "verifyPhone", "confirmChange", "changePassword", "forgotPassword", "resetPassword", "revokeById", "clean", "updateProfile", "updateUser", "setPassword"}
    Passwords = {pw1, pw2}
    OtpMax = 2
    MaxSessions = 2
    MaxClock = 2
    MaxSecrets = 3
    MaxRows = 2
    Slots = {h1, h2}
    u1 = u1
    u2 = u2
    People = {u1, u2}
    Authors = {u1}
    Audience = {u1, u2}
    Mutings = {{"tasks"}}
    Toggled = {"task_assigned"}
    MaxEvents = 2
    MaxComments = 2
    Staff = {u1, u2}
    Root = u1
    MaxFiles = 2
    p1 = p1
    p2 = p2
    Places = {p1, p2}
    Seeded = {p1}
    Values = {"v"}
    Imports <- Lists
    MaxTexts = 1
    Keys = {"k1", "k2"}
    Shipped = {"k1"}
    Choices = {"v", "w"}
    Providers = {local, s3}
    Local = local
    MaxVersion = 1
    MaxSecret = 0
SPECIFICATION ServicesSpec
SYMMETRY Symm
CHECK_DEADLOCK FALSE
INVARIANT EveryoneToldOnce
INVARIANT CommentsAnnounced
PROPERTY CodesMoveForward
PROPERTY NoticesMoveForward
PROPERTY ListingsHideNothing
PROPERTY SomebodyAdministers
PROPERTY PhotosKept
