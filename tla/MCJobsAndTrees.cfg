CONSTANTS
    u1 = u1
    u2 = u2
    Users = {u1, u2}
    Present = {u1}
    Audiences <- Lists
    Mailer = TRUE
    Concurrency = 2
    Attempts = 2
    MaxStalls = 1
    MaxTroubles = 2
    Slots = {h1, h2}
    MaxTree = 3
    Sites = {s1}
    Levels = 2
    MaxModules = 3
    FlagRows <- Chains
    MaxFlags = 2

SPECIFICATION DesksSpec

INVARIANTS
    TypeOK
    RepeatsBounded
    DoneMeansTold
    EmailRowsExplained
    FlagsAnswered

PROPERTIES
    JobsSettle
    TreeKeepsTwoLevels
    ModulesInOrder
    WalksEnd

CHECK_DEADLOCK FALSE
