SPECIFICATION TimelySpec
CONSTANTS
    Devices = {d1}
    SessionIds = {s1, s2}
    Handlers = {h1, h2}
    DevAllowlist = {}
    FreeBumpsPerDay = 0
    ReservationTTL = 6
    CommittedSentinelTTL = 1
    CommitLockTTL = 3
    MaxCredits = 2
    Faults <- HarmlessFaults
    CrashAllowed = FALSE
    RedisForgets = FALSE
    NoDevice = NoDevice
    NoSession = NoSession
    CommitBudget = 1
SYMMETRY Interchangeable
INVARIANTS
    PaidChargedAtMostOnce
    CommitExclusive
    StaleReadIsHarmless
    PaidOkAccounted
