SPECIFICATION FairSpec
CONSTANTS
    Devices = {d1, d2}
    SessionIds = {s1, s2}
    Handlers = {h1, h2}
    DevAllowlist = {d2}
    FreeBumpsPerDay = 1
    ReservationTTL = 3
    CommittedSentinelTTL = 1
    CommitLockTTL = 2
    MaxCredits = 1
    Faults <- CallErrors
    CrashAllowed = TRUE
    RedisForgets = TRUE
    NoDevice = NoDevice
    NoSession = NoSession
INVARIANT
    ErrorMeansNotCharged
PROPERTY
    ChargesSettle
