SPECIFICATION Spec
CONSTANTS
    Devices = {d1, d2}
    SessionIds = {s1, s2}
    Handlers = {h1, h2}
    DevAllowlist = {}
    FreeBumpsPerDay = 1
    ReservationTTL = 3
    CommittedSentinelTTL = 1
    CommitLockTTL = 2
    MaxCredits = 1
    Faults <- EveryFault
    CrashAllowed = TRUE
    RedisForgets = TRUE
    NoDevice = NoDevice
    NoSession = NoSession
SYMMETRY Interchangeable
INVARIANTS
    TypeOK
    FreeChargedAtMostOnce
    FreeOkMeansCharged
    CommittedMeansCharged
    PaidConserved
PROPERTY
    OvershootWindow
    ImplementsLedger
