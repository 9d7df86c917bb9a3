SPECIFICATION Spec
CONSTANTS
    Reporters = {r1, r2, r3}
    Reported = {d1, r1}
    Handlers = {h1, h2}
    Clients = {c1}
    Threshold = 2
    ConfigTTL = 2
    Faults <- EveryFault
    CrashAllowed = TRUE
    NoDevice = NoDevice
SYMMETRY Interchangeable
INVARIANTS
    TypeOK
    BlockedByEnough
    EnoughReportsBlock
    CopiesCatchUp
PROPERTY
    ReportedDevicesStayOut
