SPECIFICATION Spec
CONSTANTS
    Keys = {k1}
    Handlers = {h1, h2, h3}
    MaxPerHour = 1
    WindowTTL = 2
    MaxCount = 4
    Faults <- EveryFault
    CrashAllowed = TRUE
    NoKey = NoKey
SYMMETRY Interchangeable
INVARIANTS
    TypeOK
    WindowCap
    HourCap
    OnlyFailuresOrphan
