SPECIFICATION Spec
CONSTANTS
    Keys = {k1}
    Handlers = {h1, h2}
    MaxPerHour = 1
    WindowTTL = 2
    MaxCount = 4
    Faults <- ExpireErrors
    CrashAllowed = FALSE
    NoKey = NoKey
INVARIANT
    CounterHasTTL
