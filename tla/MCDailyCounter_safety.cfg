SPECIFICATION Spec
CONSTANTS
    Devices = {d1}
    Handlers = {h1, h2}
    Day = 8
    MaxDelay = 3
    MaxTime = 25
    MaxCharges = 3
    NoDevice = NoDevice
SYMMETRY Interchangeable
INVARIANTS
    TypeOK
    ResetsAtMidnight
    ChargesCountAllDay
    OutlivesByDelay
