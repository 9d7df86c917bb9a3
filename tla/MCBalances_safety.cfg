SPECIFICATION BalancesSpec
CONSTANTS
    Handlers = {h1}
    Devices = {d1, dev}
    DevAllowlist = {dev}
    FreeBumpsPerDay = 1
    MaxUsed = 2
    MaxPaid = 1
    Outages = {"redis", "database"}
    NoDevice = NoDevice
CHECK_DEADLOCK FALSE
INVARIANTS
    TypeOK
    ServesOnlyChecked
    FailsOnlyWhenStopping
    BalancesTypeOK
    ShownWasTrue
    NothingOverstated
    SessionMatchesBalance
PROPERTY
    Stops
