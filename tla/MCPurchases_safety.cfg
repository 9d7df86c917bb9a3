SPECIFICATION FairSpec
CONSTANTS
    a1 = a1
    a3 = a3
    x1 = x1
    Devices = {d1, d2}
    GoogleTokens = {g1}
    AppleTokens <- AppleTexts
    Transactions <- Ids
    TransactionOf <- IdIn
    Handlers = {h1, h2}
    PoolSize = 2
    MaxSpent = 1
    Faults <- EveryFault
    CrashAllowed = TRUE
    NoDevice = NoDevice
    NoTransaction = NoTransaction
    NoToken = NoToken
    NoHandler = NoHandler
INVARIANTS
    TypeOK
    CreditsAreRecords
    GrantedOnce
    GoogleConfirmed
PROPERTY
    Answered
    ImplementsShop
