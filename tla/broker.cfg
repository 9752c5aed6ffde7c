SPECIFICATION Spec
CONSTANTS
    Threads = {t1, t2}
    Ids = {a, b}
    BadId = BadId
    NoId = NoId
    NoThread = NoThread
    MaxTtl = 2
    AbsorbFrom = 2
    MaxClock = 2
    MaxCalls = 3
SYMMETRY Symmetry
INVARIANTS
    TypeOK
    ExpiredNeverEarly
    NoneExpiresAtBirth
    EachMintSettlesOnce
    NothingStaleUnderLock
PROPERTIES
    StoredMintsAreReturned
    ImplementsLedger
