SPECIFICATION Spec
CONSTANTS
    Threads = {t1, t2}
    Ids = {a}
    BadId = BadId
    NoId = NoId
    NoThread = NoThread
    MaxTtl = 2
    AbsorbFrom = 3
    MaxClock = 3
    MaxCalls = 2
SYMMETRY Symmetry
PROPERTIES
    ConsumedBeforeExpiry
