SPECIFICATION FairSpec
CONSTANTS
    Threads = {t1, t2, t3}
    Ids = {a}
    BadId = BadId
    NoId = NoId
    NoThread = NoThread
    MaxTtl = 1
    AbsorbFrom = 2
    MaxClock = 1
    MaxCalls = 2
PROPERTIES
    EveryCallReturns
