SPECIFICATION Spec
CONSTANTS
    MaxIdLength = 4
    Threads = {t1}
    Recorders = {r1}
    Names <- OddNames
    NoThread = NoThread
    MaxRecords = 2
    MaxCrashes = 0
INVARIANTS
    OnlyIdsOnDisk
