SPECIFICATION FairSpec
CONSTANTS
    MaxIdLength = 4
    Threads = {t1, t2, t3}
    Recorders = {r1, r2}
    Names <- FewNames
    NoThread = NoThread
    MaxRecords = 3
    MaxCrashes = 1
INVARIANTS
    TypeOK
    OneRecorderNeverInterleaves
    DamageIsLocal
PROPERTIES
    ImplementsJournal
    EveryRecordReturns
