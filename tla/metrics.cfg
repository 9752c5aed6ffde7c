SPECIFICATION Spec
CONSTANTS
    first = first
    second = second
    Roles = {}
    NotAnOpinion = NotAnOpinion
    None = None
    Raised = Raised
    Keys <- Attempts
    Menu <- FewRecords
    NotARecord = NotARecord
    MaxRecords = 4
SYMMETRY Symmetry
INVARIANTS
    TypeOK
    OnlyTheSetCounts
    KeysAreIndependent
PROPERTIES
    StaleRecordsChangeNothing
    OutcomesOnlyAddDoubt
