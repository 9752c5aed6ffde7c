SPECIFICATION Spec
CONSTANTS
    Roles = {}
    NotAnOpinion = NotAnOpinion
    None = None
    Raised = Raised
    Thresholds = {0, 1, 2}
    MaxHappenings = 4
    MaxKept = 3
INVARIANTS
    TypeOK
    InactivityIsReal
    ProgressIffReal
    SwappedPairTellsNothing
    ChainsAgree
