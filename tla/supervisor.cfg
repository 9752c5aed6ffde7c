SPECIFICATION Spec
CONSTANTS
    SECURITY = SECURITY
    INTEGRITY = INTEGRITY
    GOVERNANCE = GOVERNANCE
    OPERATIONS = OPERATIONS
    Roles <- FourRoles
    NotAnOpinion = NotAnOpinion
    None = None
    Raised = Raised
    Requests <- ActionRequests
    FirstPanels <- SmallPanels
    Menu <- LastOpinions
    GivenExtras <- SomeExtras
    MaxPanel = 4
INVARIANTS
    TypeOK
    HardStopAlwaysStops
    CandidateIsHarmless
    ZeroRiskOnlyThere
PROPERTIES
    EscalationNeverAdmits
    SentinelOnlyDescribes
