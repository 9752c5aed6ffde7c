SPECIFICATION Spec
CONSTANTS
    SECURITY = SECURITY
    INTEGRITY = INTEGRITY
    GOVERNANCE = GOVERNANCE
    OPERATIONS = OPERATIONS
    Roles <- FourRoles
    NotAnOpinion = NotAnOpinion
    None = None
    Raised = Raised
    NotAScenario = NotAScenario
    Stale = Stale
    Torn = Torn
    MaxIdLength = 4
    Suites <- FewSuites
INVARIANTS
    TypeOK
    GateTellsTheTruth
    ExitZeroIsReported
