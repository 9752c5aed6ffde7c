SPECIFICATION Spec
CONSTANTS
    SECURITY = SECURITY
    INTEGRITY = INTEGRITY
    GOVERNANCE = GOVERNANCE
    Roles <- FewRoles
    NotAnOpinion = NotAnOpinion
    None = None
    Raised = Raised
    Baselines <- BandBaselines
    Settings = {"DISPOSABLE", "PRODUCTION"}
    Menu <- Opinionated
    MaxPanel = 4
SYMMETRY Symmetry
INVARIANTS
    IneligibleNeverCounted
