CONSTANTS
    a = a
    b = b
    NONE = NONE
    RegisteredWorkers <- MCWorkers
    Schedule <- MCSchedule
    CandidateSeq <- MCCandidateSeq
    DayLength = 8
    PrivateVehicles = {"own"}
    IncidentDay = 0
    LedgerItems <- MCLedgerItems
    Worlds <- MCWorlds
    MaxEdits = 1
SPECIFICATION AuthoritySpec
INVARIANT EvaluationNeverRaises
INVARIANT HonestEvidenceAccepted
PROPERTY ActIsAuthorised
PROPERTY ApprovalNeverCures
