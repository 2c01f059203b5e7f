SPECIFICATION EvaluationSpec
CONSTANTS
    NONE = NONE
    Companies = {north, south}
    PlanDay <- MCPlanDay
    TaskRoot <- MCTaskRoot
    Assignment <- MCAssignment
    Published <- MCPublished
    InitialJobs = {"j1"}
    Contents <- MCContents
    MaxRevisions = 3
    MaxEdits = 2
    MaxInputs = 1
INVARIANTS
    StoredPlanReadable
    ImpactIsReachability
PROPERTIES
    RecordedInputIsCurrent
SYMMETRY Plans
CHECK_DEADLOCK FALSE
