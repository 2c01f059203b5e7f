SPECIFICATION ScenarioSpec
CONSTANTS
    None = None
    Plays = {"crew", "evidence"}
    Workers <- MCWorkers
    Jobs = {"j1"}
    Tasks = {"crew", "single", "visit"}
    Stages = {"g1", "g2"}
    Assignments = {"aCrew", "aSingle", "aVisit"}
    PlanDays <- MCPlanDays
    Directives = {"stop4"}
    TaskDef <- MCTaskDef
    StageTask <- MCStageTask
    AsgDef <- MCAsgDef
    DayDef <- MCDayDef
    DirDef <- MCDirDef
    FieldInputs <- WorkInputs
    Signals = {}
    Contexts <- PolicyContexts
INVARIANTS
    TypeOK
    StopExceptionHolds
    DoneIsEarned
    RetryIsSilent
PROPERTIES
    SafeHoldPersists
