SPECIFICATION ScenarioSpec
CONSTANTS
    None = None
    Plays = {"directives", "day", "report"}
    Workers <- MCWorkers
    Jobs = {"j1"}
    Tasks = {"crew"}
    Stages = {}
    Assignments = {"aCrew"}
    PlanDays <- MCPlanDays
    Directives = {"act1", "act2", "info3", "stop4"}
    TaskDef <- MCTaskDef
    StageTask <- MCStageTask
    AsgDef <- MCAsgDef
    DayDef <- MCDayDef
    DirDef <- MCDirDef
    FieldInputs <- PlanInputs
    Signals <- PlanSignals
    Contexts <- TimedContexts
INVARIANTS
    DirectiveAnsweredOnce
    AvailabilityByGesture
