SPECIFICATION ScenarioSpec
CONSTANTS
    None = None
    Plays = {"exception"}
    Workers <- MCWorkers
    Jobs = {"j1"}
    Tasks = {"crew"}
    Stages = {}
    Assignments = {"aCrew"}
    PlanDays <- MCPlanDays
    Directives = {"act1"}
    TaskDef <- MCTaskDef
    StageTask <- MCStageTask
    AsgDef <- MCAsgDef
    DayDef <- MCDayDef
    DirDef <- MCDirDef
    FieldInputs <- ExceptionInputs
    Signals = {}
    Contexts <- OneContext
PROPERTIES
    ExceptedActionNotConfirmed
