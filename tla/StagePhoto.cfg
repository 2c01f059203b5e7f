SPECIFICATION ScenarioSpec
CONSTANTS
    None = None
    Plays = {"stagePhoto"}
    Workers <- MCWorkers
    Jobs = {"j1"}
    Tasks = {"crew"}
    Stages = {"g1", "g2"}
    Assignments = {"aCrew"}
    PlanDays <- MCPlanDays
    Directives = {}
    TaskDef <- MCTaskDef
    StageTask <- MCStageTask
    AsgDef <- MCAsgDef
    DayDef <- MCDayDef
    DirDef <- MCDirDef
    FieldInputs <- StagePhotoInputs
    Signals = {}
    Contexts <- OneContext
    Clients = {c1}
    c1 = c1
    MaxCrashes = 0
INVARIANTS
    AcceptedIsProcessable
