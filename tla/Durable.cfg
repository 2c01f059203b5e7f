SPECIFICATION FairScenarioSpec
CONSTANTS
    None = None
    Plays = {"requests", "hydration", "evidence", "reuse"}
    Workers <- MCWorkers
    Jobs = {"j1"}
    Tasks = {"crew", "single"}
    Stages = {"g1", "g2"}
    Assignments = {"aCrew", "aSingle"}
    PlanDays <- MCPlanDays
    Directives = {"act1", "act2", "stop4"}
    TaskDef <- MCTaskDef
    StageTask <- MCStageTask
    AsgDef <- MCAsgDef
    DayDef <- MCDayDef
    DirDef <- MCDirDef
    FieldInputs <- DurableInputs
    Signals <- DurableSignals
    Contexts <- RuleContexts
    Clients = {c1, c2}
    c1 = c1
    c2 = c2
    MaxCrashes = 1
INVARIANTS
    OneAnswerPerInput
    CompletionIsAtomic
    ServerIdOwnedOnce
    EvidenceRegistered
    StorableIsProcessable
PROPERTIES
    FirstAcceptanceStands
    StorableIsCompleted
    ImplementsFieldState
