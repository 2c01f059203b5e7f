SPECIFICATION Spec
CONSTANTS
    None = None
    Worlds <- MCWorlds
    Second = 2
    Horizon = 16
    MaxEvaluated = 4
    MaxModified = 3
INVARIANTS
    FeasibleMeansFeasible
    ExhaustionHonest
PROPERTIES
    SearchConcludes
CHECK_DEADLOCK FALSE
