SPECIFICATION ReplanSpec
CONSTANTS
    None = None
    Processes = {p1, p2}
    Worlds <- MCWorlds
    Requests <- MCRequests
    ArrivalTimes = {3, 6}
    MaxEdits = 1
    MaxProposals = 2
    MaxCalls = 3
INVARIANTS
    GateAgreesWithProposal
    CalendarIsAppliedHistory
    ProposalIsFeasible
PROPERTIES
    ReplanGateDecidesOnce
    ClaimsSettle
CHECK_DEADLOCK FALSE
