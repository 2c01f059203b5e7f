SPECIFICATION OwnerSpec
CONSTANTS
    None = None
    r1 = r1
    r2 = r2
    gaps = gaps
    plan1 = plan1
    plan2 = plan2
    Processes = {p1, p2}
    Reports <- MCReports
    Complete <- MCComplete
    Risky = {}
    Jobs <- MCJobs
    PlansOf <- MCPlansOf
    StatusOf <- MCStatusOf
    MaxInstances = 2
    MaxGates = 2
INVARIANTS
    PricesShownOrWithdrawn
PROPERTIES
    OwnerGateDecidesOnce
    DecidedAsShown
CHECK_DEADLOCK FALSE
