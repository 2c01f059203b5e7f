SPECIFICATION DeployedSpec
CONSTANTS
    None = None
    w1 = w1
    w2 = w2
    cA = cA
    cB = cB
    k1 = k1
    Companies = {cA, cB}
    Workers = {w1, w2}
    FirstWorkers = {w1}
    Subjects = {"boss", "ann"}
    Keys = {k1}
    References = {h1, h2, h3}
    Scopes <- MCScopes
    Times = {t1}
    Statuses = {"FREELY_GIVEN", "REVOKED"}
SYMMETRY ReferenceSymmetry
INVARIANTS
    ConsentIsLastWord
    OneActionPerCapture
    EvidenceStaysReadable
CHECK_DEADLOCK FALSE
