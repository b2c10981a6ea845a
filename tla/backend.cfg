SPECIFICATION MCSpec
CONSTANTS
    p1 = p1
    p2 = p2
    u1 = u1
    u2 = u2
    g1 = g1
    g2 = g2
    f1 = f1
    v1 = v1
    a1 = a1
    q1 = q1
    k1 = k1
    k2 = k2
    n1 = n1
    NoOne = NoOne
    Cases = {c1, c2}
    Seeded = {c1}
    Requests = {n1, u1, p1, g1, g2, f1, v1, a1, q1, k1, k2}
    Endpoint <- MCEndpoint
CHECK_DEADLOCK FALSE
INVARIANTS
    TypeOK
    PlanVersionsConsecutive
    StatusJustified
    HandlersCurrent
    SemanticKeysUnique
    ProcessedHasExtraction
    CompletedRunHasPlan
    QuestionFollowsRun
    RunningExplained
PROPERTIES
    ReadyOnlyAfterUpload
    ImplementsLedger
    RequestsEnd
