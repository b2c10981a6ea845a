SPECIFICATION MCSpec
CONSTANTS
    r1 = r1
    r2 = r2
    old = old
    new = new
    b = b
    arabic = arabic
    Runs = {r1, r2}
    Files = {1, 2, 3}
    Pdfs = {2}
    Unreadable = {3}
    Chunks = {old, new, b, arabic}
    Worded = {old, new, b}
    Contents <- MCContents
    Count <- MCCount
    Okapi <- MCOkapi
    Similarity <- MCSimilarity
    TopK = 1
    HasGraph = TRUE
    MaxEdits = 2
CHECK_DEADLOCK FALSE
INVARIANTS
    EvidenceWasCurrent
    NothingBetterLeftOut
    NotFoundIsTrue
PROPERTIES
    FailsOnlyForCause
    RunsEnd
