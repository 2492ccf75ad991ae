SPECIFICATION Spec
CONSTANTS
    Faces <- MCFaces
    Similarity <- MCSimilarity
    f1 = f1
    f2 = f2
    None = None
    Regs = {r1, r2}
    Emails = {e1, e2}
    ProfileChoices <- MCProfileChoices
    EkaIDs = {k1, k2}
    MaxRetries = 2
    MaxAttempts = 1
    MaxIssues = 2
    DevMode = TRUE
    CallsMayFail = TRUE
    AuditMayFail = FALSE
SYMMETRY Symmetric
CHECK_DEADLOCK FALSE
INVARIANTS FlaggedAsDocumented
