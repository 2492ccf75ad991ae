SPECIFICATION ReviewSpec
CONSTANTS
    Openings <- MCOpenings
    Holder = holder
    Newcomer = newcomer
    Recruiter = recruiter
    Officer = officer
    Requests = {1, 2}
    MaxAmendments = 2
    Documents = {d1}
    QRTokens = {t1, t2}
    None = None
    MaxCalls = 2
    MaxChecks = 2
    MaxSaves = 1
    Platforms = {"win32", "linux", "darwin"}
CHECK_DEADLOCK FALSE
INVARIANTS PendingAmendmentsReviewable
