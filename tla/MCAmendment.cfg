SPECIFICATION Spec
CONSTANTS
    old = old
    new = new
    newer = newer
    f1 = f1
    f2 = f2
    Reviews = {v1, v2, v3}
    Requests = {q1, q2}
    Docs = {d1}
    Fields = {f1, f2}
    Values = {old, new, newer}
    Blank = Blank
    Torn = Torn
    Initial <- MCInitial
    ChangeChoices <- MCChangeChoices
    NoRequest = NoRequest
    CallsMayFail = TRUE
SYMMETRY Symmetric
CHECK_DEADLOCK FALSE
INVARIANTS TypeOK ApprovedWasApplied ProfileFromApprovals VerifiedByApproval DecisionsLogged SharedAmendmentsStay
