SPECIFICATION Spec
CONSTANTS
    Scanners = {s1, s2}
    Tokens = {t1}
    Identities = {i1}
    ScopeChoices <- MCScopeChoices
    Durations = {1}
    MaxTime = 1
    MaxAnswers = 2
    SharedRecords = FALSE
    StoreMayFail = FALSE
    AuditMayFail = FALSE
    NoToken = NoToken
SYMMETRY Symmetric
INVARIANT AtMostOneDisclosure
