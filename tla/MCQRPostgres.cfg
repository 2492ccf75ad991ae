SPECIFICATION Spec
CONSTANTS
    Scanners = {s1, s2}
    Tokens = {t1}
    Identities = {i1}
    ScopeChoices <- MCScopeChoices
    Durations = {1}
    MaxTime = 2
    MaxAnswers = 3
    SharedRecords = FALSE
    StoreMayFail = TRUE
    AuditMayFail = FALSE
    NoToken = NoToken
SYMMETRY Symmetric
INVARIANTS TypeOK NoSequentialReplay DisclosureJustified
PROPERTY ImplementsContract
