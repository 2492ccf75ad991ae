SPECIFICATION Spec
CONSTANTS
    Clients = {c1, c2}
    Requests = {r1}
    Identities = {i1, i2}
    IdentityStatuses <- MCStatuses
    ScopeChoices <- MCOneScopeChoice
    StoreMayFail = TRUE
    NoRequest = NoRequest
SYMMETRY Symmetric
INVARIANTS TypeOK ApprovedHasResult ResultsAuthorised EventsFollowDecision
PROPERTY ImplementsContract
