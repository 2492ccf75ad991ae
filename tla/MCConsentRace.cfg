SPECIFICATION Spec
CONSTANTS
    Clients = {c1, c2}
    Requests = {r1}
    Identities = {i1}
    IdentityStatuses <- MCStatuses
    ScopeChoices <- MCScopeChoices
    StoreMayFail = FALSE
    NoRequest = NoRequest
SYMMETRY Symmetric
INVARIANT DeniedHasNoResult
