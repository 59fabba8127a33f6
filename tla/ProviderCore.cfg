SPECIFICATION Spec
CONSTANTS
    Handles = {h1, h2, h3}
    Scopes = {s1}
    Nonces = {n1, n2}
    Methods = {"value", "status"}
    Grants <- ValueOnly
    ApprovalLifetime = 1
    RateWindow = 1
    RateLimit = 1
    MaxAuthorities = 2
    MaxPending = 1
    MaxReplay = 2
    None = None
    MaxTime = 2
    MaxRevision = 2
    MaxGeneration = 2
    MaxSession = 1
SYMMETRY Symmetry
INVARIANTS TypeOK LivePromptKeepsNonce TablesBounded
PROPERTIES ApprovedAsAsked GenerationsOnlyRise
