SPECIFICATION HostSpec
CONSTANTS
    Handles = {h1, h2}
    Scopes = {s1}
    Nonces = {1, 2, 3, 4, 5, 6, 7, 8}
    Methods = {"grant", "value", "revoke", "lock", "status", "module"}
    Grants <- ValueGrant
    ApprovalLifetime = 1
    RateWindow = 9
    RateLimit = 9
    MaxAuthorities = 2
    MaxPending = 2
    MaxReplay = 3
    None = None
    MaxTime = 2
    MaxRevision = 2
    MaxGeneration = 2
    MaxSession = 2
    Setups <- AllSetups
SYMMETRY Symmetry
INVARIANTS HostTypeOK HostAgrees 
 
CHECK_DEADLOCK FALSE
