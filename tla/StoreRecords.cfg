CONSTANTS
    Clients = {c1, c2}
    Workflows = {w1, w2}
    Accounts = {}
    Children = {e1}
    Protected = {k1}
    LeaseLimit = 1
    None = None
    MaxCommits = 3
SPECIFICATION Spec
SYMMETRY Symmetry
INVARIANTS
    TypeOK
PROPERTIES
    NoLostWorkflowUpdate
    AssertionSpentOnce
    GuardFencesWorkflow
    NoLostProtectedUpdate
