CONSTANTS
    Clients = {c1, c2}
    Workflows = {}
    Accounts = {a1}
    Children = {e1, e2}
    Protected = {}
    LeaseLimit = 1
    None = None
    MaxCommits = 4
SPECIFICATION Spec
SYMMETRY Symmetry
PROPERTIES
    LeaseFencesSet
