CONSTANTS
    Evidence = {e1}
    SpendEvidence = {e1}
    None = None
    MaxGeneration = 1
    MaxUnscoped = 5
    MaxCrashes = 1
SPECIFICATION FairExecSpec
CHECK_DEADLOCK FALSE
PROPERTIES
    RedeemedSwapCompletes
