CONSTANTS
    Evidence = {e1, e2}
    SpendEvidence = {e1, e2}
    None = None
    MaxGeneration = 2
    MaxUnscoped = 4
    MaxCrashes = 1
SPECIFICATION FairExecSpec
CHECK_DEADLOCK FALSE
INVARIANTS
    LegSettledOnce
    SavedRecordLoads
    ClosedMeansSettled
    ExecTypeOK
    FundSecondOnce
    RowMatchesSession
    FundingIsRemembered
    RevealKeepsPreimage
PROPERTIES
    EvidenceIsKept
    FundedOnCurrentProof
    ImplementsSession
    RevealIsResumed
