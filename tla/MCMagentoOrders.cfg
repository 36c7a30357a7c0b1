CONSTANTS
    O1 = O1
    O2 = O2
    O3 = O3
    Chain <- MCChain
    NoOrder = NoOrder
    ImportRule <- MCRule
    HasJournal = TRUE
    MaxRunning = 2
    MaxUser = 1
    MaxCrashes = 1
SPECIFICATION FairSpec
INVARIANTS
    ParentFlagged
    OneOrderAtWork
    NotShownCanceled
PROPERTY
    CancelArrives
CHECK_DEADLOCK FALSE
