CONSTANTS
    P1 = P1
    P2 = P2
    I1 = I1
    I2 = I2
    Pickings <- MCPickings
    Invoices <- MCInvoices
    Manual <- MCManual
    CreateOn = "paid"
    MaxRunning = 2
    MaxRefs = 1
    MaxUnpaid = 1
    MaxCrashes = 1
    MaxBoth = 1
SPECIFICATION FairSpec
INVARIANTS
    BoundToItsOwn
    TrackSentOnce
PROPERTY
    TrackArrives
CHECK_DEADLOCK FALSE
