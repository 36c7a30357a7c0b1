CONSTANTS
    None = None
    Gone = Gone
    P = P
    C = C
    N1 = N1
    N2 = N2
    N3 = N3
    E = E
    F = F
    X1 = X1
    X2 = X2
    W1 = W1
    W2 = W2
    MaxShop = 1
    MaxBatch = 1
    MaxUser = 2
    MaxCrash = 1
    MaxTotal = 3
    MaxTime = 2
    Buffer = 1
    MagentoIds <- MCMagentoIds
    Shop <- MCShop
    Bindings <- MCBindings
    Products <- MCProducts
    Born <- MCBorn
    Waiting <- MCWaiting
    Workers <- MCWorkers
    Linked <- MCLinked
    Category <- MCCategory
    Parent <- MCParent
    Allowance <- MCAllowance
SYMMETRY WorkerSymmetry
SPECIFICATION Spec
CHECK_DEADLOCK FALSE
INVARIANTS
    NoLostChange
    OneJobAtRecord
