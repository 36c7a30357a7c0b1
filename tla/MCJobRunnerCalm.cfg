CONSTANTS
    Root = Root
    A = A
    J1 = J1
    J2 = J2
    R1 = R1
    R2 = R2
    NoJob = NoJob
    NotCreated = NotCreated
    Deleted = Deleted
    NoRequest = NoRequest
    Uuids = {J1, J2}
    Channels <- MCChannels
    Parent <- MCParent
    Path <- MCPath
    Capacity <- MCCapacity
    Sequential = {}
    Requests <- MCRequests
    ChannelOf <- MCChannelOf
    Priority <- MCPriority
    SeqOf <- MCSeqOf
    Allowance <- MCAllowance
    RootCapacity = 1
    ACapacity = 2
    Unreadable = {}
    MaxRetries = 2
    MaxTime = 1
    MaxUser = 0
    MaxVacuum = 1
    MaxError = 1
    MaxTimeout = 0
    MaxException = 1
    MaxCrash = 1
SPECIFICATION Spec
INVARIANTS
    CapacityRespected
    CommittedOnce
    ViewFollowsRows
    IdleMeansBlocked
PROPERTIES
    ImplementsQueue
