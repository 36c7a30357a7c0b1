CONSTANTS
    Root = Root
    A = A
    J1 = J1
    J2 = J2
    R1 = R1
    R2 = R2
    NoJob = NoJob
    NotCreated = NotCreated
    Deleted = Deleted
    NoRequest = NoRequest
    Uuids = {J1}
    Channels <- MCChannels
    Parent <- MCParent
    Path <- MCPath
    Capacity <- MCCapacity
    Sequential = {}
    Requests <- MCRequests
    ChannelOf <- MCChannelOf
    Priority <- MCPriority
    SeqOf <- MCSeqOf
    Allowance <- MCAllowance
    RootCapacity = 1
    ACapacity = 2
    Unreadable = {}
    MaxRetries = 2
    MaxTime = 1
    MaxUser = 1
    MaxVacuum = 0
    MaxError = 1
    MaxTimeout = 1
    MaxException = 0
    MaxCrash = 0
SPECIFICATION FairSpec
INVARIANTS
    NoStaleJob
PROPERTIES
    EventuallySettled
