CONSTANTS
    None = None
    J1 = J1
    W1 = W1
    W2 = W2
    W3 = W3
    MaxUser = 1
    MaxCrash = 1
    MaxStall = 1
    MaxRetry = 1
    MaxBroken = 1
    MaxTotal = 2
    Jobs <- MCJobs
    Workers <- MCWorkers
    Running <- MCRunning
    Allowance <- MCAllowance
SPECIFICATION FairSpec
INVARIANTS
    WorkCommittedOnce
    NoJobForgotten
    OneWorkerAtWork
PROPERTY
    EveryJobEnds
CHECK_DEADLOCK FALSE
