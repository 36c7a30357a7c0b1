CONSTANTS
    Root = Root
    A = A
    B = B
    J1 = J1
    J2 = J2
    J3 = J3
    NoJob = NoJob
    Uuids <- MCUuids
    Channels <- MCChannels
    Parent <- MCParent
    Path <- MCPath
    Capacity <- MCCapacity
    Sequential <- MCSequential
    Objects <- MCObjects
    Times <- MCTimes
SPECIFICATION ManagerSpec
INVARIANTS
    TreeInvariant
    FollowsDatabase
PROPERTIES
    NoIdleCapacity
