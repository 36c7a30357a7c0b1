---------------------------- MODULE MCJobRunner ----------------------------
(* Two jobs of one channel below the root and two requests in flight.      *)
EXTENDS JobRunner, TLC

CONSTANTS A, J1, J2, R1, R2,
    RootCapacity, ACapacity,                    \* the configured capacities
    MaxUser, MaxVacuum, MaxError, MaxTimeout, MaxException, MaxCrash


MCChannels == {Root, A}
MCParent == [c \in {A} |-> Root]
MCPath == [c \in MCChannels |-> {c, Root}]
MCCapacity == [c \in MCChannels |-> IF c = Root THEN RootCapacity ELSE ACapacity]
MCChannelOf == [u \in Uuids |-> A]
MCPriority == [u \in Uuids |-> 10]
MCSeqOf == [u \in Uuids |-> IF u = J1 THEN 1 ELSE 2]
MCRequests == {R1, R2}

\* The two requests in flight have no identity of their own.
RequestSymmetry == Permutations(MCRequests)

MCAllowance ==
    [kind \in Perturbations |->
        CASE kind = "user" -> MaxUser
          [] kind = "vacuum" -> MaxVacuum
          [] kind = "error" -> MaxError
          [] kind = "timeout" -> MaxTimeout
          [] kind = "exception" -> MaxException
          [] kind = "crash" -> MaxCrash]

=============================================================================
