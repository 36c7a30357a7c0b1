---------------------------- MODULE MCJobWorkers ---------------------------
(* One job, two processes, a third one when one of them dies.              *)
EXTENDS JobWorkers, TLC

CONSTANTS J1, W1, W2, W3, MaxUser, MaxCrash, MaxStall, MaxRetry, MaxBroken, MaxTotal

MCJobs == {J1}
MCWorkers == {W1, W2, W3}
MCRunning == {W1, W2}
MCAllowance ==
    [kind \in Perturbations |->
        CASE kind = "user" -> MaxUser
          [] kind = "crash" -> MaxCrash
          [] kind = "stall" -> MaxStall
          [] kind = "retry" -> MaxRetry
          [] kind = "broken" -> MaxBroken
          [] kind = "total" -> MaxTotal]
=============================================================================
