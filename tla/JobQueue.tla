------------------------------ MODULE JobQueue ------------------------------
(***************************************************************************)
(* What the job runner promises while nobody interferes with it: a job is  *)
(* submitted, waits, is enqueued when all its channels have room, is run   *)
(* once, and is done, failed or back in the queue.                         *)
(***************************************************************************)
EXTENDS Integers, FiniteSets

CONSTANTS
    Jobs,           \* the jobs
    Downstream,     \* Downstream[c]: c and the channels it flows into
    Room,           \* Room[c]: the capacity of channel c, 0 for no limit
    ChannelOfJob    \* the channel of each job

VARIABLE status     \* status[j]: the life of the job j

Statuses == {"absent", "waiting", "enqueued", "running", "done", "failed", "deleted"}

TypeOK == status \in [Jobs -> Statuses]

\* The jobs that take a place of channel c
Occupants(c) ==
    {j \in Jobs : c \in Downstream[ChannelOfJob[j]] /\ status[j] \in {"enqueued", "running"}}

HasRoom(c) == Room[c] = 0 \/ Cardinality(Occupants(c)) < Room[c]

Become(j, from, to) == status[j] = from /\ status' = [status EXCEPT ![j] = to]

Init == status = [j \in Jobs |-> "absent"]

Submit(j) == Become(j, "absent", "waiting")

\* The job gets a place in all the channels downstream at once.
Enqueue(j) ==
    /\ \A c \in Downstream[ChannelOfJob[j]] : HasRoom(c)
    /\ Become(j, "waiting", "enqueued")

\* The job could not be run: it goes back to the queue.
GiveBack(j) == Become(j, "enqueued", "waiting")

Run(j) == Become(j, "enqueued", "running")

Finish(j) == \E to \in {"done", "failed", "waiting"} : Become(j, "running", to)

Forget(j) == Become(j, "done", "deleted")

Next ==
    \E j \in Jobs : Submit(j) \/ Enqueue(j) \/ GiveBack(j) \/ Run(j) \/ Finish(j) \/ Forget(j)

Spec == Init /\ [][Next]_status

=============================================================================
