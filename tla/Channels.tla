------------------------------ MODULE Channels ------------------------------
(***************************************************************************)
(* The in-memory channel tree of the job runner (jobrunner/channels.py).   *)
(*                                                                         *)
(* ChannelManager.notify tells the tree the state a queue_job row has in   *)
(* the database; get_jobs_to_run is a generator that lets jobs flow from   *)
(* the queue of their channel down to the root, one free place at a time,  *)
(* and yields the ones that reach the root.  The runner is one thread:     *)
(* nothing else happens between two steps of the generator.                *)
(*                                                                         *)
(* A ChannelQueue and a SafeSet are sets here; module ChannelQueue shows   *)
(* that two heaps with lazy removal behave as such a set.                  *)
(***************************************************************************)
EXTENDS JobOrder, FiniteSets

CONSTANTS
    Uuids,          \* identifiers of jobs
    Channels,       \* the configured channels, Root included
    Root,           \* the root channel
    Parent,         \* Parent[c]: the channel c flows into, for c # Root
    Path,           \* Path[c]: c and all the channels downstream of it
    Capacity,       \* Capacity[c]: 0 stands for None and 0, "not capacity"
    Sequential,     \* the channels configured with "sequential"
    NoJob           \* the uuid is not in _jobs_by_uuid

ASSUME TreeAssumption ==
    /\ IsFiniteSet(Channels)
    /\ Root \in Channels
    /\ Parent \in [Channels \ {Root} -> Channels]
    /\ Path \in [Channels -> SUBSET Channels]
    /\ Path[Root] = {Root}
    /\ \A c \in Channels \ {Root} : /\ c \notin Path[Parent[c]]
                                    /\ Path[c] = {c} \cup Path[Parent[c]]

ASSUME ConfigAssumption ==
    /\ Capacity \in [Channels -> Nat]
    /\ Sequential \subseteq Channels
    /\ \A c \in Sequential : Capacity[c] = 1

PENDING == "pending"
ENQUEUED == "enqueued"
STARTED == "started"
DONE == "done"
FAILED == "failed"

States == {PENDING, ENQUEUED, STARTED, DONE, FAILED}

(***************************************************************************)
(* A ChannelJob.  Objects with the same fields are one object here: notify *)
(* never keeps two of them, it reuses the object whose fields are equal.   *)
(* seq stands for the pair (date_created, seq), which both grow with the   *)
(* creation of jobs.                                                       *)
(***************************************************************************)
ChannelJob == [uuid: Uuids, chan: Channels, eta: Nat, prio: Nat, seq: Nat]

ASSUME NoJobAssumption == NoJob \notin ChannelJob

VARIABLES
    jobs,       \* jobs[u]: ChannelManager._jobs_by_uuid
    queue,      \* queue[c]: Channel._queue
    running,    \* running[c]: Channel._running
    failed,     \* failed[c]: Channel._failed
    gen,        \* "active" while the generator get_jobs_to_run is consumed
    drained,    \* the channels whose own get_jobs_to_run has returned
    asof        \* the "now" the generator was called with

chvars == <<jobs, queue, running, failed, gen, drained, asof>>

sets == <<queue, running, failed>>

TypeOK ==
    /\ jobs \in [Uuids -> ChannelJob \cup {NoJob}]
    /\ \A u \in Uuids : jobs[u] # NoJob => jobs[u].uuid = u
    /\ queue \in [Channels -> SUBSET ChannelJob]
    /\ running \in [Channels -> SUBSET ChannelJob]
    /\ failed \in [Channels -> SUBSET ChannelJob]
    /\ gen \in {"idle", "active"}
    /\ drained \subseteq Channels
    /\ asof \in Nat

ChannelsInit ==
    /\ jobs = [u \in Uuids |-> NoJob]
    /\ queue = [c \in Channels |-> {}]
    /\ running = [c \in Channels |-> {}]
    /\ failed = [c \in Channels |-> {}]
    /\ gen = "idle"
    /\ drained = {}
    /\ asof = 0

-----------------------------------------------------------------------------
(* State changes notified from the database                                *)

\* Remove o from, or add it to, the sets of the channels cs.
Without(S, o, cs) == [c \in Channels |-> IF c \in cs THEN S[c] \ {o} ELSE S[c]]
With(S, o, cs) == [c \in Channels |-> IF c \in cs THEN S[c] \cup {o} ELSE S[c]]

\* Channel.remove, on the channel of o and the channels downstream
Remove(o) ==
    /\ queue' = Without(queue, o, Path[o.chan])
    /\ running' = Without(running, o, Path[o.chan])
    /\ failed' = Without(failed, o, Path[o.chan])

\* Mutant of SetPending: the parents are not told.
SetPendingAlone(o) ==
    IF o \in queue[o.chan]
    THEN UNCHANGED sets
    ELSE /\ queue' = With(queue, o, {o.chan})
         /\ running' = Without(running, o, {o.chan})
         /\ failed' = Without(failed, o, {o.chan})

\* Channel.set_pending
SetPending(o) ==
    IF o \in queue[o.chan]
    THEN UNCHANGED sets
    ELSE /\ queue' = With(Without(queue, o, Path[o.chan]), o, {o.chan})
         /\ running' = Without(running, o, Path[o.chan])
         /\ failed' = Without(failed, o, Path[o.chan])

\* The recursion of set_running stops at the first channel where o is running.
MarkedBySetRunning(o) ==
    {c \in Path[o.chan] : \A d \in Path[o.chan] : c \in Path[d] => o \notin running[d]}

\* Mutant of SetRunning: only the job's own channel is marked.
SetRunningAlone(o) ==
    /\ queue' = Without(queue, o, {o.chan})
    /\ running' = With(running, o, {o.chan})
    /\ failed' = Without(failed, o, {o.chan})

\* Channel.set_running
SetRunning(o) ==
    LET cs == MarkedBySetRunning(o)
    IN  /\ queue' = Without(queue, o, cs)
        /\ running' = With(running, o, cs)
        /\ failed' = Without(failed, o, cs)

\* Channel.set_failed
SetFailed(o) ==
    IF o \in failed[o.chan]
    THEN UNCHANGED sets
    ELSE /\ queue' = Without(queue, o, Path[o.chan])
         /\ running' = Without(running, o, Path[o.chan])
         /\ failed' = With(Without(failed, o, Path[o.chan]), o, {o.chan})

\* notify when the object of the uuid is o, or there is none
NotifySame(o, state) ==
    \/ state = DONE /\ Remove(o)
    \/ state = PENDING /\ SetPending(o)
    \/ state \in {ENQUEUED, STARTED} /\ SetRunning(o)
    \/ state = FAILED /\ SetFailed(o)

\* Mutant of NotifyChanged: the old object is removed, the new one not placed.
NotifyChangedDrops(old, o, state) == Remove(old)

(***************************************************************************)
(* notify when a property that influences scheduling has changed: the old  *)
(* object is removed, a new one is created and takes its place.            *)
(***************************************************************************)
NotifyChanged(old, o, state) ==
    LET q == Without(queue, old, Path[old.chan])
        r == Without(running, old, Path[old.chan])
        f == Without(failed, old, Path[old.chan])
    IN  /\ queue' = IF state = PENDING THEN With(q, o, {o.chan}) ELSE q
        /\ running' = IF state \in {ENQUEUED, STARTED}
                      THEN With(r, o, Path[o.chan]) ELSE r
        /\ failed' = IF state = FAILED THEN With(f, o, {o.chan}) ELSE f

(***************************************************************************)
(* ChannelManager.notify for a row whose scheduling properties are o.  The *)
(* entry of a job that is done is weak and goes with its object; where a   *)
(* heap still holds the object it stays, and the object, which is in none  *)
(* of the sets, serves as well as a new one with the same fields.          *)
(***************************************************************************)
Notify(o, state) ==
    LET old == jobs[o.uuid]
    IN  /\ gen = "idle"
        /\ IF old \in {NoJob, o} THEN NotifySame(o, state)
                                 ELSE NotifyChanged(old, o, state)
        /\ jobs' = [jobs EXCEPT ![o.uuid] = IF state = DONE THEN NoJob ELSE o]
        /\ UNCHANGED <<gen, drained, asof>>

\* ChannelManager.remove_job
RemoveJob(u) ==
    /\ gen = "idle"
    /\ IF jobs[u] = NoJob THEN UNCHANGED <<queue, running, failed, jobs>>
       ELSE Remove(jobs[u]) /\ jobs' = [jobs EXCEPT ![u] = NoJob]
    /\ UNCHANGED <<gen, drained, asof>>

(***************************************************************************)
(* ChannelManager.remove_db, for the one database of the model.  It runs   *)
(* after an exception, which abandons a generator that is being consumed.  *)
(***************************************************************************)
RemoveDb ==
    LET kept(S) == [c \in Channels |->
                      {o \in S[c] : jobs[o.uuid] # o \/ c \notin Path[o.chan]}]
    IN  /\ queue' = kept(queue)
        /\ running' = kept(running)
        /\ failed' = kept(failed)
        /\ jobs' = [u \in Uuids |-> NoJob]
        /\ gen' = "idle"
        /\ drained' = {}
        /\ UNCHANGED asof

-----------------------------------------------------------------------------
(* The generator                                                           *)

\* What Channel._queue.pop may return
Poppable(c, now) == PoppableFrom(queue[c], now)

Children(c) == {d \in Channels \ {Root} : Parent[d] = c}

\* The loop of get_jobs_to_run in channel c goes round once more.
CanYield(c, now) ==
    /\ ~(c \in Sequential /\ failed[c] # {})
    /\ Capacity[c] = 0 \/ Cardinality(running[c]) < Capacity[c]
    /\ Poppable(c, now) # {}

\* Mutant of InLoop: a channel does not wait for its children.
InLoopBeforeChildren(c) == gen = "active" /\ c \notin drained

\* The generator is in the loop of channel c: those of its children returned.
InLoop(c) ==
    /\ gen = "active"
    /\ c \notin drained
    /\ Children(c) \subseteq drained

GetJobsToRun(now) ==
    /\ gen = "idle"
    /\ gen' = "active"
    /\ drained' = {}
    /\ asof' = now
    /\ UNCHANGED <<jobs, queue, running, failed>>

\* A channel yields a job, which its parent adds to its own queue.
PassDown(c) ==
    /\ c # Root
    /\ InLoop(c)
    /\ CanYield(c, asof)
    /\ \E o \in Poppable(c, asof) :
          /\ queue' = With(Without(queue, o, {c}), o, {Parent[c]})
          /\ running' = With(running, o, {c})
    /\ UNCHANGED <<jobs, failed, gen, drained, asof>>

\* The root yields o to the runner.
YieldToRunner(o) ==
    /\ InLoop(Root)
    /\ CanYield(Root, asof)
    /\ o \in Poppable(Root, asof)
    /\ queue' = Without(queue, o, {Root})
    /\ running' = With(running, o, {Root})
    /\ UNCHANGED <<jobs, failed, gen, drained, asof>>

\* The generator of channel c returns.
Exhausted(c) ==
    /\ InLoop(c)
    /\ ~CanYield(c, asof)
    /\ IF c = Root
       THEN gen' = "idle" /\ drained' = {}
       ELSE gen' = gen /\ drained' = drained \cup {c}
    /\ UNCHANGED <<jobs, queue, running, failed, asof>>

-----------------------------------------------------------------------------
(* The structure of the tree                                               *)

\* The objects in a channel, in whichever set
Members(c) == queue[c] \cup running[c] \cup failed[c]

\* An object in a channel is the current one of its uuid, and it is on the
\* way from its own channel to the root.
CurrentObjects ==
    \A c \in Channels : \A o \in Members(c) :
        jobs[o.uuid] = o /\ c \in Path[o.chan]

\* A channel holds a job in one of its sets only, and only its own channel
\* remembers that a job has failed.
OnePlace ==
    \A c \in Channels :
        /\ queue[c] \cap running[c] = {}
        /\ queue[c] \cap failed[c] = {}
        /\ running[c] \cap failed[c] = {}
        /\ \A o \in failed[c] : o.chan = c

\* "From the point of view of a channel, running means enqueued in the
\* downstream channel" (docstring of Channel): a job takes a place of a
\* channel exactly as long as the parent holds it, waiting or running.
RunningMeansDownstream ==
    \A c \in Channels \ {Root} : \A o \in Members(c) \cup Members(Parent[c]) :
        c \in Path[o.chan] =>
            (o \in running[c] <=> o \in queue[Parent[c]] \cup running[Parent[c]])

\* The tree is well formed between any two steps of the code that changes
\* it: no object that was replaced is left in a channel, no job is counted
\* twice, and none occupies a channel without being on its way downstream.
TreeInvariant == TypeOK /\ CurrentObjects /\ OnePlace /\ RunningMeansDownstream

=============================================================================
