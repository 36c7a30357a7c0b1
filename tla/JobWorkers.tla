----------------------------- MODULE JobWorkers ----------------------------
(***************************************************************************)
(* The workers of connector/queue: threads that take jobs out of a queue   *)
(* in memory (queue/worker.py, queue/queue.py), the cron that assigns the  *)
(* jobs to the worker of its process and enqueues them, and the watcher    *)
(* that tells that a worker lives and purges the others                    *)
(* (queue/model.py).  Each read or write of the table queue_job is a       *)
(* transaction of its own, except that a job's work and its state done are *)
(* committed together.  The eta of a job only moves it in the queue.       *)
(***************************************************************************)
EXTENDS Integers, FiniteSets

CONSTANTS
    None,           \* no worker, no job
    Jobs,           \* the rows of queue_job
    Workers,        \* the uuids of the workers, one for each process started
    Running,        \* the workers of the processes that run at the beginning
    Allowance       \* bound of each kind of perturbation, and of all

Perturbations == {"user", "crash", "stall", "retry", "broken", "total"}
States == {"pending", "enqueued", "started", "done", "failed"}
Ended == {"done", "failed"}

Rows == [state : States, worker : Workers \cup {None}]

\* What a thread is doing: the job, the phase of run_job and, for perform, the
\* row that its transaction has read.
Tasks == [job : Jobs, phase : {"reset", "start", "started", "perform"}, snap : Rows]

ASSUME WorkersAssumption ==
    /\ None \notin Workers \cup Jobs /\ None \notin Tasks
    /\ Running \subseteq Workers
    /\ Allowance \in [Perturbations -> Nat]

VARIABLES
    row,        \* queue_job: state and worker_id of each job
    registered, \* queue_worker: the workers that have a row
    late,       \* those whose date_alive is older than worker_timeout
    up,         \* the workers whose process runs
    memory,     \* how often a job is in the PriorityQueue of a worker
    thread,     \* what run_job of a worker is doing
    cron,       \* the jobs that enqueue_jobs has found and not yet enqueued
    left,       \* the perturbations still allowed
    commits,    \* history: commits of each job's work
    stalled,    \* history: workers purged while their process runs
    dropped     \* history: jobs given up after an error of the database

vars == <<row, registered, late, up, memory, thread, cron, left, commits, stalled, dropped>>

-----------------------------------------------------------------------------
Row(state, worker) == [state |-> state, worker |-> worker]
Spend(kind) ==
    /\ left[kind] > 0 /\ left["total"] > 0
    /\ left' = [left EXCEPT ![kind] = @ - 1, !["total"] = @ - 1]

\* OpenERPJobStorage.store: _worker_id finds no row for a purged worker.
Store(j, state, worker) ==
    row' = [row EXCEPT ![j] = Row(state, IF worker \in registered THEN worker ELSE None)]

Put(w, j) == memory' = [memory EXCEPT ![w][j] = @ + 1]
Phase(w, j, phase) == thread' = [thread EXCEPT ![w] = [job |-> j, phase |-> phase,
                                                       snap |-> row[j]]]
Idle(w) == thread' = [thread EXCEPT ![w] = None]
In(w, phase) == thread[w] # None /\ thread[w].phase = phase

-----------------------------------------------------------------------------
(* Worker *)

\* dequeue, and the checks of run_job on the job as it is loaded.
Load(w, j) ==
    /\ w \in up /\ thread[w] = None /\ memory[w][j] > 0
    /\ memory' = [memory EXCEPT ![w][j] = @ - 1]
    /\ IF row[j].state \in {"done", "pending"} THEN UNCHANGED thread
       ELSE Phase(w, j, IF row[j].worker # w THEN "reset" ELSE "start")
    /\ UNCHANGED <<row, registered, late, up, cron, left, commits, stalled, dropped>>

\* The job belongs to another worker: it is reset to pending.
Reset(w) ==
    /\ In(w, "reset") /\ Idle(w)
    /\ Store(thread[w].job, "pending", None)
    /\ UNCHANGED <<registered, late, up, memory, cron, left, commits, stalled, dropped>>

Start(w) ==
    /\ In(w, "start")
    /\ Store(thread[w].job, "started", w)
    /\ thread' = [thread EXCEPT ![w].phase = "started"]
    /\ UNCHANGED <<registered, late, up, memory, cron, left, commits, stalled, dropped>>

\* The transaction of the job's work takes its snapshot.
Perform(w) ==
    /\ In(w, "started") /\ Phase(w, thread[w].job, "perform")
    /\ UNCHANGED <<row, registered, late, up, memory, cron, left, commits, stalled, dropped>>

\* Mutant of RetryPostpone: the job is not put in the queue again.
RetryPostponeInRow(w, j) == Store(j, "enqueued", w) /\ Idle(w) /\ UNCHANGED memory

\* retry_postpone: the job goes back to the queue of this worker.
RetryPostpone(w, j) == Store(j, "enqueued", w) /\ Put(w, j) /\ Idle(w)

\* The work and the state done are committed, unless the row has changed
\* since the snapshot: a serialization failure, after which it is retried.
Done(w) ==
    /\ In(w, "perform")
    /\ LET j == thread[w].job
       IN IF row[j] # thread[w].snap
          THEN RetryPostpone(w, j) /\ UNCHANGED commits
          ELSE /\ Store(j, "done", None) /\ Idle(w)
               /\ commits' = [commits EXCEPT ![j] = @ + 1]
               /\ UNCHANGED memory
    /\ UNCHANGED <<registered, late, up, cron, left, stalled, dropped>>

\* A RetryableJobError or a conflict.
Retryable(w) ==
    /\ In(w, "perform") /\ Spend("retry")
    /\ RetryPostpone(w, thread[w].job)
    /\ UNCHANGED <<registered, late, up, cron, commits, stalled, dropped>>

\* FailedJobError or another exception; NothingToDoJob ends as done.
Ends(w, state) ==
    /\ In(w, "perform") /\ state \in Ended
    /\ Store(thread[w].job, state, None) /\ Idle(w)
    /\ UNCHANGED <<registered, late, up, memory, cron, left, commits, stalled, dropped>>

\* Another OperationalError is raised to the loop, which goes on.
Broken(w) ==
    /\ thread[w] # None /\ Spend("broken") /\ Idle(w)
    /\ dropped' = dropped \cup {thread[w].job}
    /\ UNCHANGED <<row, registered, late, up, memory, cron, commits, stalled>>

-----------------------------------------------------------------------------
(* Cron: assign_then_enqueue *)

Assignable == {j \in Jobs : row[j].worker = None /\ row[j].state \notin Ended}

\* Mutant of AssignJobs: only the jobs in the state pending.
AssignPendingJobs(w) ==
    /\ w \in up \cap registered /\ cron[w] = {}
    /\ row' = [j \in Jobs |-> IF j \in Assignable /\ row[j].state = "pending"
                              THEN Row("pending", w) ELSE row[j]]
    /\ cron' = [cron EXCEPT ![w] = {j \in Jobs : row'[j] = Row("pending", w)}]
    /\ cron'[w] # {}
    /\ UNCHANGED <<registered, late, up, memory, thread, left, commits, stalled, dropped>>

\* Mutant of AssignJobs: the jobs that have a worker too.
AssignAllJobs(w) ==
    /\ w \in up \cap registered /\ cron[w] = {}
    /\ row' = [j \in Jobs |-> IF row[j].state \notin Ended THEN Row("pending", w) ELSE row[j]]
    /\ cron' = [cron EXCEPT ![w] = {j \in Jobs : row'[j] = Row("pending", w)}]
    /\ cron'[w] # {}
    /\ UNCHANGED <<registered, late, up, memory, thread, left, commits, stalled, dropped>>

\* assign_jobs, committed, then the search of enqueue_jobs.
AssignJobs(w) ==
    /\ w \in up \cap registered /\ cron[w] = {}
    /\ row' = [j \in Jobs |-> IF j \in Assignable THEN Row("pending", w) ELSE row[j]]
    /\ cron' = [cron EXCEPT ![w] = {j \in Jobs : row'[j] = Row("pending", w)}]
    /\ cron'[w] # {}
    /\ UNCHANGED <<registered, late, up, memory, thread, left, commits, stalled, dropped>>

\* enqueue_job_uuid: the state is written whatever it has become.
EnqueueJobUuid(w, j) ==
    /\ w \in up /\ j \in cron[w]
    /\ cron' = [cron EXCEPT ![w] = @ \ {j}]
    /\ Store(j, "enqueued", w) /\ Put(w, j)
    /\ UNCHANGED <<registered, late, up, thread, left, commits, stalled, dropped>>

-----------------------------------------------------------------------------
(* WorkerWatcher, processes, users *)

NotifyAlive(w) ==
    /\ w \in up /\ (w \notin registered \/ w \in late)
    /\ registered' = registered \cup {w} /\ late' = late \ {w}
    /\ UNCHANGED <<row, up, memory, thread, cron, left, commits, stalled, dropped>>

\* The rows of the late workers are deleted, their jobs have no worker left.
PurgeDeadWorkers ==
    /\ up # {} /\ late # {}
    /\ registered' = registered \ late /\ late' = {}
    /\ row' = [j \in Jobs |-> IF row[j].worker \in late THEN Row(row[j].state, None)
                              ELSE row[j]]
    /\ stalled' = stalled \cup (late \cap up)
    /\ UNCHANGED <<up, memory, thread, cron, left, commits, dropped>>

\* worker_timeout passes without a sign of life: of a process that is gone,
\* or of one that could not tell.
Timeout(w) ==
    /\ w \in registered \ late
    /\ IF w \in up THEN Spend("stall") ELSE UNCHANGED left
    /\ late' = late \cup {w}
    /\ UNCHANGED <<row, registered, up, memory, thread, cron, commits, stalled, dropped>>

Crash(w) ==
    /\ w \in up /\ Spend("crash")
    /\ up' = up \ {w} /\ Idle(w)
    /\ memory' = [memory EXCEPT ![w] = [j \in Jobs |-> 0]]
    /\ cron' = [cron EXCEPT ![w] = {}]
    /\ UNCHANGED <<row, registered, late, commits, stalled, dropped>>

\* A process starts, with a worker of a new uuid, in place of one that died.
NewWorker(w) ==
    /\ w \notin up \cup registered \cup Running /\ left["crash"] < Allowance["crash"]
    /\ up' = up \cup {w} /\ registered' = registered \cup {w}
    /\ UNCHANGED <<row, late, memory, thread, cron, left, commits, stalled, dropped>>

\* requeue and button_done of a job, at any moment.
Requeue(j) ==
    /\ Spend("user") /\ Store(j, "pending", None)
    /\ UNCHANGED <<registered, late, up, memory, thread, cron, commits, stalled, dropped>>
ButtonDone(j) ==
    /\ Spend("user") /\ Store(j, "done", None)
    /\ UNCHANGED <<registered, late, up, memory, thread, cron, commits, stalled, dropped>>

-----------------------------------------------------------------------------
Init ==
    /\ row = [j \in Jobs |-> Row("pending", None)]
    /\ registered = Running /\ late = {} /\ up = Running
    /\ memory = [w \in Workers |-> [j \in Jobs |-> 0]]
    /\ thread = [w \in Workers |-> None]
    /\ cron = [w \in Workers |-> {}]
    /\ left = Allowance
    /\ commits = [j \in Jobs |-> 0]
    /\ stalled = {} /\ dropped = {}

ThreadStep(w) ==
    \/ \E j \in Jobs : Load(w, j)
    \/ Reset(w) \/ Start(w) \/ Perform(w) \/ Done(w)

CronStep(w) == AssignJobs(w) \/ \E j \in Jobs : EnqueueJobUuid(w, j)

Next ==
    \/ \E w \in Workers :
          \/ ThreadStep(w) \/ Retryable(w) \/ \E s \in Ended : Ends(w, s)
          \/ Broken(w) \/ CronStep(w)
          \/ NotifyAlive(w) \/ Timeout(w) \/ Crash(w) \/ NewWorker(w)
    \/ PurgeDeadWorkers
    \/ \E j \in Jobs : Requeue(j) \/ ButtonDone(j)

Spec == Init /\ [][Next]_vars

\* The thread of a worker that lives goes on, its job ends in some way, the
\* cron runs every minute, the watcher every 30 seconds; a dead worker grows
\* late and a process that died is started again.
FairSpec ==
    /\ Spec
    /\ \A w \in Workers :
          /\ WF_vars(ThreadStep(w)) /\ WF_vars(CronStep(w)) /\ WF_vars(NotifyAlive(w))
          /\ WF_vars(w \notin up /\ Timeout(w)) /\ WF_vars(NewWorker(w))
    /\ WF_vars(PurgeDeadWorkers)

-----------------------------------------------------------------------------
(* Properties *)

\* What the variables hold (queue/model.py, queue/worker.py).
WorkersTypeOK ==
    /\ row \in [Jobs -> Rows]
    /\ \A j \in Jobs : row[j].worker \in registered \cup {None}
    /\ late \subseteq registered /\ registered \subseteq Workers /\ up \subseteq Workers
    /\ memory \in [Workers -> [Jobs -> Nat]]
    /\ thread \in [Workers -> Tasks \cup {None}]
    /\ cron \in [Workers -> SUBSET Jobs]
    /\ left \in [Perturbations -> Nat] /\ commits \in [Jobs -> Nat]
    /\ stalled \subseteq Workers /\ dropped \subseteq Jobs

\* As long as no worker that lives is taken for dead, the work of a job is
\* committed once, and once more at most for each time that a user touches
\* it: crashes, retries, resets and reassignments never repeat it
\* (queue/worker.py, run_job).
WorkCommittedOnce ==
    stalled = {} => \A j \in Jobs : commits[j] <= 1 + Allowance["user"] - left["user"]

\* A job to do is never forgotten: it waits for a worker, or its worker has
\* it, or will have it from its cron, or is dead and will be purged; only an
\* error of the database in the middle of a job is not recovered
\* (queue/model.py, _assign_jobs and _purge_dead_workers).
HasIt(w, j) ==
    \/ memory[w][j] > 0 \/ j \in cron[w] \/ row[j].state = "pending"
    \/ thread[w] # None /\ thread[w].job = j
NoJobForgotten ==
    \A j \in Jobs \ dropped :
        LET w == row[j].worker
        IN row[j].state \in Ended \/ w = None \/ w \notin up \/ HasIt(w, j)

\* A worker that lives was taken for dead, or a user touched a job.
Disturbed == stalled # {} \/ left["user"] < Allowance["user"]

\* Two workers never both do a job's work unless a user put it back or one
\* of them was taken for dead.
OneWorkerAtWork ==
    ~Disturbed =>
        \A v, w \in up : v # w /\ In(v, "perform") /\ In(w, "perform")
                         => thread[v].job # thread[w].job

\* Every job ends, whatever processes die and whatever is retried: it is
\* done or failed and stays so.  A job put back by a user while it runs, and
\* one of a worker that lives and is taken for dead, are left out: two workers
\* can then take it from each other for ever, each resetting what the other
\* has enqueued (queue/worker.py, queue/model.py).
EveryJobEnds ==
    \/ \A j \in Jobs : <>[](row[j].state \in Ended \/ j \in dropped)
    \/ <>Disturbed
=============================================================================
