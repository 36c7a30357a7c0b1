------------------------------ MODULE JobRunner ------------------------------
(***************************************************************************)
(* The job runner (jobrunner/runner.py), the /connector/runjob controller  *)
(* (controllers/main.py), the users' actions on jobs (queue/model.py) and  *)
(* the job storage (queue/job.py), around one database.                    *)
(*                                                                         *)
(* The actors share the rows of queue_job and nothing else:                *)
(*   - the runner thread: it follows the rows through PostgreSQL           *)
(*     notifications, keeps the channel tree of module Channels, marks the *)
(*     jobs the tree lets go as enqueued and asks Odoo to run them;        *)
(*   - for each request, a client thread that waits one second for the     *)
(*     answer, and a handler of an Odoo worker that runs the job;          *)
(*   - users who requeue jobs or set them to done, producers, and the cron *)
(*     that deletes old jobs.                                              *)
(*                                                                         *)
(* A committed transaction is one action.  The transaction that performs a *)
(* job is open for as long as the job runs: it begins with SetStarted's    *)
(* commit and ends with one of the outcomes below.                         *)
(***************************************************************************)
EXTENDS Channels

CONSTANTS
    Requests,       \* identities of the /connector/runjob requests in flight
    ChannelOf,      \* the channel of each job
    Priority,       \* the priority of each job
    SeqOf,          \* the creation order of jobs
    Unreadable,     \* jobs whose pickled function cannot be loaded
    MaxRetries,     \* queue_job.max_retries, 0 for infinite retries
    MaxTime,        \* bound: jobs are created with an eta or postponed before it
    Allowance,      \* bound: how often each perturbation may happen
    NotCreated,     \* row of a job that does not exist yet
    Deleted,        \* row of a job that was deleted
    NoRequest       \* a request identity that is free

Perturbations == {"user", "vacuum", "error", "timeout", "exception", "crash"}

ASSUME RunnerAssumption ==
    /\ IsFiniteSet(Uuids)
    /\ ChannelOf \in [Uuids -> Channels]
    /\ Priority \in [Uuids -> Nat]
    /\ SeqOf \in [Uuids -> Nat]
    /\ Unreadable \subseteq Uuids
    /\ MaxRetries \in Nat
    /\ MaxTime \in Nat
    /\ Allowance \in [Perturbations -> Nat]

(***************************************************************************)
(* The columns of a queue_job row that the code decides on.  A Job object  *)
(* in memory has the same fields, active is the negation of its canceled.  *)
(***************************************************************************)
Row == [state: States, retry: Nat, eta: Nat, date_done: BOOLEAN, active: BOOLEAN]

ASSUME DistinctAssumption ==
    /\ NotCreated \notin Row
    /\ Deleted \notin Row \cup {NotCreated}
    /\ NoJob \notin Uuids

Request == [job: Uuids,
            client: {"waiting", "timedout", "gone"},
            server: {"sent", "loaded", "started", "replied", "lost"},
            copy: Row \cup {NotCreated},    \* the Job object of the handler
            stale: BOOLEAN]                 \* the row has changed in the meantime

ASSUME NoRequestAssumption == NoRequest \notin Request

VARIABLES
    row,        \* the table queue_job
    socket,     \* notifications sent to the runner's connection, not read yet
    notifies,   \* conn.notifies
    pc,         \* where ConnectorRunner.run is
    selected,   \* the rows read by initialize_databases, not notified yet
    cur,        \* the job run_jobs is handling
    req,        \* the requests in flight
    now,        \* the clock
    left,       \* how many perturbations of each kind may still happen
    commits     \* history: committed executions of a job since it was queued

runnervars == <<pc, selected, cur>>
vars == <<chvars, row, socket, notifies, pc, selected, cur, req, now, left, commits>>

Exists(u) == row[u] \notin {NotCreated, Deleted}

\* Mutant of NotDone: only the jobs to run are read.
NotDonePendingOnly == {PENDING}

\* The states of the jobs that initialize_databases reads
NotDone == {PENDING, ENQUEUED, STARTED, FAILED}

\* The requests in flight; the handler that runs a job has its Job object.
RequestsOK(q) ==
    /\ q \in [Requests -> Request \cup {NoRequest}]
    /\ \A r \in Requests : q[r] # NoRequest /\ q[r].server \in {"loaded", "started"}
          => q[r].copy \in Row

\* The types of the variables
RunnerTypeOK ==
    /\ TypeOK
    /\ row \in [Uuids -> Row \cup {NotCreated, Deleted}]
    /\ socket \subseteq Uuids
    /\ notifies \subseteq Uuids
    /\ pc \in {"starting", "listening", "loading", "process", "run",
               "sending", "requesting", "wait", "select"}
    /\ DOMAIN selected \subseteq Uuids
    /\ \A u \in DOMAIN selected : selected[u] \in Row
    /\ cur \in Uuids \cup {NoJob}
    /\ pc \in {"sending", "requesting"} => cur \in Uuids
    /\ RequestsOK(req)
    /\ now \in Nat
    /\ left \in [Perturbations -> Nat]
    /\ commits \in [Uuids -> Nat]

NoRows == [u \in {} |-> NotCreated]

Init ==
    /\ ChannelsInit
    /\ row = [u \in Uuids |-> NotCreated]
    /\ socket = {}
    /\ notifies = {}
    /\ pc = "starting"
    /\ selected = NoRows
    /\ cur = NoJob
    /\ req = [r \in Requests |-> NoRequest]
    /\ now = 0
    /\ left = Allowance
    /\ commits = [u \in Uuids |-> 0]

Spend(kind) == left[kind] > 0 /\ left' = [left EXCEPT ![kind] = @ - 1]

-----------------------------------------------------------------------------
(* The database                                                            *)

\* Mutant of Listening: LISTEN after the rows have been read.
ListeningLate == pc \notin {"starting", "listening", "loading"}

\* The runner's connection has executed LISTEN.
Listening == pc # "starting"

\* The trigger queue_job_notify tells the runner that the row has changed.
Trigger(u) == socket' = IF Listening THEN socket \cup {u} ELSE socket

\* What the handlers of u have read of the row is not the latest any more:
\* PostgreSQL refuses the change of a row that another transaction has changed
\* after the snapshot was taken.
Outdated(q, u) ==
    [r \in Requests |->
        IF q[r] # NoRequest /\ q[r].job = u /\ q[r].server \in {"loaded", "started"}
        THEN [q[r] EXCEPT !.stale = TRUE] ELSE q[r]]

\* OpenERPJobStorage.store: all the columns are written, a row that does not
\* exist any more is created again, active is never set back to true.
Store(u, v) ==
    row' = [row EXCEPT ![u] =
              IF Exists(u) THEN [v EXCEPT !.active = v.active /\ row[u].active] ELSE v]

-----------------------------------------------------------------------------
(* Producers, users and the cron                                           *)

\* A producer enqueues the job, now or with an eta.
CreateJob(u) ==
    /\ row[u] = NotCreated
    /\ \E e \in {NoEta} \cup (IF now < MaxTime THEN {now + 1} ELSE {}) :
          Store(u, [state |-> PENDING, retry |-> 0, eta |-> e,
                    date_done |-> FALSE, active |-> TRUE])
    /\ Trigger(u)
    /\ UNCHANGED <<chvars, notifies, runnervars, req, now, left, commits>>

\* QueueJob.requeue, from any state: the wizard takes any selection of jobs.
Requeue(u) ==
    /\ Exists(u)
    /\ u \notin Unreadable
    /\ Spend("user")
    /\ Store(u, [row[u] EXCEPT !.state = PENDING, !.retry = 0])
    /\ Trigger(u)
    /\ req' = Outdated(req, u)
    /\ commits' = [commits EXCEPT ![u] = 0]
    /\ UNCHANGED <<chvars, notifies, runnervars, now>>

\* QueueJob.button_done
ButtonDone(u) ==
    /\ Exists(u)
    /\ u \notin Unreadable
    /\ Spend("user")
    /\ Store(u, [row[u] EXCEPT !.state = DONE, !.date_done = TRUE])
    /\ Trigger(u)
    /\ req' = Outdated(req, u)
    /\ UNCHANGED <<chvars, notifies, runnervars, now, commits>>

\* QueueJob.autovacuum deletes what has a date_done that is old enough; the
\* trigger says nothing of the deletion of a job that is done.
Autovacuum(u) ==
    /\ Exists(u)
    /\ row[u].date_done
    /\ Spend("vacuum")
    /\ row' = [row EXCEPT ![u] = Deleted]
    /\ IF row[u].state = DONE THEN UNCHANGED socket ELSE Trigger(u)
    /\ req' = Outdated(req, u)
    /\ UNCHANGED <<chvars, notifies, runnervars, now, commits>>

-----------------------------------------------------------------------------
(* The runner thread                                                       *)

\* The row's properties that influence scheduling
JobOf(u, v) == [uuid |-> u, chan |-> ChannelOf[u], eta |-> v.eta,
                prio |-> Priority[u], seq |-> SeqOf[u]]

\* Every query on the runner's connection reads the notifications received.
Collect(more) == notifies' = more \cup socket /\ socket' = {}

\* Database.__init__: connect, create the trigger and LISTEN.
Listen ==
    /\ pc = "starting"
    /\ pc' = "listening"
    /\ UNCHANGED <<chvars, row, socket, notifies, selected, cur, req, now, left, commits>>

\* initialize_databases reads the rows that are not done ...
SelectJobs ==
    /\ pc = "listening"
    /\ selected' = [u \in {v \in Uuids : Exists(v) /\ row[v].state \in NotDone} |-> row[u]]
    /\ Collect(notifies)
    /\ pc' = "loading"
    /\ UNCHANGED <<chvars, row, cur, req, now, left, commits>>

\* ... and notifies them to the channel manager one after the other.
LoadJob(u) ==
    /\ pc = "loading"
    /\ u \in DOMAIN selected
    /\ Notify(JobOf(u, selected[u]), selected[u].state)
    /\ selected' = [v \in DOMAIN selected \ {u} |-> selected[v]]
    /\ UNCHANGED <<row, socket, notifies, pc, cur, req, now, left, commits>>

Loaded ==
    /\ pc = "loading"
    /\ DOMAIN selected = {}
    /\ pc' = "process"
    /\ UNCHANGED <<chvars, row, socket, notifies, selected, cur, req, now, left, commits>>

\* Mutant of ProcessNotification: a row that is gone is ignored.
ProcessNotificationOfRow(u) ==
    /\ pc = "process"
    /\ u \in notifies
    /\ Collect(notifies \ {u})
    /\ IF Exists(u) THEN Notify(JobOf(u, row[u]), row[u].state) ELSE UNCHANGED chvars
    /\ UNCHANGED <<row, runnervars, req, now, left, commits>>

\* One round of process_notifications: the row is read again, whatever it was
\* when the notification was sent.
ProcessNotification(u) ==
    /\ pc = "process"
    /\ u \in notifies
    /\ Collect(notifies \ {u})
    /\ IF Exists(u) THEN Notify(JobOf(u, row[u]), row[u].state) ELSE RemoveJob(u)
    /\ UNCHANGED <<row, runnervars, req, now, left, commits>>

\* process_notifications returns, run_jobs calls get_jobs_to_run.
StartRunJobs ==
    /\ pc = "process"
    /\ notifies = {}
    /\ GetJobsToRun(now)
    /\ pc' = "run"
    /\ UNCHANGED <<row, socket, notifies, selected, cur, req, now, left, commits>>

\* The generator proceeds inside the channels upstream of the root.
Flow ==
    /\ pc = "run"
    /\ \E c \in Channels \ {Root} : PassDown(c) \/ Exhausted(c)
    /\ UNCHANGED <<row, socket, notifies, runnervars, req, now, left, commits>>

\* The generator yields a job.
NextJob(o) ==
    /\ pc = "run"
    /\ YieldToRunner(o)
    /\ cur' = o.uuid
    /\ pc' = "sending"
    /\ UNCHANGED <<row, socket, notifies, selected, req, now, left, commits>>

\* Database.set_job_enqueued: an UPDATE with no condition on the state
SetJobEnqueued ==
    /\ pc = "sending"
    /\ IF Exists(cur)
       THEN /\ row' = [row EXCEPT ![cur].state = ENQUEUED]
            /\ req' = Outdated(req, cur)
            /\ Collect(notifies \cup {cur})
       ELSE /\ Collect(notifies)
            /\ UNCHANGED <<row, req>>
    /\ pc' = "requesting"
    /\ UNCHANGED <<chvars, selected, cur, now, left, commits>>

\* _async_http_get starts the client thread.
AsyncHttpGet(r) ==
    /\ pc = "requesting"
    /\ req[r] = NoRequest
    /\ req' = [req EXCEPT ![r] = [job |-> cur, client |-> "waiting", server |-> "sent",
                                  copy |-> NotCreated, stale |-> FALSE]]
    /\ cur' = NoJob
    /\ pc' = "run"
    /\ UNCHANGED <<chvars, row, socket, notifies, selected, now, left, commits>>

\* run_jobs returns.
EndRunJobs ==
    /\ pc = "run"
    /\ Exhausted(Root)
    /\ pc' = "wait"
    /\ UNCHANGED <<row, socket, notifies, selected, cur, req, now, left, commits>>

\* wait_notification returns at once when a query has brought notifications.
WaitNotification ==
    /\ pc = "wait"
    /\ pc' = IF notifies # {} THEN "process" ELSE "select"
    /\ UNCHANGED <<chvars, row, socket, notifies, selected, cur, req, now, left, commits>>

\* select() returns because something can be read.
Poll ==
    /\ pc = "select"
    /\ socket # {}
    /\ Collect(notifies)
    /\ pc' = "process"
    /\ UNCHANGED <<chvars, row, selected, cur, req, now, left, commits>>

\* Mutant of SelectTimeout: select() without a timeout
SelectForever == FALSE

\* select() returns after SELECT_TIMEOUT.
SelectTimeout ==
    /\ pc = "select"
    /\ socket = {}
    /\ pc' = "process"
    /\ UNCHANGED <<chvars, row, socket, notifies, selected, cur, req, now, left, commits>>

\* The runner loses its connection, its channel tree is emptied.
Disconnect ==
    /\ RemoveDb
    /\ pc' = "starting"
    /\ socket' = {}
    /\ notifies' = {}
    /\ selected' = NoRows
    /\ cur' = NoJob

\* An exception in the inner loop: close_databases, a pause, and again.
RunnerException ==
    /\ pc # "starting"
    /\ Spend("exception")
    /\ Disconnect
    /\ UNCHANGED <<row, req, now, commits>>

\* The Odoo server is killed: the runner, the clients and the handlers die,
\* what they had not committed is lost.  The server is started again.
Crash ==
    /\ Spend("crash")
    /\ Disconnect
    /\ req' = [r \in Requests |-> NoRequest]
    /\ UNCHANGED <<row, now, commits>>

-----------------------------------------------------------------------------
(* The client thread of a request                                          *)

Active(r) == req[r] # NoRequest

\* The identity is free again when neither thread is left.
Settled(q) == IF q.client = "gone" /\ q.server \in {"replied", "lost"} THEN NoRequest ELSE q

\* No answer within the timeout of requests.get
ClientTimeout(r) ==
    /\ Active(r)
    /\ req[r].client = "waiting"
    /\ Spend("timeout")
    /\ req' = [req EXCEPT ![r].client = "timedout"]
    /\ UNCHANGED <<chvars, row, socket, notifies, runnervars, now, commits>>

\* requests.get fails before any handler has seen the request.
ConnectionError(r) ==
    /\ Active(r)
    /\ req[r].client = "waiting"
    /\ req[r].server = "sent"
    /\ Spend("timeout")
    /\ req' = [req EXCEPT ![r].client = "timedout", ![r].server = "lost"]
    /\ UNCHANGED <<chvars, row, socket, notifies, runnervars, now, commits>>

\* Mutant of SetJobPending: a timeout is taken for an answer.
SetJobPendingNever(r) ==
    /\ Active(r)
    /\ req[r].client = "timedout"
    /\ req' = [req EXCEPT ![r] = Settled([req[r] EXCEPT !.client = "gone"])]
    /\ UNCHANGED <<chvars, row, socket, notifies, runnervars, now, left, commits>>

\* set_job_pending: UPDATE ... WHERE uuid and state = enqueued
SetJobPending(r) ==
    /\ Active(r)
    /\ req[r].client = "timedout"
    /\ LET u == req[r].job
           q == [req EXCEPT ![r] = Settled([req[r] EXCEPT !.client = "gone"])]
       IN  IF Exists(u) /\ row[u].state = ENQUEUED
           THEN /\ row' = [row EXCEPT ![u].state = PENDING]
                /\ Trigger(u)
                /\ req' = Outdated(q, u)
           ELSE req' = q /\ UNCHANGED <<row, socket>>
    /\ UNCHANGED <<chvars, notifies, runnervars, now, left, commits>>

-----------------------------------------------------------------------------
(* The handler of a request                                                *)

\* The handler has answered; a client still waiting gets the answer.
Replied(q) ==
    Settled([q EXCEPT !.client = IF @ = "waiting" THEN "gone" ELSE @,
                      !.server = "replied", !.copy = NotCreated, !.stale = FALSE])

\* _load_job, and the state check of _try_perform_job on what was loaded; the
\* exception of a job that is not readable leaves the row as it is.
LoadForRun(r) ==
    /\ Active(r)
    /\ req[r].server = "sent"
    /\ LET u == req[r].job
       IN  req' = [req EXCEPT ![r] =
                     IF Exists(u) /\ u \notin Unreadable /\ row[u].state = ENQUEUED
                     THEN [req[r] EXCEPT !.server = "loaded", !.copy = row[u]]
                     ELSE Replied(req[r])]
    /\ UNCHANGED <<chvars, row, socket, notifies, runnervars, now, left, commits>>

\* set_started and store, in a transaction of their own
SetStarted(r) ==
    /\ Active(r)
    /\ req[r].server = "loaded"
    /\ LET u == req[r].job
           v == [req[r].copy EXCEPT !.state = STARTED]
       IN  /\ Store(u, v)
           /\ Trigger(u)
           /\ req' = [Outdated(req, u) EXCEPT ![r].server = "started", ![r].copy = v,
                                           ![r].stale = FALSE]
    /\ UNCHANGED <<chvars, notifies, runnervars, now, left, commits>>

\* The handler stores the outcome v of the job and answers.
Finish(r, v) ==
    /\ Store(req[r].job, v)
    /\ Trigger(req[r].job)
    /\ req' = [Outdated(req, req[r].job) EXCEPT ![r] = Replied(req[r])]
    /\ UNCHANGED <<chvars, notifies, runnervars, now>>

\* retry_postpone: postpone, set_pending(reset_retry=False)
Postponed(v) == [v EXCEPT !.state = PENDING, !.eta = now + 1]

\* The row changes between the SELECT and the UPDATE of the store: the job is
\* postponed before it has run.
StartRefused(r) ==
    /\ Active(r)
    /\ req[r].server = "loaded"
    /\ req[r].stale
    /\ now < MaxTime
    /\ Finish(r, Postponed(req[r].copy))
    /\ UNCHANGED <<left, commits>>

\* The handler is performing the job, which asserts that it is not canceled.
Performing(r) == Active(r) /\ req[r].server = "started"

\* The Job object once perform has counted the try
Tried(r) == [req[r].copy EXCEPT !.retry = @ + 1]

\* The Job object after set_done
SetDone(v) == [v EXCEPT !.state = DONE, !.date_done = TRUE]

\* The job succeeds; its effects and the state are committed together.  With
\* a row changed since the transaction's snapshot the commit is refused (see
\* RowChanged); a transaction that has read nothing has no snapshot yet.
JobDone(r) ==
    /\ Performing(r)
    /\ req[r].copy.active
    /\ Finish(r, SetDone(Tried(r)))
    /\ commits' = [commits EXCEPT ![req[r].job] = @ + 1]
    /\ UNCHANGED left

\* An OperationalError of PG_CONCURRENCY_ERRORS_TO_RETRY
ConcurrencyError(r, v) ==
    /\ Performing(r)
    /\ req[r].copy.active
    /\ now < MaxTime
    /\ Finish(r, Postponed(v))
    /\ UNCHANGED commits

\* The row has changed since the first query of the transaction: the store after
\* set_done is refused.
RowChanged(r) ==
    /\ ConcurrencyError(r, SetDone(Tried(r)))
    /\ req[r].stale
    /\ UNCHANGED left

\* The job has touched another row that has changed.
OtherConflict(r) == ConcurrencyError(r, Tried(r)) /\ Spend("error")

\* The job has conflicted over another row, and the store of the postponed job
\* is refused in turn because of its own: the job fails.
PostponeRefused(r) ==
    /\ Performing(r)
    /\ req[r].copy.active
    /\ req[r].stale
    /\ now < MaxTime
    /\ Spend("error")
    /\ Finish(r, [Postponed(Tried(r)) EXCEPT !.state = FAILED])
    /\ UNCHANGED commits

\* Mutant of RetryableError: what the job did so far is not rolled back.
RetryableErrorCommits(r, ignore_retry) ==
    /\ Performing(r)
    /\ req[r].copy.active
    /\ now < MaxTime
    /\ Spend("error")
    /\ Finish(r, Postponed(Tried(r)))
    /\ commits' = [commits EXCEPT ![req[r].job] = @ + 1]

\* RetryableJobError: with ignore_retry the try is not counted.
RetryableError(r, ignore_retry) ==
    /\ Performing(r)
    /\ req[r].copy.active
    /\ now < MaxTime
    /\ Spend("error")
    /\ LET v == Tried(r)
       IN  Finish(r, CASE ignore_retry -> Postponed(req[r].copy)
                       [] ~ignore_retry /\ MaxRetries # 0 /\ v.retry >= MaxRetries
                             -> [v EXCEPT !.state = FAILED]
                       [] OTHER -> Postponed(v))
    /\ UNCHANGED commits

\* NothingToDoJob: the job is canceled, which archives it as done.
NothingToDo(r) ==
    /\ Performing(r)
    /\ req[r].copy.active
    /\ Finish(r, [SetDone(Tried(r)) EXCEPT !.active = FALSE])
    /\ UNCHANGED <<left, commits>>

\* Any other exception, and the failed assertion of a canceled job
JobFailed(r) ==
    /\ Performing(r)
    /\ LET v == IF req[r].copy.active THEN Tried(r) ELSE req[r].copy
       IN  Finish(r, [v EXCEPT !.state = FAILED])
    /\ UNCHANGED <<left, commits>>

\* The store of an outcome in a transaction of its own is refused, because the
\* row changes between its SELECT and its UPDATE: nothing is stored.
OutcomeLost(r) ==
    /\ Performing(r)
    /\ req[r].stale
    /\ req' = [req EXCEPT ![r] = Replied(req[r])]
    /\ UNCHANGED <<chvars, row, socket, notifies, runnervars, now, left, commits>>

\* The Odoo worker of a handler is killed, for one because the job has taken
\* too long, while the runner lives.  A client still waiting gets an error.
WorkerKilled(r) ==
    /\ Active(r)
    /\ req[r].server \in {"loaded", "started"}
    /\ Spend("crash")
    /\ req' = [req EXCEPT ![r] =
                  Settled([req[r] EXCEPT !.client = IF @ = "waiting" THEN "timedout" ELSE @,
                                         !.server = "lost", !.copy = NotCreated,
                                         !.stale = FALSE])]
    /\ UNCHANGED <<chvars, row, socket, notifies, runnervars, now, commits>>

\* Time passes while somebody may wait for it.
Tick ==
    /\ \/ now < MaxTime
       \/ \E u \in Uuids : Exists(u) /\ row[u].eta > now
    /\ now' = now + 1
    /\ UNCHANGED <<chvars, row, socket, notifies, runnervars, req, left, commits>>

-----------------------------------------------------------------------------

RunnerStep ==
    \/ Listen
    \/ SelectJobs
    \/ \E u \in DOMAIN selected : LoadJob(u)
    \/ Loaded
    \/ \E u \in notifies : ProcessNotification(u)
    \/ StartRunJobs
    \/ Flow
    \/ \E o \in queue[Root] : NextJob(o)
    \/ SetJobEnqueued
    \/ \E r \in Requests : AsyncHttpGet(r)
    \/ EndRunJobs
    \/ WaitNotification
    \/ Poll
    \/ SelectTimeout

HandlerStep(r) ==
    \/ LoadForRun(r)
    \/ SetStarted(r)
    \/ StartRefused(r)
    \/ JobDone(r)
    \/ RowChanged(r)
    \/ OtherConflict(r)
    \/ PostponeRefused(r)
    \/ \E ignore_retry \in BOOLEAN : RetryableError(r, ignore_retry)
    \/ NothingToDo(r)
    \/ JobFailed(r)
    \/ OutcomeLost(r)

ClientStep(r) ==
    \/ ClientTimeout(r)
    \/ ConnectionError(r)
    \/ SetJobPending(r)

Outside ==
    \/ \E u \in Uuids : CreateJob(u)
    \/ \E u \in Uuids : Requeue(u)
    \/ \E u \in Uuids : ButtonDone(u)
    \/ \E u \in Uuids : Autovacuum(u)
    \/ RunnerException
    \/ Crash
    \/ \E r \in Requests : WorkerKilled(r)

Next ==
    \/ RunnerStep
    \/ \E r \in Requests : HandlerStep(r)
    \/ \E r \in Requests : ClientStep(r)
    \/ Outside
    \/ Tick

Spec == Init /\ [][Next]_vars

(***************************************************************************)
(* The runner thread and the Odoo workers keep running, a client thread    *)
(* that has timed out gets to its UPDATE, and time passes.  Nothing says   *)
(* that users act, that jobs are created or that anything fails.           *)
(***************************************************************************)
Fairness ==
    /\ WF_vars(RunnerStep)
    /\ \A r \in Requests : WF_vars(HandlerStep(r))
    /\ \A r \in Requests : WF_vars(SetJobPending(r))
    /\ WF_vars(Tick)

FairSpec == Spec /\ Fairness

-----------------------------------------------------------------------------
(* Properties                                                              *)

Happened(kind) == left[kind] < Allowance[kind]

\* A handler performs u, and nothing keeps it from storing the outcome.
Performs(r, u) ==
    /\ Active(r)
    /\ req[r].job = u
    /\ req[r].server = "started"
    /\ ~req[r].stale

\* A request for u will still look at its row, or its client will put it back.
Watches(r, u) ==
    /\ Active(r)
    /\ req[r].job = u
    /\ req[r].server \in {"sent", "loaded"} \/ req[r].client = "timedout"

Attended(u) ==
    /\ row[u].state = STARTED => \E r \in Requests : Performs(r, u)
    /\ row[u].state = ENQUEUED =>
          (cur = u /\ pc = "requesting") \/ \E r \in Requests : Watches(r, u)

\* The docstring of the runner knows one way to get stale jobs: the server, or
\* a part of it, dies.  Unless one did, a job that is enqueued has a request that
\* will look at it, or a client that will put it back, and a job that is
\* started has a handler that performs it.
NoStaleJob ==
    ~Happened("crash") /\ ~Happened("exception") =>
        \A u \in Uuids \ Unreadable : Exists(u) => Attended(u)

\* The client puts a job back "to avoid keeping it as enqueued" (comment in
\* _async_http_get) when the request has failed.
NotKeptEnqueued ==
    ~Happened("crash") /\ ~Happened("exception") =>
        \A u \in Uuids : Exists(u) /\ row[u].state = ENQUEUED => Attended(u)

\* The runner has read the row of u after its last change.
UpToDate(u) ==
    /\ pc \notin {"starting", "listening"}
    /\ u \notin DOMAIN selected \cup socket \cup notifies \cup {cur}

\* What the runner knows of a job whose last change it has read is what the
\* database says: no job is lost in the tree and none holds a place after it
\* is done, failed or deleted.
ViewFollowsRows ==
    \A u \in Uuids : UpToDate(u) =>
        LET o == JobOf(u, row[u])
            own == ChannelOf[u]
        IN  IF ~Exists(u) \/ row[u].state = DONE THEN jobs[u] = NoJob
            ELSE /\ jobs[u] = o
                 /\ row[u].state = FAILED => o \in failed[own]
                 /\ row[u].state = PENDING => \E c \in Path[own] : o \in queue[c]
                 /\ row[u].state \in {ENQUEUED, STARTED} => o \in running[own]

\* While the runner sleeps with nothing to read, every pending job whose time
\* had come waits behind a channel that is full or blocked by a failed job.
IdleMeansBlocked ==
    pc = "select" /\ socket = {} =>
        \A u \in Uuids : Exists(u) /\ row[u].state = PENDING /\ row[u].eta <= asof =>
            \E c \in Path[ChannelOf[u]] :
                /\ JobOf(u, row[u]) \in queue[c]
                /\ \/ c \in Sequential /\ failed[c] # {}
                   \/ Capacity[c] # 0 /\ Cardinality(running[c]) >= Capacity[c]

\* The handlers that have decided to run a job of channel c or of a channel
\* upstream, or are running it.
RunningIn(c) == {r \in Requests : /\ Active(r)
                                  /\ req[r].server \in {"loaded", "started"}
                                  /\ c \in Path[ChannelOf[req[r].job]]}

\* A channel has "a maximum capacity" (docstring of Channel): no more handlers
\* than that are at work on its jobs, two of the same job included.
CapacityRespected ==
    \A c \in Channels : Capacity[c] # 0 => Cardinality(RunningIn(c)) <= Capacity[c]

\* The effects of a job are committed once each time it is queued.
CommittedOnce == \A u \in Uuids : commits[u] <= 1

\* A job that is enqueued or started holds a place in each channel down to the
\* root (docstring of set_running), once the runner has read it.
RunningInAllChannels ==
    \A u \in Uuids :
        UpToDate(u) /\ Exists(u) /\ row[u].state \in {ENQUEUED, STARTED} =>
            \A c \in Path[ChannelOf[u]] : JobOf(u, row[u]) \in running[c]

\* The life of a job as its row tells it
StatusOf(u) ==
    CASE row[u] = NotCreated -> "absent"
      [] row[u] = Deleted -> "deleted"
      [] Exists(u) /\ row[u].state = PENDING -> "waiting"
      [] Exists(u) /\ row[u].state = ENQUEUED -> "enqueued"
      [] Exists(u) /\ row[u].state = STARTED -> "running"
      [] OTHER -> row[u].state

Status == [u \in Uuids |-> StatusOf(u)]

Queue == INSTANCE JobQueue WITH
            Jobs <- Uuids, Downstream <- Path, Room <- Capacity,
            ChannelOfJob <- ChannelOf, status <- Status

\* While neither users nor timeouts interfere, the runner, the controller and
\* the storage together implement the job queue of module JobQueue: a job is
\* enqueued when it waits and all its channels have room, and it is started
\* and finished at most once for each time it is enqueued, crashes included.
ImplementsQueue == Queue!Spec

\* "If something tries to run a job that is not enqueued before its
\* execution, stop" (comment in _try_perform_job): a handler starts a job
\* whose row is enqueued.
StartsEnqueued ==
    [][\A r \in Requests : SetStarted(r) =>
          Exists(req[r].job) /\ row[req[r].job].state = ENQUEUED]_vars

\* The cron deletes jobs that are done (docstring of autovacuum).
VacuumsDone ==
    [][\A u \in Uuids : Exists(u) /\ row'[u] = Deleted => row[u].state = DONE]_vars

\* "The job will fail if the number of tries reach the max. retries" (help of
\* max_retries): no job waits for another try once it has reached them.
RetriesBounded ==
    MaxRetries # 0 =>
        \A u \in Uuids : Exists(u) /\ row[u].state = PENDING => row[u].retry < MaxRetries

\* Every job comes to an end: done, failed, or behind a failed job.
EventuallySettled ==
    \A u \in Uuids :
        Exists(u) ~> \/ ~Exists(u)
                     \/ row[u].state \in {DONE, FAILED}
                     \/ \E c \in Sequential \cap Path[ChannelOf[u]] : failed[c] # {}

=============================================================================
