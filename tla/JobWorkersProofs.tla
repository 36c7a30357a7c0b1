------------------------- MODULE JobWorkersProofs --------------------------
(***************************************************************************)
(* The polling workers, for any number of jobs, workers and disturbances:  *)
(* the types, that no job is forgotten, and, as long as no user touches a  *)
(* job and no living worker is taken for dead, that a job is in one place  *)
(* only, from which it follows that one worker works on it and commits     *)
(* its work once; and, with users, that a commit uses up a claim on the    *)
(* job that only a user can add, which bounds the commits.                 *)
(***************************************************************************)
EXTENDS JobWorkers, FiniteSetTheorems, TLAPS

-----------------------------------------------------------------------------
(* The helpers                                                             *)

\* What store leaves in the table.
LEMMA StoreRow ==
    ASSUME WorkersTypeOK, NEW j \in Jobs, NEW state \in States,
           NEW worker \in Workers \cup {None}, Store(j, state, worker)
    PROVE  /\ row' \in [Jobs -> Rows]
           /\ row'[j] = Row(state, IF worker \in registered THEN worker ELSE None)
           /\ row'[j].state = state
           /\ row'[j].worker = IF worker \in registered THEN worker ELSE None
           /\ row'[j].worker \in registered \cup {None}
           /\ \A i \in Jobs : i # j => row'[i] = row[i]
           /\ \A i \in Jobs : row'[i].worker \in registered \cup {None}
BY DEF WorkersTypeOK, Store, Row, Rows

LEMMA SpendType ==
    ASSUME WorkersTypeOK, NEW kind \in Perturbations, Spend(kind)
    PROVE  /\ left' \in [Perturbations -> Nat]
           /\ left'["user"] <= left["user"]
           /\ kind = "user" => left'["user"] < left["user"]
           /\ kind # "user" => left'["user"] = left["user"]
BY DEF WorkersTypeOK, Spend, Perturbations

\* The job that a thread works on.
LEMMA TaskJob ==
    ASSUME WorkersTypeOK, NEW w \in Workers, thread[w] # None
    PROVE  thread[w] \in Tasks /\ thread[w].job \in Jobs
BY DEF WorkersTypeOK, Tasks

LEMMA PutType ==
    ASSUME WorkersTypeOK, NEW w \in Workers, NEW j \in Jobs, Put(w, j)
    PROVE  /\ memory' \in [Workers -> [Jobs -> Nat]]
           /\ memory'[w][j] = memory[w][j] + 1
           /\ \A v \in Workers, i \in Jobs :
                 v # w \/ i # j => memory'[v][i] = memory[v][i]
BY DEF WorkersTypeOK, Put

LEMMA PhaseType ==
    ASSUME WorkersTypeOK, NEW w \in Workers, NEW j \in Jobs,
           NEW phase \in {"reset", "start", "started", "perform"}, Phase(w, j, phase)
    PROVE  /\ thread' \in [Workers -> Tasks \cup {None}]
           /\ thread'[w] # None
           /\ thread'[w].job = j /\ thread'[w].phase = phase /\ thread'[w].snap = row[j]
           /\ \A v \in Workers : v # w => thread'[v] = thread[v]
<1>1. [job |-> j, phase |-> phase, snap |-> row[j]] \in Tasks
  BY DEF WorkersTypeOK, Tasks
<1> QED BY <1>1, WorkersAssumption DEF Phase, WorkersTypeOK

LEMMA IdleType ==
    ASSUME WorkersTypeOK, NEW w \in Workers, Idle(w)
    PROVE  /\ thread' \in [Workers -> Tasks \cup {None}]
           /\ thread'[w] = None
           /\ \A v \in Workers : v # w => thread'[v] = thread[v]
BY DEF Idle, WorkersTypeOK

-----------------------------------------------------------------------------
(* Types                                                                   *)

LEMMA TypeInit == Init => WorkersTypeOK
<1> SUFFICES ASSUME Init PROVE WorkersTypeOK
  OBVIOUS
<1>1. row \in [Jobs -> Rows] /\ \A j \in Jobs : row[j].worker = None
  BY DEF Init, Row, Rows, States
<1> QED BY <1>1, WorkersAssumption DEF Init, WorkersTypeOK

LEMMA TypeNext == WorkersTypeOK /\ [Next]_vars => WorkersTypeOK'
<1> SUFFICES ASSUME WorkersTypeOK, [Next]_vars PROVE WorkersTypeOK'
  OBVIOUS
<1> USE DEF WorkersTypeOK
<1>1. CASE UNCHANGED vars
  BY <1>1 DEF vars
<1>2. ASSUME NEW w \in Workers, NEW j \in Jobs, Load(w, j) PROVE WorkersTypeOK'
  <2>1. memory' \in [Workers -> [Jobs -> Nat]]
    BY <1>2 DEF Load
  <2>2. thread' \in [Workers -> Tasks \cup {None}]
    BY <1>2, PhaseType DEF Load
  <2> QED BY <1>2, <2>1, <2>2 DEF Load
<1>3. ASSUME NEW w \in Workers, Reset(w) PROVE WorkersTypeOK'
  <2>1. thread[w].job \in Jobs
    BY <1>3, TaskJob DEF Reset, In
  <2>2. Store(thread[w].job, "pending", None) /\ "pending" \in States /\ Idle(w)
    BY <1>3 DEF Reset, States
  <2> QED BY <1>3, <2>1, <2>2, StoreRow, IdleType DEF Reset
<1>4. ASSUME NEW w \in Workers, Start(w) PROVE WorkersTypeOK'
  <2>1. thread[w].job \in Jobs /\ thread[w] \in Tasks
    BY <1>4, TaskJob DEF Start, In
  <2>2. Store(thread[w].job, "started", w) /\ "started" \in States
    BY <1>4 DEF Start, States
  <2>3. thread' \in [Workers -> Tasks \cup {None}]
    BY <1>4, <2>1 DEF Start, Tasks
  <2> QED BY <1>4, <2>1, <2>2, <2>3, StoreRow DEF Start
<1>5. ASSUME NEW w \in Workers, Perform(w) PROVE WorkersTypeOK'
  <2>1. thread[w].job \in Jobs
    BY <1>5, TaskJob DEF Perform, In
  <2> QED BY <1>5, <2>1, PhaseType DEF Perform
<1>6. ASSUME NEW w \in Workers, NEW j \in Jobs, RetryPostpone(w, j)
      PROVE  /\ row' \in [Jobs -> Rows]
             /\ \A i \in Jobs : row'[i].worker \in registered \cup {None}
             /\ memory' \in [Workers -> [Jobs -> Nat]]
             /\ thread' \in [Workers -> Tasks \cup {None}]
  <2>1. Store(j, "enqueued", w) /\ "enqueued" \in States
    BY <1>6 DEF RetryPostpone, States
  <2> QED BY <1>6, <2>1, StoreRow, PutType, IdleType DEF RetryPostpone
<1>7. ASSUME NEW w \in Workers, Done(w) PROVE WorkersTypeOK'
  <2> DEFINE j == thread[w].job
  <2>1. j \in Jobs
    BY <1>7, TaskJob DEF Done, In
  <2>2. UNCHANGED <<registered, late, up, cron, left, stalled, dropped>>
    BY <1>7 DEF Done
  <2>3. CASE row[j] # thread[w].snap
    <3>1. RetryPostpone(w, j) /\ UNCHANGED commits
      BY <1>7, <2>3 DEF Done
    <3> QED BY <1>6, <2>1, <2>2, <3>1
  <2>4. CASE row[j] = thread[w].snap
    <3>1. Store(j, "done", None) /\ "done" \in States /\ Idle(w) /\ UNCHANGED memory
      BY <1>7, <2>4 DEF Done, States
    <3>2. commits' \in [Jobs -> Nat]
      BY <1>7, <2>4 DEF Done
    <3> QED BY <2>1, <2>2, <3>1, <3>2, StoreRow, IdleType
  <2> QED BY <2>3, <2>4
<1>8. ASSUME NEW w \in Workers, Retryable(w) PROVE WorkersTypeOK'
  <2>1. thread[w].job \in Jobs /\ "retry" \in Perturbations
    BY <1>8, TaskJob DEF Retryable, In, Perturbations
  <2> QED BY <1>6, <1>8, <2>1, SpendType DEF Retryable
<1>9. ASSUME NEW w \in Workers, NEW s \in Ended, Ends(w, s) PROVE WorkersTypeOK'
  <2>1. thread[w].job \in Jobs /\ s \in States
    BY <1>9, TaskJob DEF Ends, In, Ended, States
  <2> QED BY <1>9, <2>1, StoreRow, IdleType DEF Ends
<1>10. ASSUME NEW w \in Workers, Broken(w) PROVE WorkersTypeOK'
  <2>1. thread[w].job \in Jobs /\ "broken" \in Perturbations
    BY <1>10, TaskJob DEF Broken, Perturbations
  <2> QED BY <1>10, <2>1, SpendType, IdleType DEF Broken
<1>11. ASSUME NEW w \in Workers, AssignJobs(w) PROVE WorkersTypeOK'
  <2>1. Row("pending", w) \in Rows /\ Row("pending", w).worker \in registered
    BY <1>11 DEF AssignJobs, Row, Rows, States
  <2>2. /\ row' \in [Jobs -> Rows]
        /\ \A i \in Jobs : row'[i].worker \in registered \cup {None}
    BY <1>11, <2>1 DEF AssignJobs
  <2>3. cron' \in [Workers -> SUBSET Jobs]
    BY <1>11 DEF AssignJobs
  <2> QED BY <1>11, <2>2, <2>3 DEF AssignJobs
<1>12. ASSUME NEW w \in Workers, NEW j \in Jobs, EnqueueJobUuid(w, j) PROVE WorkersTypeOK'
  <2>1. Store(j, "enqueued", w) /\ "enqueued" \in States
    BY <1>12 DEF EnqueueJobUuid, States
  <2>2. cron' \in [Workers -> SUBSET Jobs]
    BY <1>12 DEF EnqueueJobUuid
  <2> QED BY <1>12, <2>1, <2>2, StoreRow, PutType DEF EnqueueJobUuid
<1>13. ASSUME NEW w \in Workers, NotifyAlive(w) \/ NewWorker(w) PROVE WorkersTypeOK'
  BY <1>13 DEF NotifyAlive, NewWorker
<1>14. ASSUME NEW w \in Workers, Timeout(w) PROVE WorkersTypeOK'
  <2>1. left' \in [Perturbations -> Nat]
    BY <1>14, SpendType DEF Timeout, Perturbations
  <2> QED BY <1>14, <2>1 DEF Timeout
<1>15. ASSUME NEW w \in Workers, Crash(w) PROVE WorkersTypeOK'
  <2>1. left' \in [Perturbations -> Nat]
    BY <1>15, SpendType DEF Crash, Perturbations
  <2>2. memory' \in [Workers -> [Jobs -> Nat]] /\ cron' \in [Workers -> SUBSET Jobs]
    BY <1>15 DEF Crash
  <2> QED BY <1>15, <2>1, <2>2, IdleType DEF Crash
<1>16. CASE PurgeDeadWorkers
  <2>1. \A j \in Jobs : row[j].worker \in late => Row(row[j].state, None) \in Rows
    BY DEF Row, Rows
  <2>2. row' \in [Jobs -> Rows]
    BY <1>16, <2>1 DEF PurgeDeadWorkers
  <2>3. \A j \in Jobs : row'[j].worker \in registered' \cup {None}
    BY <1>16 DEF PurgeDeadWorkers, Row
  <2> QED BY <1>16, <2>2, <2>3 DEF PurgeDeadWorkers
<1>17. ASSUME NEW j \in Jobs, Requeue(j) \/ ButtonDone(j) PROVE WorkersTypeOK'
  <2>1. \E s \in {"pending", "done"} : Store(j, s, None)
    BY <1>17 DEF Requeue, ButtonDone
  <2>2. PICK s \in States : Store(j, s, None)
    BY <2>1 DEF States
  <2>3. left' \in [Perturbations -> Nat]
    BY <1>17, SpendType DEF Requeue, ButtonDone, Perturbations
  <2>4. /\ row' \in [Jobs -> Rows]
        /\ \A i \in Jobs : row'[i].worker \in registered \cup {None}
    BY <2>2, StoreRow
  <2> QED BY <1>17, <2>3, <2>4 DEF Requeue, ButtonDone
<1> QED
  BY <1>1, <1>2, <1>3, <1>4, <1>5, <1>7, <1>8, <1>9, <1>10, <1>11, <1>12, <1>13, <1>14,
     <1>15, <1>16, <1>17
  DEF Next, ThreadStep, CronStep

\* The rows, queues and threads are well typed, and the worker of a job has a
\* row or the job has none (queue/model.py).
THEOREM WorkersTypes == Spec => []WorkersTypeOK
BY TypeInit, TypeNext, PTL DEF Spec

-----------------------------------------------------------------------------
(* No job is forgotten                                                     *)

\* What NoJobForgotten says of one job.
Kept(j) ==
    LET w == row[j].worker
    IN row[j].state \in Ended \/ w = None \/ w \notin up \/ HasIt(w, j)

\* A stored job is safe when it has ended, is pending, has no worker, or its
\* worker has it.
LEMMA KeptStored ==
    ASSUME WorkersTypeOK, NEW j \in Jobs, NEW state \in States,
           NEW worker \in Workers \cup {None}, Store(j, state, worker),
           \/ state \in Ended \/ state = "pending" \/ worker = None
           \/ HasIt(worker, j)'
    PROVE  Kept(j)'
<1>1. /\ row'[j].state = state
      /\ row'[j].worker = IF worker \in registered THEN worker ELSE None
  BY StoreRow
<1> QED BY <1>1 DEF Kept, HasIt

LEMMA ForgottenInit == Init => NoJobForgotten
BY DEF Init, NoJobForgotten, Row

LEMMA ForgottenNext == WorkersTypeOK /\ NoJobForgotten /\ [Next]_vars => NoJobForgotten'
<1> SUFFICES ASSUME WorkersTypeOK, NoJobForgotten, [Next]_vars,
                    NEW i \in Jobs \ dropped'
             PROVE  Kept(i)'
  BY DEF NoJobForgotten, Kept
<1>0. i \in Jobs /\ (i \notin dropped => Kept(i))
  BY DEF NoJobForgotten, Kept
<1>1. CASE UNCHANGED vars
  BY <1>0, <1>1 DEF vars, Kept, HasIt
<1>2. ASSUME NEW w \in Workers, NEW j \in Jobs, Load(w, j) PROVE Kept(i)'
  <2>1. /\ UNCHANGED <<row, up, cron, dropped>> /\ thread[w] = None
        /\ memory' = [memory EXCEPT ![w][j] = @ - 1]
        /\ thread' = thread \/ \E p \in {"reset", "start"} : Phase(w, j, p)
    BY <1>2 DEF Load
  <2>2. CASE i = j /\ row[j].state \notin {"done", "pending"}
    <3>1. PICK p \in {"reset", "start", "started", "perform"} : Phase(w, j, p)
      BY <1>2, <2>2 DEF Load
    <3>2. thread'[w] # None /\ thread'[w].job = j /\ \A v \in Workers : v # w => thread'[v] = thread[v]
      BY <3>1, PhaseType
    <3>3. \A v \in Workers : v # w => memory'[v][j] = memory[v][j]
      BY <2>1 DEF WorkersTypeOK
    <3> QED BY <1>0, <2>1, <2>2, <3>2, <3>3 DEF Kept, HasIt, WorkersTypeOK
  <2>3. CASE i = j /\ row[j].state \in {"done", "pending"}
    BY <2>1, <2>3 DEF Kept, HasIt, Ended
  <2>4. CASE i # j
    <3>1. \A v \in Workers : memory'[v][i] = memory[v][i]
      BY <2>1, <2>4 DEF WorkersTypeOK
    <3>2. \A v \in Workers : thread[v] # None => thread'[v] = thread[v]
      BY <2>1, PhaseType
    <3> QED BY <1>0, <2>1, <3>1, <3>2 DEF Kept, HasIt, WorkersTypeOK
  <2> QED BY <2>2, <2>3, <2>4
<1>3. ASSUME NEW w \in Workers, Reset(w) PROVE Kept(i)'
  <2> DEFINE j == thread[w].job
  <2>1. j \in Jobs /\ Store(j, "pending", None) /\ "pending" \in States /\ Idle(w)
        /\ UNCHANGED <<up, memory, cron, dropped>>
    BY <1>3, TaskJob DEF Reset, In, States
  <2>2. CASE i = j
    BY <2>1, <2>2, KeptStored
  <2>3. CASE i # j
    <3>1. row'[i] = row[i]
      BY <1>0, <2>1, <2>3, StoreRow
    <3>2. \A v \in Workers : v # w => thread'[v] = thread[v]
      BY <2>1, IdleType
    <3> QED BY <1>0, <2>1, <2>3, <3>1, <3>2 DEF Kept, HasIt, WorkersTypeOK
  <2> QED BY <2>2, <2>3
<1>4. ASSUME NEW w \in Workers, Start(w) PROVE Kept(i)'
  <2> DEFINE j == thread[w].job
  <2>1. j \in Jobs /\ Store(j, "started", w) /\ "started" \in States
        /\ UNCHANGED <<up, memory, cron, dropped>> /\ thread[w] \in Tasks
        /\ thread' = [thread EXCEPT ![w].phase = "started"]
    BY <1>4, TaskJob DEF Start, In, States
  <2>2. /\ thread'[w] \in Tasks /\ thread'[w].job = j /\ thread'[w] # None
        /\ \A v \in Workers : v # w => thread'[v] = thread[v]
    BY <2>1, WorkersAssumption DEF Tasks, WorkersTypeOK
  <2>3. CASE i = j
    BY <2>1, <2>2, <2>3, KeptStored DEF HasIt
  <2>4. CASE i # j
    <3>1. row'[i] = row[i]
      BY <1>0, <2>1, <2>4, StoreRow
    <3> QED BY <1>0, <2>1, <2>2, <2>4, <3>1 DEF Kept, HasIt, WorkersTypeOK
  <2> QED BY <2>3, <2>4
<1>5. ASSUME NEW w \in Workers, Perform(w) PROVE Kept(i)'
  <2>1. /\ thread[w].job \in Jobs /\ Phase(w, thread[w].job, "perform")
        /\ UNCHANGED <<row, up, memory, cron, dropped>> /\ thread[w] # None
    BY <1>5, TaskJob DEF Perform, In
  <2>2. /\ thread'[w] # None /\ thread'[w].job = thread[w].job
        /\ \A v \in Workers : v # w => thread'[v] = thread[v]
    BY <2>1, PhaseType
  <2> QED BY <1>0, <2>1, <2>2 DEF Kept, HasIt, WorkersTypeOK
<1>6. ASSUME NEW w \in Workers, NEW j \in Jobs, thread[w].job = j,
             RetryPostpone(w, j), UNCHANGED <<up, cron, dropped>>
      PROVE  Kept(i)'
  <2>1. /\ Store(j, "enqueued", w) /\ "enqueued" \in States
        /\ memory'[w][j] = memory[w][j] + 1
        /\ \A v \in Workers, k \in Jobs : v # w \/ k # j => memory'[v][k] = memory[v][k]
        /\ \A v \in Workers : v # w => thread'[v] = thread[v]
    BY <1>6, PutType, IdleType DEF RetryPostpone, States
  <2>2. CASE i = j
    <3>1. HasIt(w, j)'
      BY <2>1 DEF HasIt, WorkersTypeOK
    <3> QED BY <2>1, <2>2, <3>1, KeptStored
  <2>3. CASE i # j
    <3>1. row'[i] = row[i]
      BY <1>0, <2>1, <2>3, StoreRow
    <3> QED BY <1>0, <1>6, <2>1, <2>3, <3>1 DEF Kept, HasIt, WorkersTypeOK
  <2> QED BY <2>2, <2>3
<1>7. ASSUME NEW w \in Workers, NEW j \in Jobs, thread[w].job = j, NEW s \in Ended,
             Store(j, s, None), Idle(w), UNCHANGED <<up, cron, memory, dropped>>
      PROVE  Kept(i)'
  <2>1. s \in States
    BY DEF Ended, States
  <2>2. CASE i = j
    BY <1>7, <2>1, <2>2, KeptStored
  <2>3. CASE i # j
    <3>1. row'[i] = row[i]
      BY <1>0, <1>7, <2>1, <2>3, StoreRow
    <3>2. \A v \in Workers : v # w => thread'[v] = thread[v]
      BY <1>7, IdleType
    <3> QED BY <1>0, <1>7, <2>3, <3>1, <3>2 DEF Kept, HasIt, WorkersTypeOK
  <2> QED BY <2>2, <2>3
<1>8. ASSUME NEW w \in Workers, Done(w) PROVE Kept(i)'
  <2>1. thread[w].job \in Jobs /\ "done" \in Ended /\ UNCHANGED <<up, cron, dropped>>
    BY <1>8, TaskJob DEF Done, In, Ended
  <2>2. CASE row[thread[w].job] # thread[w].snap
    BY <1>6, <1>8, <2>1, <2>2 DEF Done
  <2>3. CASE row[thread[w].job] = thread[w].snap
    BY <1>7, <1>8, <2>1, <2>3 DEF Done
  <2> QED BY <2>2, <2>3
<1>9. ASSUME NEW w \in Workers, Retryable(w) PROVE Kept(i)'
  <2>1. thread[w].job \in Jobs
    BY <1>9, TaskJob DEF Retryable, In
  <2> QED BY <1>6, <1>9, <2>1 DEF Retryable
<1>10. ASSUME NEW w \in Workers, NEW s \in Ended, Ends(w, s) PROVE Kept(i)'
  <2>1. thread[w].job \in Jobs
    BY <1>10, TaskJob DEF Ends, In
  <2> QED BY <1>7, <1>10, <2>1 DEF Ends
<1>11. ASSUME NEW w \in Workers, Broken(w) PROVE Kept(i)'
  <2>1. /\ UNCHANGED <<row, up, memory, cron>>
        /\ dropped' = dropped \cup {thread[w].job}
        /\ \A v \in Workers : v # w => thread'[v] = thread[v]
    BY <1>11, IdleType DEF Broken
  <2> QED BY <1>0, <2>1 DEF Kept, HasIt, WorkersTypeOK
<1>12. ASSUME NEW w \in Workers, AssignJobs(w) PROVE Kept(i)'
  <2>1. /\ UNCHANGED <<up, memory, thread, dropped>> /\ cron[w] = {}
        /\ row'[i] = IF i \in Assignable THEN Row("pending", w) ELSE row[i]
        /\ \A v \in Workers : v # w => cron'[v] = cron[v]
    BY <1>0, <1>12 DEF AssignJobs, WorkersTypeOK
  <2>2. CASE i \in Assignable
    BY <2>1, <2>2 DEF Kept, HasIt, Row
  <2>3. CASE i \notin Assignable
    BY <1>0, <2>1, <2>3 DEF Kept, HasIt, WorkersTypeOK
  <2> QED BY <2>2, <2>3
<1>13. ASSUME NEW w \in Workers, NEW j \in Jobs, EnqueueJobUuid(w, j) PROVE Kept(i)'
  <2>1. /\ Store(j, "enqueued", w) /\ "enqueued" \in States
        /\ memory'[w][j] = memory[w][j] + 1
        /\ \A v \in Workers, k \in Jobs : v # w \/ k # j => memory'[v][k] = memory[v][k]
        /\ cron' = [cron EXCEPT ![w] = @ \ {j}]
        /\ UNCHANGED <<up, thread, dropped>>
    BY <1>13, PutType DEF EnqueueJobUuid, States
  <2>2. CASE i = j
    <3>1. HasIt(w, j)'
      BY <2>1 DEF HasIt, WorkersTypeOK
    <3> QED BY <2>1, <2>2, <3>1, KeptStored
  <2>3. CASE i # j
    <3>1. row'[i] = row[i]
      BY <1>0, <2>1, <2>3, StoreRow
    <3> QED BY <1>0, <2>1, <2>3, <3>1 DEF Kept, HasIt, WorkersTypeOK
  <2> QED BY <2>2, <2>3
<1>14. ASSUME NEW w \in Workers, NotifyAlive(w) \/ Timeout(w) PROVE Kept(i)'
  <2>1. UNCHANGED <<row, up, memory, thread, cron, dropped>>
    BY <1>14 DEF NotifyAlive, Timeout
  <2> QED BY <1>0, <2>1 DEF Kept, HasIt
<1>15. ASSUME NEW w \in Workers, NewWorker(w) PROVE Kept(i)'
  <2>1. /\ UNCHANGED <<row, memory, thread, cron, dropped>>
        /\ w \notin registered /\ up' = up \cup {w}
    BY <1>15 DEF NewWorker
  <2> QED BY <1>0, <2>1 DEF Kept, HasIt, WorkersTypeOK
<1>16. ASSUME NEW w \in Workers, Crash(w) PROVE Kept(i)'
  <2>1. /\ UNCHANGED <<row, dropped>> /\ up' = up \ {w}
        /\ \A v \in Workers : v # w => /\ memory'[v] = memory[v] /\ cron'[v] = cron[v]
                                       /\ thread'[v] = thread[v]
    BY <1>16, IdleType DEF Crash, WorkersTypeOK
  <2> QED BY <1>0, <2>1 DEF Kept, HasIt, WorkersTypeOK
<1>17. CASE PurgeDeadWorkers
  <2>1. /\ UNCHANGED <<up, memory, thread, cron, dropped>>
        /\ row'[i] = IF row[i].worker \in late THEN Row(row[i].state, None) ELSE row[i]
    BY <1>0, <1>17 DEF PurgeDeadWorkers
  <2> QED BY <1>0, <2>1 DEF Kept, HasIt, Row
<1>18. ASSUME NEW j \in Jobs, Requeue(j) \/ ButtonDone(j) PROVE Kept(i)'
  <2>1. /\ \E s \in {"pending", "done"} : Store(j, s, None)
        /\ UNCHANGED <<up, memory, thread, cron, dropped>>
    BY <1>18 DEF Requeue, ButtonDone
  <2>2. PICK s \in {"pending", "done"} : Store(j, s, None)
    BY <2>1
  <2>3. s \in States
    BY DEF States
  <2>4. CASE i = j
    BY <2>2, <2>3, <2>4, KeptStored
  <2>5. CASE i # j
    <3>1. row'[i] = row[i]
      BY <1>0, <2>2, <2>3, <2>5, StoreRow
    <3> QED BY <1>0, <2>1, <3>1 DEF Kept, HasIt
  <2> QED BY <2>4, <2>5
<1> QED
  BY <1>1, <1>2, <1>3, <1>4, <1>5, <1>8, <1>9, <1>10, <1>11, <1>12, <1>13, <1>14, <1>15,
     <1>16, <1>17, <1>18
  DEF Next, ThreadStep, CronStep

\* Whatever dies, is retried, reset, purged or touched by users, a job that is
\* to be done waits for a worker or has one that will come to it.
THEOREM NoJobsForgotten == Spec => []NoJobForgotten
BY TypeInit, TypeNext, ForgottenInit, ForgottenNext, PTL DEF Spec

-----------------------------------------------------------------------------
(* One worker at work                                                      *)

\* A job is in the thread, in the queue or with the cron of a worker that runs
\* only if the row says so: the worker's, in the state that goes with it.
Queued(w, j) == memory[w][j] > 0
Threads(w, j) == thread[w] # None /\ thread[w].job = j

InPlace(w, j) ==
    /\ Queued(w, j) => /\ memory[w][j] = 1 /\ row[j] = Row("enqueued", w)
                       /\ ~Threads(w, j)
    /\ j \in cron[w] => row[j] = Row("pending", w)
    /\ Threads(w, j) =>
          \/ thread[w].phase = "start" /\ row[j] = Row("enqueued", w)
          \/ thread[w].phase \in {"started", "perform"} /\ row[j] = Row("started", w)

\* What holds until a user or a wrong purge disturbs the workers.
Places ==
    /\ up \subseteq registered
    /\ \A w \in Workers, j \in Jobs : w \in up => InPlace(w, j)
    /\ \A w \in Workers, j \in Jobs : w \notin up =>
          ~Queued(w, j) /\ j \notin cron[w] /\ thread[w] = None
    /\ \A j \in Jobs : commits[j] <= 1 /\ (commits[j] = 1 => row[j].state = "done")

Undisturbed ==
    /\ left["user"] <= Allowance["user"]
    /\ ~Disturbed => Places

LEMMA UndisturbedInit == Init => Undisturbed
<1> SUFFICES ASSUME Init PROVE Undisturbed
  OBVIOUS
<1>1. left["user"] <= Allowance["user"]
  BY WorkersAssumption DEF Init, Perturbations
<1> QED BY <1>1 DEF Init, Undisturbed, Places, InPlace, Queued, Threads, Row

\* A user's changes are not undone, nor are the purges of living workers.
LEMMA Disturbances ==
    ASSUME WorkersTypeOK, [Next]_vars
    PROVE  left'["user"] <= left["user"] /\ stalled \subseteq stalled'
<1>1. /\ stalled \subseteq stalled'
      /\ left' = left \/ \E k \in Perturbations : Spend(k)
  BY DEF Next, ThreadStep, CronStep, vars, Perturbations, Load, Reset, Start, Perform, Done,
     Retryable, Ends, Broken, AssignJobs, EnqueueJobUuid, NotifyAlive, Timeout, Crash,
     NewWorker, PurgeDeadWorkers, Requeue, ButtonDone
<1> QED BY <1>1, SpendType DEF WorkersTypeOK, Perturbations

\* Disturbances are not undone.
LEMMA StaysDisturbed ==
    ASSUME WorkersTypeOK, Undisturbed, [Next]_vars
    PROVE  /\ left'["user"] <= Allowance["user"]
           /\ ~Disturbed' => ~Disturbed /\ stalled' = {} /\ left'["user"] = left["user"]
<1>1. Allowance["user"] \in Nat /\ left["user"] \in Nat /\ left["user"] <= Allowance["user"]
  BY WorkersAssumption DEF Undisturbed, WorkersTypeOK, Perturbations
<1>2. /\ stalled \subseteq stalled' /\ left'["user"] <= left["user"]
      /\ left'["user"] \in Nat
  BY TypeNext, Disturbances DEF WorkersTypeOK, Perturbations
<1> QED BY <1>1, <1>2 DEF Disturbed

\* A job that a worker stores for itself or gives up: only its places and
\* those of no other worker are concerned.
LEMMA OthersStay ==
    ASSUME WorkersTypeOK, Places, NEW w \in up, NEW j \in Jobs,
           row[j].worker = w,
           \A i \in Jobs : i # j => row'[i] = row[i],
           \A v \in Workers : v # w =>
               memory'[v] = memory[v] /\ cron'[v] = cron[v] /\ thread'[v] = thread[v],
           \A i \in Jobs : i # j => /\ memory'[w][i] = memory[w][i]
                                   /\ (i \in cron'[w] <=> i \in cron[w])
                                   /\ (Threads(w, i)' => thread'[w] = thread[w]),
           up' = up, registered' = registered,
           InPlace(w, j)',
           \A i \in Jobs : i # j => commits'[i] = commits[i],
           commits'[j] <= 1 /\ (commits'[j] = 1 => row'[j].state = "done")
    PROVE  Places'
<1>1. \A v \in Workers : v \in up /\ v # w =>
          ~Queued(v, j) /\ j \notin cron[v] /\ ~Threads(v, j)
  BY DEF Places, InPlace, Row, WorkersTypeOK
<1>2. ASSUME NEW v \in Workers, NEW i \in Jobs, v \in up PROVE InPlace(v, i)'
  <2>1. InPlace(v, i)
    BY <1>2 DEF Places
  <2>2. CASE v = w /\ i = j
    BY <2>2
  <2>3. CASE v = w /\ i # j
    BY <2>1, <2>3 DEF InPlace, Queued, Threads
  <2>4. CASE v # w /\ i = j
    BY <1>1, <1>2, <2>4 DEF InPlace, Queued, Threads
  <2>5. CASE v # w /\ i # j
    BY <2>1, <2>5 DEF InPlace, Queued, Threads
  <2> QED BY <2>2, <2>3, <2>4, <2>5
<1>3. ASSUME NEW v \in Workers, NEW i \in Jobs, v \notin up
      PROVE  ~Queued(v, i)' /\ i \notin cron'[v] /\ thread'[v] = None
  BY <1>3 DEF Places, Queued
<1>4. \A i \in Jobs : commits'[i] <= 1 /\ (commits'[i] = 1 => row'[i].state = "done")
  BY DEF Places
<1> QED BY <1>2, <1>3, <1>4 DEF Places

\* The places of a worker after it has stored its job.
LEMMA StoredByOwner ==
    ASSUME WorkersTypeOK, Places, NEW w \in up, NEW j \in Jobs,
           NEW state \in States, NEW worker \in {w, None}, Store(j, state, worker)
    PROVE  /\ row'[j] = Row(state, worker)
           /\ \A i \in Jobs : i # j => row'[i] = row[i]
BY StoreRow, WorkersAssumption DEF Places, WorkersTypeOK

LEMMA PlacesNext ==
    ASSUME WorkersTypeOK, Undisturbed, Places, Next, ~Disturbed, ~Disturbed'
    PROVE  Places'
<1>1. /\ stalled = {} /\ stalled' = {}
      /\ ~(left["user"] < Allowance["user"]) /\ ~(left'["user"] < Allowance["user"])
      /\ up \subseteq Workers /\ up \subseteq registered
      /\ \A w \in up, i \in Jobs : InPlace(w, i)
  BY DEF Disturbed, Places, WorkersTypeOK
<1>2. ASSUME NEW w \in Workers, NEW j \in Jobs, Load(w, j) PROVE Places'
  <2>1. /\ w \in up /\ thread[w] = None /\ memory[w][j] = 1 /\ row[j] = Row("enqueued", w)
        /\ j \notin cron[w] /\ row[j].worker = w
    <3>1. w \in up /\ thread[w] = None /\ memory[w][j] > 0
      BY <1>2 DEF Load
    <3>2. InPlace(w, j) /\ Queued(w, j)
      BY <1>1, <3>1 DEF Queued
    <3>3. memory[w][j] = 1 /\ row[j] = Row("enqueued", w)
      BY <3>2 DEF InPlace
    <3> QED BY <3>1, <3>2, <3>3 DEF InPlace, Row
  <2>2. /\ Phase(w, j, "start")
        /\ memory' = [memory EXCEPT ![w][j] = @ - 1]
        /\ UNCHANGED <<row, registered, up, cron, commits>>
    BY <1>2, <2>1 DEF Load, Row
  <2>3. /\ thread'[w] # None /\ thread'[w].job = j /\ thread'[w].phase = "start"
        /\ \A v \in Workers : v # w => thread'[v] = thread[v]
    BY <2>2, PhaseType
  <2>4. /\ memory'[w][j] = 0
        /\ \A v \in Workers : v # w => memory'[v] = memory[v]
        /\ \A i \in Jobs : i # j => memory'[w][i] = memory[w][i]
    BY <2>1, <2>2 DEF WorkersTypeOK
  <2>5. InPlace(w, j)'
    BY <2>1, <2>2, <2>3, <2>4 DEF InPlace, Queued, Threads
  <2>6. commits'[j] <= 1 /\ (commits'[j] = 1 => row'[j].state = "done")
    BY <2>2 DEF Places
  <2>7. \A i \in Jobs : i # j => ~Threads(w, i)'
    BY <2>3 DEF Threads
  <2> QED BY <2>1, <2>2, <2>3, <2>4, <2>5, <2>6, <2>7, OthersStay
<1>3. ASSUME NEW w \in Workers, thread[w] # None
      PROVE  /\ w \in up /\ thread[w] \in Tasks /\ thread[w].job \in Jobs
             /\ row[thread[w].job].worker = w /\ thread[w].phase # "reset"
             /\ thread[w].phase = "start" => row[thread[w].job] = Row("enqueued", w)
             /\ thread[w].phase \in {"started", "perform"}
                => row[thread[w].job] = Row("started", w)
             /\ memory[w][thread[w].job] = 0 /\ thread[w].job \notin cron[w]
             /\ commits[thread[w].job] = 0
  <2> DEFINE j == thread[w].job
  <2>1. w \in up /\ j \in Jobs /\ thread[w] \in Tasks
    BY <1>3, TaskJob DEF Places
  <2>2. InPlace(w, j) /\ Threads(w, j)
    BY <1>1, <1>3, <2>1 DEF Threads
  <2>3. /\ commits[j] \in Nat /\ commits[j] <= 1 /\ (commits[j] = 1 => row[j].state = "done")
        /\ memory[w][j] \in Nat
    BY <2>1 DEF Places, WorkersTypeOK
  <2>4. row[j] = Row("enqueued", w) \/ row[j] = Row("started", w)
    BY <2>2 DEF InPlace
  <2>5. row[j].worker = w /\ row[j].state # "done" /\ row[j].state # "pending"
    BY <2>4 DEF Row
  <2>6. j \notin cron[w]
    BY <2>2, <2>5 DEF InPlace, Row
  <2>7. memory[w][j] = 0
    BY <2>2, <2>3 DEF InPlace, Queued
  <2>8. commits[j] = 0
    BY <2>3, <2>5
  <2>9. /\ thread[w].phase # "reset"
        /\ thread[w].phase = "start" => row[j] = Row("enqueued", w)
        /\ thread[w].phase \in {"started", "perform"} => row[j] = Row("started", w)
    BY <2>2 DEF InPlace
  <2> QED BY <2>1, <2>5, <2>6, <2>7, <2>8, <2>9
<1>4. ASSUME NEW w \in Workers, Reset(w) PROVE Places'
  BY <1>3, <1>4 DEF Reset, In
<1>5. ASSUME NEW w \in Workers, Start(w) PROVE Places'
  <2> DEFINE j == thread[w].job
  <2>1. /\ thread[w] # None /\ UNCHANGED <<registered, up, memory, cron, commits>>
        /\ Store(j, "started", w) /\ "started" \in States
        /\ thread' = [thread EXCEPT ![w].phase = "started"]
    BY <1>5 DEF Start, In, States
  <2>2. /\ w \in up /\ j \in Jobs /\ row[j].worker = w /\ memory[w][j] = 0
        /\ j \notin cron[w] /\ commits[j] = 0 /\ thread[w] \in Tasks
    BY <1>3, <2>1
  <2>3. row'[j] = Row("started", w) /\ \A i \in Jobs : i # j => row'[i] = row[i]
    BY <2>1, <2>2, StoredByOwner
  <2>4. /\ thread'[w].job = j /\ thread'[w].phase = "started"
        /\ \A v \in Workers : v # w => thread'[v] = thread[v]
    BY <2>1, <2>2 DEF WorkersTypeOK, Tasks
  <2>5. InPlace(w, j)'
    BY <2>1, <2>2, <2>3, <2>4 DEF InPlace, Queued, Threads
  <2>6. \A i \in Jobs : i # j => ~Threads(w, i)'
    BY <2>4 DEF Threads
  <2>7. commits'[j] <= 1 /\ commits'[j] # 1
    BY <2>1, <2>2
  <2> QED BY <2>1, <2>2, <2>3, <2>4, <2>5, <2>6, <2>7, OthersStay
<1>6. ASSUME NEW w \in Workers, Perform(w) PROVE Places'
  <2> DEFINE j == thread[w].job
  <2>1. /\ thread[w] # None /\ UNCHANGED <<row, registered, up, memory, cron, commits>>
        /\ Phase(w, j, "perform") /\ thread[w].phase = "started"
    BY <1>6 DEF Perform, In
  <2>2. /\ w \in up /\ j \in Jobs /\ row[j].worker = w /\ memory[w][j] = 0
        /\ j \notin cron[w] /\ commits[j] = 0 /\ row[j] = Row("started", w)
    BY <1>3, <2>1
  <2>3. /\ thread'[w].job = j /\ thread'[w].phase = "perform"
        /\ \A v \in Workers : v # w => thread'[v] = thread[v]
    BY <2>1, <2>2, PhaseType
  <2>4. InPlace(w, j)'
    BY <2>1, <2>2, <2>3 DEF InPlace, Queued, Threads
  <2>5. \A i \in Jobs : i # j => ~Threads(w, i)'
    BY <2>3 DEF Threads
  <2>6. commits'[j] <= 1 /\ commits'[j] # 1
    BY <2>1, <2>2
  <2> QED BY <2>1, <2>2, <2>3, <2>4, <2>5, <2>6, OthersStay
<1>7. ASSUME NEW w \in Workers, thread[w] # None, RetryPostpone(w, thread[w].job),
             UNCHANGED <<registered, up, cron, commits>>
      PROVE  Places'
  <2>0. PICK j \in Jobs : thread[w].job = j
    BY <1>3, <1>7
  <2>1. /\ w \in up /\ j \in Jobs /\ row[j].worker = w /\ memory[w][j] = 0
        /\ j \notin cron[w] /\ commits[j] = 0
    BY <2>0, <1>3, <1>7
  <2>2. Store(j, "enqueued", w) /\ Put(w, j) /\ Idle(w) /\ "enqueued" \in States
    BY <2>0, <1>7 DEF RetryPostpone, States
  <2>3. row'[j] = Row("enqueued", w) /\ \A i \in Jobs : i # j => row'[i] = row[i]
    BY <2>1, <2>2, StoredByOwner
  <2>4. thread'[w] = None /\ \A v \in Workers : v # w => thread'[v] = thread[v]
    BY <2>2, IdleType
  <2>5. /\ memory'[w][j] = 1
        /\ \A v \in Workers : v # w => memory'[v] = memory[v]
        /\ \A i \in Jobs : i # j => memory'[w][i] = memory[w][i]
    BY <2>1, <2>2 DEF Put, WorkersTypeOK
  <2>6. InPlace(w, j)'
    BY <2>0, <1>7, <2>1, <2>3, <2>4, <2>5 DEF InPlace, Queued, Threads
  <2>7. \A i \in Jobs : ~Threads(w, i)'
    BY <2>4 DEF Threads
  <2>8. commits'[j] <= 1 /\ commits'[j] # 1
    BY <2>0, <1>7, <2>1
  <2> QED BY <2>0, <1>7, <2>1, <2>3, <2>4, <2>5, <2>6, <2>7, <2>8, OthersStay
<1>8. ASSUME NEW w \in Workers, thread[w] # None, NEW s \in Ended,
             Store(thread[w].job, s, None), Idle(w), UNCHANGED <<registered, up, cron, memory>>,
             \/ UNCHANGED commits
             \/ s = "done" /\ commits' = [commits EXCEPT ![thread[w].job] = @ + 1]
      PROVE  Places'
  <2>0. PICK j \in Jobs : thread[w].job = j
    BY <1>3, <1>8
  <2>1. /\ w \in up /\ j \in Jobs /\ row[j].worker = w /\ memory[w][j] = 0
        /\ j \notin cron[w] /\ commits[j] = 0 /\ s \in States
    BY <2>0, <1>3, <1>8 DEF Ended, States
  <2>2. row'[j] = Row(s, None) /\ \A i \in Jobs : i # j => row'[i] = row[i]
    BY <2>0, <1>8, <2>1, StoredByOwner
  <2>3. thread'[w] = None /\ \A v \in Workers : v # w => thread'[v] = thread[v]
    BY <2>0, <1>8, IdleType
  <2>4. InPlace(w, j)'
    BY <2>0, <1>8, <2>1, <2>3 DEF InPlace, Queued, Threads
  <2>5. \A i \in Jobs : ~Threads(w, i)'
    BY <2>3 DEF Threads
  <2>6. /\ \A i \in Jobs : i # j => commits'[i] = commits[i]
        /\ commits'[j] <= 1 /\ (commits'[j] = 1 => row'[j].state = "done")
    BY <2>0, <1>8, <2>1, <2>2 DEF WorkersTypeOK, Row
  <2> QED BY <2>0, <1>8, <2>1, <2>2, <2>3, <2>4, <2>5, <2>6, OthersStay
<1>9. ASSUME NEW w \in Workers, Done(w) PROVE Places'
  <2>1. thread[w] # None /\ "done" \in Ended
    BY <1>9 DEF Done, In, Ended
  <2>2. CASE row[thread[w].job] # thread[w].snap
    BY <1>7, <1>9, <2>1, <2>2 DEF Done
  <2>3. CASE row[thread[w].job] = thread[w].snap
    BY <1>8, <1>9, <2>1, <2>3 DEF Done
  <2> QED BY <2>2, <2>3
<1>10. ASSUME NEW w \in Workers, Retryable(w) PROVE Places'
  BY <1>7, <1>10 DEF Retryable, In
<1>11. ASSUME NEW w \in Workers, NEW s \in Ended, Ends(w, s) PROVE Places'
  BY <1>8, <1>11 DEF Ends, In
<1>12. ASSUME NEW w \in Workers, Broken(w) PROVE Places'
  <2>0. PICK j \in Jobs : thread[w].job = j
    BY <1>3, <1>12 DEF Broken
  <2>1. /\ thread[w] # None /\ Idle(w)
        /\ UNCHANGED <<row, registered, up, memory, cron, commits>>
    BY <1>12 DEF Broken
  <2>2. /\ w \in up /\ j \in Jobs /\ row[j].worker = w /\ memory[w][j] = 0
        /\ j \notin cron[w] /\ commits[j] = 0
    BY <2>0, <1>3, <2>1
  <2>3. thread'[w] = None /\ \A v \in Workers : v # w => thread'[v] = thread[v]
    BY <2>1, IdleType
  <2>4. InPlace(w, j)' /\ \A i \in Jobs : ~Threads(w, i)'
    BY <2>1, <2>2, <2>3 DEF InPlace, Queued, Threads
  <2>5. commits'[j] <= 1 /\ commits'[j] # 1
    BY <2>1, <2>2
  <2> QED BY <2>1, <2>2, <2>3, <2>4, <2>5, OthersStay
<1>13. ASSUME NEW w \in Workers, AssignJobs(w) PROVE Places'
  <2>1. /\ w \in up /\ cron[w] = {}
        /\ UNCHANGED <<registered, up, memory, thread, commits>>
        /\ \A i \in Jobs : row'[i] = IF i \in Assignable THEN Row("pending", w) ELSE row[i]
        /\ \A i \in Jobs : i \in cron'[w] => row'[i] = Row("pending", w)
        /\ \A v \in Workers : v # w => cron'[v] = cron[v]
    BY <1>13 DEF AssignJobs, WorkersTypeOK
  <2>2. ASSUME NEW v \in up, NEW i \in Assignable
        PROVE  ~Queued(v, i) /\ i \notin cron[v] /\ ~Threads(v, i)
    <3>1. InPlace(v, i) /\ row[i].worker = None /\ v # None
      BY <1>1, WorkersAssumption DEF Assignable
    <3> QED BY <3>1 DEF InPlace, Row
  <2>3. ASSUME NEW v \in Workers, NEW i \in Jobs, v \in up PROVE InPlace(v, i)'
    <3>1. InPlace(v, i)
      BY <1>1, <2>3
    <3>2. CASE i \in Assignable
      <4>1. ~Queued(v, i)' /\ ~Threads(v, i)' /\ (i \in cron'[v] => v = w)
        BY <2>1, <2>2, <2>3, <3>2 DEF Queued, Threads
      <4> QED BY <2>1, <4>1 DEF InPlace
    <3>3. CASE i \notin Assignable
      <4>1. row'[i] = row[i] /\ (i \in cron'[v] => row'[i] = Row("pending", v))
        BY <2>1, <3>1, <3>3 DEF InPlace
      <4> QED BY <2>1, <3>1, <4>1 DEF InPlace, Queued, Threads
    <3> QED BY <3>2, <3>3
  <2>4. \A i \in Jobs : commits'[i] = 1 => row'[i].state = "done"
    BY <2>1 DEF Places, Assignable, Ended
  <2> QED BY <2>1, <2>3, <2>4 DEF Places, Queued
<1>14. ASSUME NEW w \in Workers, NEW j \in Jobs, EnqueueJobUuid(w, j) PROVE Places'
  <2>1. /\ w \in up /\ j \in cron[w] /\ Store(j, "enqueued", w) /\ Put(w, j)
        /\ cron' = [cron EXCEPT ![w] = @ \ {j}] /\ "enqueued" \in States
        /\ UNCHANGED <<registered, up, thread, commits>>
    BY <1>14 DEF EnqueueJobUuid, States
  <2>2. row[j] = Row("pending", w) /\ InPlace(w, j)
    BY <1>1, <2>1 DEF InPlace
  <2>3. /\ row[j].worker = w /\ row[j].state = "pending"
        /\ memory[w][j] = 0 /\ ~Threads(w, j) /\ commits[j] = 0
    <3>1. row[j].worker = w /\ row[j].state = "pending"
      BY <2>2 DEF Row
    <3>2. ~Queued(w, j) /\ ~Threads(w, j)
      BY <2>2, <3>1 DEF InPlace, Row
    <3>3. memory[w][j] \in Nat /\ commits[j] \in Nat /\ commits[j] <= 1 /\ commits[j] # 1
      BY <2>1, <3>1 DEF WorkersTypeOK, Places
    <3> QED BY <3>1, <3>2, <3>3 DEF Queued
  <2>4. row'[j] = Row("enqueued", w) /\ \A i \in Jobs : i # j => row'[i] = row[i]
    BY <2>1, StoredByOwner
  <2>5. /\ memory'[w][j] = 1
        /\ \A v \in Workers : v # w => memory'[v] = memory[v]
        /\ \A i \in Jobs : i # j => memory'[w][i] = memory[w][i]
    BY <2>1, <2>3 DEF Put, WorkersTypeOK
  <2>6. /\ j \notin cron'[w] /\ \A i \in Jobs : i # j => (i \in cron'[w] <=> i \in cron[w])
        /\ \A v \in Workers : v # w => cron'[v] = cron[v]
    BY <2>1 DEF WorkersTypeOK
  <2>7. InPlace(w, j)'
    BY <2>1, <2>3, <2>4, <2>5, <2>6 DEF InPlace, Queued, Threads
  <2>8. commits'[j] <= 1 /\ commits'[j] # 1
    BY <2>1, <2>3
  <2> QED BY <2>1, <2>3, <2>4, <2>5, <2>6, <2>7, <2>8, OthersStay
<1>15. ASSUME NEW w \in Workers, NotifyAlive(w) \/ Timeout(w) PROVE Places'
  BY <1>15 DEF NotifyAlive, Timeout, Places, InPlace, Queued, Threads
<1>16. ASSUME NEW w \in Workers, NewWorker(w) PROVE Places'
  <2>1. /\ w \notin up /\ up' = up \cup {w} /\ registered' = registered \cup {w}
        /\ UNCHANGED <<row, memory, thread, cron, commits>>
    BY <1>16 DEF NewWorker
  <2>2. \A i \in Jobs : InPlace(w, i)
    BY <2>1 DEF Places, InPlace, Threads
  <2>3. \A v \in Workers, i \in Jobs : v \in up' => InPlace(v, i)'
    BY <1>1, <2>1, <2>2 DEF InPlace, Queued, Threads
  <2> QED BY <2>1, <2>3 DEF Places, Queued
<1>17. ASSUME NEW w \in Workers, Crash(w) PROVE Places'
  <2>1. /\ UNCHANGED <<row, registered, commits>> /\ up' = up \ {w} /\ thread'[w] = None
        /\ cron'[w] = {} /\ \A i \in Jobs : memory'[w][i] = 0
        /\ \A v \in Workers : v # w => /\ memory'[v] = memory[v] /\ cron'[v] = cron[v]
                                       /\ thread'[v] = thread[v]
    BY <1>17, IdleType DEF Crash, WorkersTypeOK
  <2>2. \A v \in Workers, i \in Jobs : v \in up' => InPlace(v, i)'
    BY <1>1, <2>1 DEF InPlace, Queued, Threads
  <2>3. \A v \in Workers, i \in Jobs : v \notin up' =>
            ~Queued(v, i)' /\ i \notin cron'[v] /\ thread'[v] = None
    BY <2>1 DEF Places, Queued
  <2> QED BY <2>1, <2>2, <2>3 DEF Places
<1>18. CASE PurgeDeadWorkers
  <2>1. /\ UNCHANGED <<up, memory, thread, cron, commits>>
        /\ registered' = registered \ late /\ stalled' = stalled \cup (late \cap up)
        /\ \A i \in Jobs : row'[i] = IF row[i].worker \in late THEN Row(row[i].state, None)
                                     ELSE row[i]
    BY <1>18 DEF PurgeDeadWorkers
  <2>2. late \cap up = {}
    BY <1>1, <2>1
  <2>3. ASSUME NEW v \in Workers, NEW i \in Jobs, v \in up PROVE InPlace(v, i)'
    <3>1. InPlace(v, i)
      BY <1>1, <2>3
    <3>2. CASE row[i].worker \in late
      <4>1. row[i].worker # v
        BY <2>2, <2>3, <3>2
      <4>2. ~Queued(v, i) /\ i \notin cron[v] /\ ~Threads(v, i)
        BY <3>1, <4>1 DEF InPlace, Row
      <4> QED BY <2>1, <4>2 DEF InPlace, Queued, Threads
    <3>3. CASE row[i].worker \notin late
      BY <2>1, <3>1, <3>3 DEF InPlace, Queued, Threads
    <3> QED BY <3>2, <3>3
  <2>4. ASSUME NEW i \in Jobs PROVE row'[i].state = row[i].state
    <3>1. Row(row[i].state, None).state = row[i].state
      BY DEF Row
    <3>2. row'[i] = Row(row[i].state, None) \/ row'[i] = row[i]
      BY <2>1
    <3> QED BY <3>1, <3>2
  <2> QED BY <2>1, <2>2, <2>3, <2>4 DEF Places, Queued
<1>19. ASSUME NEW j \in Jobs, Requeue(j) \/ ButtonDone(j) PROVE Places'
  <2>1. Spend("user")
    BY <1>19 DEF Requeue, ButtonDone
  <2>2. left'["user"] < left["user"] /\ left'["user"] \in Nat /\ left["user"] \in Nat
        /\ Allowance["user"] \in Nat /\ left["user"] <= Allowance["user"]
    BY <2>1, SpendType, WorkersAssumption DEF WorkersTypeOK, Perturbations, Undisturbed
  <2> QED BY <1>1, <2>2
<1> QED
  BY <1>2, <1>4, <1>5, <1>6, <1>9, <1>10, <1>11, <1>12, <1>13, <1>14, <1>15,
     <1>16, <1>17, <1>18, <1>19
  DEF Next, ThreadStep, CronStep

LEMMA UndisturbedNext == WorkersTypeOK /\ Undisturbed /\ [Next]_vars => Undisturbed'
<1> SUFFICES ASSUME WorkersTypeOK, Undisturbed, [Next]_vars PROVE Undisturbed'
  OBVIOUS
<1>1. CASE UNCHANGED vars
  BY <1>1 DEF vars, Undisturbed, Disturbed, Places, InPlace, Queued, Threads
<1>2. CASE Next
  BY <1>2, StaysDisturbed, PlacesNext DEF Undisturbed
<1> QED BY <1>1, <1>2

LEMMA UndisturbedAlways == Spec => [](WorkersTypeOK /\ Undisturbed)
BY TypeInit, TypeNext, UndisturbedInit, UndisturbedNext, PTL DEF Spec

\* For any number of workers, jobs, crashes, retries and purges of dead
\* workers: two workers never both do the work of a job (queue/worker.py).
THEOREM OneWorker == Spec => []OneWorkerAtWork
<1>1. ASSUME WorkersTypeOK, Undisturbed PROVE OneWorkerAtWork
  <2> SUFFICES ASSUME ~Disturbed, NEW v \in up, NEW w \in up, v # w,
                      In(v, "perform"), In(w, "perform"), thread[v].job = thread[w].job
               PROVE  FALSE
    BY DEF OneWorkerAtWork
  <2>1. Places /\ thread[v].job \in Jobs /\ v \in Workers /\ w \in Workers
    BY <1>1, TaskJob DEF Undisturbed, In, WorkersTypeOK
  <2>2. InPlace(v, thread[v].job) /\ InPlace(w, thread[v].job)
    BY <2>1 DEF Places
  <2> QED BY <2>2 DEF InPlace, In, Threads, Row
<1> QED BY <1>1, UndisturbedAlways, PTL

\* In the same circumstances the work of a job is committed once at most: the
\* case of WorkCommittedOnce in which no user acts.
THEOREM UndisturbedWorkOnce == Spec => [](~Disturbed => \A j \in Jobs : commits[j] <= 1)
<1>1. Undisturbed => (~Disturbed => \A j \in Jobs : commits[j] <= 1)
  BY DEF Undisturbed, Places
<1> QED BY <1>1, UndisturbedAlways, PTL

-----------------------------------------------------------------------------
(* Claims on the work of a job                                             *)

Holds(w, j) == Queued(w, j) \/ j \in cron[w] \/ Threads(w, j)

\* A job to do that its worker does not have: a cron may take it.
Unheld(j) ==
    /\ row[j].state \notin Ended
    /\ ~\E w \in Workers : w \in up /\ row[j].worker = w /\ Holds(w, j)

\* Whatever may lead to one commit of the work of a job: each time that it is
\* in a queue, a cron that has found it, a thread, and its row.
ClaimKinds == {"queue", "cron", "thread", "row"}
IsClaim(kind, w, n, j) ==
    \/ kind = "queue" /\ w \in Workers /\ 0 < n /\ n <= memory[w][j]
    \/ kind = "cron" /\ w \in Workers /\ n = 1 /\ j \in cron[w]
    \/ kind = "thread" /\ w \in Workers /\ n = 1 /\ Threads(w, j)
    \/ kind = "row" /\ w = None /\ n = 1 /\ Unheld(j)
Claims(j) ==
    {c \in ClaimKinds \X (Workers \cup {None}) \X Nat : IsClaim(c[1], c[2], c[3], j)}

\* A claim is used up by a commit; only a user adds one.
Bounded(j) ==
    /\ IsFiniteSet(Claims(j))
    /\ commits[j] + Cardinality(Claims(j)) <= 1 + Allowance["user"] - left["user"]

\* A living worker keeps its row and a job that is pending for it is one that
\* its cron has found; a thread is the thread of a worker that lives.
Alive ==
    /\ \A w \in Workers : thread[w] # None => w \in up
    /\ \A w \in Workers, j \in Jobs : w \in up /\ row[j] = Row("pending", w) => j \in cron[w]
    /\ stalled = {} => up \subseteq registered

LEMMA ClaimIn ==
    ASSUME NEW j, NEW kind \in ClaimKinds, NEW w \in Workers \cup {None}, NEW n \in Nat,
           IsClaim(kind, w, n, j)
    PROVE  <<kind, w, n>> \in Claims(j)
BY DEF Claims

\* What a step may do to the claims on a job: drop some, move one, use one up
\* for a commit, add one for a user.
Dropped(j) == Claims(j)' \subseteq Claims(j) /\ commits'[j] = commits[j]
Moved(j) ==
    /\ \E x \in Claims(j), y \in ClaimKinds \X (Workers \cup {None}) \X Nat :
            Claims(j)' \subseteq (Claims(j) \ {x}) \cup {y}
    /\ commits'[j] = commits[j]
Used(j) ==
    /\ \E x \in Claims(j) : Claims(j)' \subseteq Claims(j) \ {x}
    /\ commits'[j] = commits[j] + 1
Added(j) ==
    /\ \E y : Claims(j)' \subseteq Claims(j) \cup {y}
    /\ commits'[j] = commits[j] /\ left'["user"] < left["user"]

LEMMA ClaimsStep ==
    ASSUME WorkersTypeOK, WorkersTypeOK', NEW j \in Jobs, Bounded(j),
           left'["user"] <= left["user"],
           Dropped(j) \/ Moved(j) \/ Used(j) \/ Added(j)
    PROVE  Bounded(j)'
<1> DEFINE T == Claims(j)
           U == Claims(j)'
<1>0. /\ IsFiniteSet(T) /\ Cardinality(T) \in Nat
      /\ commits[j] \in Nat /\ commits'[j] \in Nat /\ left["user"] \in Nat
      /\ left'["user"] \in Nat /\ Allowance["user"] \in Nat
      /\ commits[j] + Cardinality(T) <= 1 + Allowance["user"] - left["user"]
  BY FS_CardinalityType, WorkersAssumption DEF Bounded, WorkersTypeOK, Perturbations
<1>1. \A S : IsFiniteSet(S) /\ U \subseteq S =>
          IsFiniteSet(U) /\ Cardinality(U) \in Nat /\ Cardinality(S) \in Nat
          /\ Cardinality(U) <= Cardinality(S)
  BY FS_Subset, FS_CardinalityType
<1>2. \A x \in T : /\ IsFiniteSet(T \ {x}) /\ Cardinality(T \ {x}) = Cardinality(T) - 1
  BY <1>0, FS_RemoveElement
<1>3. \A S, y : IsFiniteSet(S) => /\ IsFiniteSet(S \cup {y})
                                  /\ Cardinality(S) \in Nat
                                  /\ Cardinality(S \cup {y}) <= Cardinality(S) + 1
  <2> SUFFICES ASSUME NEW S, NEW y, IsFiniteSet(S)
               PROVE  /\ IsFiniteSet(S \cup {y})
                      /\ Cardinality(S) \in Nat
                      /\ Cardinality(S \cup {y}) <= Cardinality(S) + 1
    OBVIOUS
  <2>1. /\ IsFiniteSet(S \cup {y}) /\ Cardinality(S) \in Nat
        /\ Cardinality(S \cup {y}) = IF y \in S THEN Cardinality(S) ELSE Cardinality(S) + 1
    BY FS_AddElement, FS_CardinalityType
  <2> QED BY <2>1
<1> HIDE DEF T, U
<1>4. /\ IsFiniteSet(U) /\ Cardinality(U) \in Nat
      /\ commits'[j] + Cardinality(U) <= 1 + Allowance["user"] - left'["user"]
  <2>1. CASE Dropped(j)
    <3>1. U \subseteq T /\ commits'[j] = commits[j]
      BY <2>1 DEF Dropped, T, U
    <3> QED BY <1>0, <1>1, <3>1
  <2>2. CASE Moved(j)
    <3>1. PICK x \in T, y \in ClaimKinds \X (Workers \cup {None}) \X Nat :
              U \subseteq (T \ {x}) \cup {y}
      BY <2>2 DEF Moved, T, U
    <3>2. commits'[j] = commits[j]
      BY <2>2 DEF Moved
    <3>3. IsFiniteSet(T \ {x}) /\ Cardinality(T \ {x}) = Cardinality(T) - 1
      BY <1>2
    <3>4. /\ IsFiniteSet((T \ {x}) \cup {y})
          /\ Cardinality((T \ {x}) \cup {y}) <= Cardinality(T \ {x}) + 1
      BY <1>3, <3>3
    <3>5. Cardinality(U) <= Cardinality((T \ {x}) \cup {y}) /\ IsFiniteSet(U)
          /\ Cardinality(U) \in Nat /\ Cardinality((T \ {x}) \cup {y}) \in Nat
      BY <1>1, <3>1, <3>4
    <3> QED BY <1>0, <3>2, <3>3, <3>4, <3>5
  <2>3. CASE Used(j)
    <3>1. PICK x \in T : U \subseteq T \ {x}
      BY <2>3 DEF Used, T, U
    <3>2. commits'[j] = commits[j] + 1
      BY <2>3 DEF Used
    <3>3. IsFiniteSet(T \ {x}) /\ Cardinality(T \ {x}) = Cardinality(T) - 1
      BY <1>2
    <3>4. Cardinality(U) <= Cardinality(T \ {x}) /\ IsFiniteSet(U) /\ Cardinality(U) \in Nat
      BY <1>1, <3>1, <3>3
    <3> QED BY <1>0, <3>2, <3>3, <3>4
  <2>4. CASE Added(j)
    <3>1. PICK y : U \subseteq T \cup {y}
      BY <2>4 DEF Added, T, U
    <3>2. commits'[j] = commits[j] /\ left'["user"] < left["user"]
      BY <2>4 DEF Added
    <3>3. IsFiniteSet(T \cup {y}) /\ Cardinality(T \cup {y}) <= Cardinality(T) + 1
      BY <1>0, <1>3
    <3>4. /\ IsFiniteSet(U) /\ Cardinality(U) \in Nat
          /\ Cardinality(T \cup {y}) \in Nat /\ Cardinality(U) <= Cardinality(T \cup {y})
      BY <1>1, <3>1, <3>3
    <3> QED BY <1>0, <3>2, <3>3, <3>4
  <2> QED BY <2>1, <2>2, <2>3, <2>4
<1> QED BY <1>0, <1>4 DEF Bounded, U

\* A step drops claims when all that its places hold was there before.
LEMMA ClaimsDropped ==
    ASSUME NEW j \in Jobs, commits'[j] = commits[j],
           \A kind \in ClaimKinds, w \in Workers \cup {None}, n \in Nat :
               IsClaim(kind, w, n, j)' => IsClaim(kind, w, n, j)
    PROVE  Dropped(j)
BY DEF Dropped, Claims

\* All that a job is claimed by after the step was there before, except for one
\* claim that another replaces.
Moves(j, k, v, m, k1, v1, m1) ==
    \A kind \in ClaimKinds, w \in Workers \cup {None}, n \in Nat :
        IsClaim(kind, w, n, j)' =>
            \/ IsClaim(kind, w, n, j) /\ ~(kind = k /\ w = v /\ n = m)
            \/ kind = k1 /\ w = v1 /\ n = m1

LEMMA ClaimsMoved ==
    ASSUME NEW j \in Jobs, commits'[j] = commits[j],
           NEW k \in ClaimKinds, NEW v \in Workers \cup {None}, NEW m \in Nat,
           IsClaim(k, v, m, j),
           NEW k1 \in ClaimKinds, NEW v1 \in Workers \cup {None}, NEW m1 \in Nat,
           Moves(j, k, v, m, k1, v1, m1)
    PROVE  Moved(j)
<1>1. <<k, v, m>> \in Claims(j)
  BY ClaimIn
<1>2. Claims(j)' \subseteq (Claims(j) \ {<<k, v, m>>}) \cup {<<k1, v1, m1>>}
  BY DEF Claims, Moves
<1> QED BY <1>1, <1>2 DEF Moved

LEMMA ClaimsUsed ==
    ASSUME NEW j \in Jobs, commits'[j] = commits[j] + 1,
           NEW k \in ClaimKinds, NEW v \in Workers \cup {None}, NEW m \in Nat,
           IsClaim(k, v, m, j),
           \A kind \in ClaimKinds, w \in Workers \cup {None}, n \in Nat :
               IsClaim(kind, w, n, j)' =>
                   IsClaim(kind, w, n, j) /\ ~(kind = k /\ w = v /\ n = m)
    PROVE  Used(j)
<1>1. <<k, v, m>> \in Claims(j)
  BY ClaimIn
<1>2. Claims(j)' \subseteq Claims(j) \ {<<k, v, m>>}
  BY DEF Claims
<1> QED BY <1>1, <1>2 DEF Used

LEMMA ClaimsAdded ==
    ASSUME NEW j \in Jobs, commits'[j] = commits[j], left'["user"] < left["user"],
           NEW k1 \in ClaimKinds, NEW v1 \in Workers \cup {None}, NEW m1 \in Nat,
           \A kind \in ClaimKinds, w \in Workers \cup {None}, n \in Nat :
               IsClaim(kind, w, n, j)' =>
                   IsClaim(kind, w, n, j) \/ (kind = k1 /\ w = v1 /\ n = m1)
    PROVE  Added(j)
<1>1. Claims(j)' \subseteq Claims(j) \cup {<<k1, v1, m1>>}
  BY DEF Claims
<1> QED BY <1>1 DEF Added

\* A job that the step does not touch.
LEMMA ClaimsStay ==
    ASSUME WorkersTypeOK, NEW j \in Jobs, commits'[j] = commits[j], row'[j] = row[j],
           \A w \in Workers : /\ memory'[w][j] = memory[w][j]
                              /\ (j \in cron'[w] <=> j \in cron[w])
                              /\ (Threads(w, j)' <=> Threads(w, j))
                              /\ (w \in up => w \in up')
    PROVE  Dropped(j)
<1>1. Unheld(j)' => Unheld(j)
  BY DEF Unheld, Holds, Queued
<1> QED BY <1>1, ClaimsDropped DEF IsClaim, ClaimKinds

\* What a step may do to the claims on a job.
ClaimStep(j) == Dropped(j) \/ Moved(j) \/ Used(j) \/ Added(j)

LEMMA AliveInit == Init => Alive
BY WorkersAssumption DEF Init, Alive, Row

LEMMA AliveNext == WorkersTypeOK /\ Alive /\ [Next]_vars => Alive'
<1> SUFFICES ASSUME WorkersTypeOK, Alive, [Next]_vars PROVE Alive'
  OBVIOUS
<1>1. CASE UNCHANGED vars
  BY <1>1 DEF vars, Alive
<1>2. ASSUME NEW w \in Workers, NEW j \in Jobs, Load(w, j) PROVE Alive'
  <2>1. \A v \in Workers : thread'[v] # None => v = w \/ thread'[v] = thread[v]
    BY <1>2 DEF Load, Phase, WorkersTypeOK
  <2> QED BY <1>2, <2>1 DEF Load, Alive
<1>3. ASSUME NEW w \in Workers, NEW j \in Jobs, NEW s \in States, Store(j, s, w) \/ Store(j, s, None),
             s = "pending" => Store(j, s, None), UNCHANGED <<registered, up, cron, stalled>>,
             \A v \in Workers : thread'[v] # None => thread[v] # None
      PROVE  Alive'
  <2>1. PICK x \in Workers \cup {None} : Store(j, s, x) /\ (s = "pending" => x = None)
    BY <1>3
  <2>2. \A i \in Jobs, v \in Workers : row'[i] = Row("pending", v) => row[i] = Row("pending", v)
    <3>1. row'[j] = Row(s, IF x \in registered THEN x ELSE None)
          /\ \A i \in Jobs : i # j => row'[i] = row[i]
      BY <2>1, StoreRow
    <3>2. \A v \in Workers : row'[j] # Row("pending", v)
      BY <2>1, <3>1, WorkersAssumption DEF Row, WorkersTypeOK
    <3> QED BY <3>1, <3>2
  <2> QED BY <1>3, <2>2 DEF Alive
<1>4. ASSUME NEW w \in Workers, Reset(w) PROVE Alive'
  <2>1. thread[w].job \in Jobs /\ "pending" \in States /\ Store(thread[w].job, "pending", None)
        /\ UNCHANGED <<registered, up, cron, stalled>>
        /\ \A v \in Workers : thread'[v] # None => thread[v] # None
    BY <1>4, TaskJob, IdleType DEF Reset, In, States
  <2> QED BY <1>3, <2>1
<1>5. ASSUME NEW w \in Workers, Start(w) PROVE Alive'
  <2>1. thread[w].job \in Jobs /\ "started" \in States /\ Store(thread[w].job, "started", w)
        /\ UNCHANGED <<registered, up, cron, stalled>>
        /\ \A v \in Workers : thread'[v] # None => thread[v] # None
    BY <1>5, TaskJob DEF Start, In, States, WorkersTypeOK
  <2> QED BY <1>3, <2>1
<1>6. ASSUME NEW w \in Workers, Perform(w) PROVE Alive'
  <2>1. \A v \in Workers : thread'[v] # None => thread[v] # None
    BY <1>6 DEF Perform, Phase, In, WorkersTypeOK
  <2> QED BY <1>6, <2>1 DEF Perform, Alive
<1>7. ASSUME NEW w \in Workers, thread[w] # None, RetryPostpone(w, thread[w].job),
             UNCHANGED <<registered, up, cron, stalled>>
      PROVE  Alive'
  <2>1. thread[w].job \in Jobs /\ "enqueued" \in States /\ Store(thread[w].job, "enqueued", w)
        /\ \A v \in Workers : thread'[v] # None => thread[v] # None
    BY <1>7, TaskJob, IdleType DEF RetryPostpone, States
  <2> QED BY <1>3, <1>7, <2>1
<1>8. ASSUME NEW w \in Workers, thread[w] # None, NEW s \in Ended,
             Store(thread[w].job, s, None), Idle(w), UNCHANGED <<registered, up, cron, stalled>>
      PROVE  Alive'
  <2>1. thread[w].job \in Jobs /\ s \in States /\ s # "pending"
        /\ \A v \in Workers : thread'[v] # None => thread[v] # None
    BY <1>8, TaskJob, IdleType DEF Ended, States
  <2> QED BY <1>3, <1>8, <2>1
<1>9. ASSUME NEW w \in Workers, Done(w) PROVE Alive'
  <2>1. thread[w] # None /\ "done" \in Ended
    BY <1>9 DEF Done, In, Ended
  <2>2. CASE row[thread[w].job] # thread[w].snap
    BY <1>7, <1>9, <2>1, <2>2 DEF Done
  <2>3. CASE row[thread[w].job] = thread[w].snap
    BY <1>8, <1>9, <2>1, <2>3 DEF Done
  <2> QED BY <2>2, <2>3
<1>10. ASSUME NEW w \in Workers, Retryable(w) PROVE Alive'
  BY <1>7, <1>10 DEF Retryable, In
<1>11. ASSUME NEW w \in Workers, NEW s \in Ended, Ends(w, s) PROVE Alive'
  BY <1>8, <1>11 DEF Ends, In
<1>12. ASSUME NEW w \in Workers, Broken(w) PROVE Alive'
  BY <1>12, IdleType DEF Broken, Alive
<1>13. ASSUME NEW w \in Workers, AssignJobs(w) PROVE Alive'
  <2>1. \A v \in Workers, i \in Jobs : row'[i] = Row("pending", v) =>
            v = w \/ row[i] = Row("pending", v)
    BY <1>13 DEF AssignJobs, Row
  <2>2. \A v \in Workers : v # w => cron'[v] = cron[v]
    BY <1>13 DEF AssignJobs, WorkersTypeOK
  <2>3. \A i \in Jobs : row'[i] = Row("pending", w) => i \in cron'[w]
    BY <1>13 DEF AssignJobs, WorkersTypeOK
  <2> QED BY <1>13, <2>1, <2>2, <2>3 DEF AssignJobs, Alive
<1>14. ASSUME NEW w \in Workers, NEW j \in Jobs, EnqueueJobUuid(w, j) PROVE Alive'
  <2>1. Store(j, "enqueued", w) /\ "enqueued" \in States
        /\ UNCHANGED <<registered, up, thread, stalled>>
    BY <1>14 DEF EnqueueJobUuid, States
  <2>2. row'[j].state = "enqueued" /\ \A i \in Jobs : i # j => row'[i] = row[i]
    BY <2>1, StoreRow
  <2>3. \A v \in Workers : row'[j] # Row("pending", v)
    BY <2>2 DEF Row
  <2>4. \A v \in Workers, i \in Jobs : i # j /\ i \in cron[v] => i \in cron'[v]
    BY <1>14 DEF EnqueueJobUuid, WorkersTypeOK
  <2> QED BY <2>1, <2>2, <2>3, <2>4 DEF Alive
<1>15. ASSUME NEW w \in Workers, NotifyAlive(w) \/ Timeout(w) PROVE Alive'
  BY <1>15 DEF NotifyAlive, Timeout, Alive
<1>16. ASSUME NEW w \in Workers, NewWorker(w) PROVE Alive'
  <2>1. \A i \in Jobs : row[i] # Row("pending", w)
    BY <1>16, WorkersAssumption DEF NewWorker, WorkersTypeOK, Row
  <2> QED BY <1>16, <2>1 DEF NewWorker, Alive
<1>17. ASSUME NEW w \in Workers, Crash(w) PROVE Alive'
  <2>1. \A v \in Workers : thread'[v] # None => thread'[v] = thread[v] /\ v # w
    BY <1>17, IdleType DEF Crash
  <2>2. \A v \in Workers : v # w => cron'[v] = cron[v]
    BY <1>17 DEF Crash, WorkersTypeOK
  <2> QED BY <1>17, <2>1, <2>2 DEF Crash, Alive
<1>18. CASE PurgeDeadWorkers
  <2>1. \A i \in Jobs, v \in Workers : row'[i] = Row("pending", v) => row[i] = Row("pending", v)
    BY <1>18, WorkersAssumption DEF PurgeDeadWorkers, Row
  <2>2. stalled' = {} => stalled = {} /\ late \cap up = {}
    BY <1>18 DEF PurgeDeadWorkers
  <2> QED BY <1>18, <2>1, <2>2 DEF PurgeDeadWorkers, Alive
<1>19. ASSUME NEW j \in Jobs, Requeue(j) \/ ButtonDone(j) PROVE Alive'
  <2>1. PICK s \in States : Store(j, s, None)
    BY <1>19 DEF Requeue, ButtonDone, States
  <2>2. row'[j].worker = None /\ \A i \in Jobs : i # j => row'[i] = row[i]
    BY <2>1, StoreRow, WorkersAssumption DEF WorkersTypeOK
  <2>3. \A v \in Workers : row'[j] # Row("pending", v)
    BY <2>2, WorkersAssumption DEF Row
  <2> QED BY <1>19, <2>2, <2>3 DEF Requeue, ButtonDone, Alive
<1> QED
  BY <1>1, <1>2, <1>4, <1>5, <1>6, <1>9, <1>10, <1>11, <1>12, <1>13, <1>14, <1>15,
     <1>16, <1>17, <1>18, <1>19
  DEF Next, ThreadStep, CronStep

\* What a worker stores for itself, when it lives and is registered.
LEMMA HeldByItsWorker ==
    ASSUME WorkersTypeOK, NEW w \in Workers, w \in up, up \subseteq registered, up' = up,
           NEW j \in Jobs, NEW state \in States, Store(j, state, w), Holds(w, j)'
    PROVE  ~Unheld(j)'
<1>1. row'[j].worker = w
  BY StoreRow
<1> QED BY <1>1 DEF Unheld

LEMMA ClaimsNext ==
    ASSUME WorkersTypeOK, Alive, Next, stalled = {}, stalled' = {}, NEW i \in Jobs
    PROVE  ClaimStep(i)
<1> USE DEF ClaimStep
<1>0. /\ up \subseteq registered /\ None \notin Workers
      /\ {"queue", "cron", "thread", "row"} \subseteq ClaimKinds
      /\ None \in Workers \cup {None} /\ 1 \in Nat
      /\ \A w \in Workers : w \in Workers \cup {None}
  BY WorkersAssumption DEF Alive, ClaimKinds
<1>1. ASSUME NEW w \in Workers, thread[w] # None, NEW j, j = thread[w].job
      PROVE  j \in Jobs /\ w \in up /\ Threads(w, j) /\ IsClaim("thread", w, 1, j)
  BY <1>1, TaskJob DEF Alive, Threads, IsClaim
<1>2. ASSUME NEW w \in Workers, NEW j \in Jobs, Load(w, j) PROVE ClaimStep(i)
  <2> DEFINE m == memory[w][j]
  <2>1. /\ UNCHANGED <<row, up, cron, commits>> /\ thread[w] = None
        /\ m \in Nat /\ m > 0 /\ memory'[w][j] = m - 1
        /\ \A v \in Workers, k \in Jobs : v # w \/ k # j => memory'[v][k] = memory[v][k]
    BY <1>2 DEF Load, WorkersTypeOK
  <2>2. CASE row[j].state \in {"done", "pending"}
    <3>1. thread' = thread
      BY <1>2, <2>2 DEF Load
    <3>2. CASE i # j
      BY <2>1, <3>1, <3>2, ClaimsStay DEF Threads
    <3>3. CASE i = j
      <4>1. IsClaim("queue", w, m, j)
        BY <2>1 DEF IsClaim
      <4>2. Moves(j, "queue", w, m, "row", None, 1)
        BY <2>1, <3>1 DEF Moves, IsClaim, Threads
      <4>3. commits'[j] = commits[j]
        BY <2>1
      <4> QED BY <1>0, <2>1, <3>3, <4>1, <4>2, <4>3, ClaimsMoved
    <3> QED BY <3>2, <3>3
  <2>3. CASE row[j].state \notin {"done", "pending"}
    <3>1. /\ thread'[w] # None /\ thread'[w].job = j
          /\ \A v \in Workers : v # w => thread'[v] = thread[v]
      BY <1>2, <2>3, PhaseType DEF Load
    <3>2. CASE i # j
      <4>1. \A v \in Workers : Threads(v, i)' <=> Threads(v, i)
        BY <2>1, <3>1, <3>2 DEF Threads
      <4> QED BY <2>1, <3>2, <4>1, ClaimsStay
    <3>3. CASE i = j
      <4>1. IsClaim("queue", w, m, j)
        BY <2>1 DEF IsClaim
      <4>2. /\ \A v \in Workers : v # w => (Threads(v, j)' <=> Threads(v, j))
            /\ Threads(w, j)' /\ ~Threads(w, j)
        BY <2>1, <3>1 DEF Threads
      <4>3. Unheld(j)' => Unheld(j)
        BY <2>1, <4>2 DEF Unheld, Holds, Queued
      <4>4. Moves(j, "queue", w, m, "thread", w, 1)
        BY <2>1, <4>2, <4>3 DEF Moves, IsClaim
      <4>5. commits'[j] = commits[j]
        BY <2>1
      <4> QED BY <1>0, <2>1, <3>3, <4>1, <4>4, <4>5, ClaimsMoved
    <3> QED BY <3>2, <3>3
  <2> QED BY <2>2, <2>3
<1>3. ASSUME NEW w \in Workers, thread[w] # None, Idle(w),
             UNCHANGED <<up, cron, memory, commits>>,
             NEW j \in Jobs, j = thread[w].job,
             \A k \in Jobs : k # j => row'[k] = row[k]
      PROVE  ClaimStep(i)
  <2>1. /\ ~Threads(w, j)' /\ \A k \in Jobs : ~Threads(w, k)'
        /\ \A k \in Jobs : k # j => ~Threads(w, k)
        /\ \A v \in Workers, k \in Jobs : v # w => (Threads(v, k)' <=> Threads(v, k))
    BY <1>3, IdleType DEF Threads
  <2>2. CASE i # j
    BY <1>3, <2>1, <2>2, ClaimsStay
  <2>3. CASE i = j
    <3>1. Moves(j, "thread", w, 1, "row", None, 1)
      BY <1>3, <2>1 DEF Moves, IsClaim
    <3>2. commits'[j] = commits[j]
      BY <1>3
    <3> QED BY <1>0, <1>1, <1>3, <2>3, <3>1, <3>2, ClaimsMoved
  <2> QED BY <2>2, <2>3
<1>4. ASSUME NEW w \in Workers, Reset(w) PROVE ClaimStep(i)
  <2>1. thread[w] # None /\ thread[w].job \in Jobs /\ "pending" \in States
        /\ Store(thread[w].job, "pending", None) /\ Idle(w)
        /\ UNCHANGED <<up, cron, memory, commits>>
    BY <1>4, TaskJob DEF Reset, In, States
  <2> QED BY <1>3, <2>1, StoreRow
<1>5. ASSUME NEW w \in Workers, Start(w) PROVE ClaimStep(i)
  <2> DEFINE j == thread[w].job
  <2>1. /\ thread[w] # None /\ thread[w] \in Tasks /\ j \in Jobs /\ w \in up
        /\ Store(j, "started", w) /\ "started" \in States
        /\ UNCHANGED <<up, memory, cron, commits>>
        /\ thread' = [thread EXCEPT ![w].phase = "started"]
    BY <1>1, <1>5, TaskJob DEF Start, In, States
  <2>2. /\ thread'[w] # None /\ thread'[w].job = j
        /\ \A v \in Workers : v # w => thread'[v] = thread[v]
    BY <2>1, WorkersAssumption DEF Tasks, WorkersTypeOK
  <2>3. \A v \in Workers, k \in Jobs : Threads(v, k)' <=> Threads(v, k)
    BY <2>1, <2>2 DEF Threads
  <2>4. CASE i # j
    <3>1. row'[i] = row[i]
      BY <2>1, <2>4, StoreRow
    <3> QED BY <2>1, <2>3, <3>1, ClaimsStay
  <2>5. CASE i = j
    <3>1. Holds(w, i)'
      BY <2>2, <2>5 DEF Holds, Threads
    <3>2. ~Unheld(i)'
      BY <1>0, <2>1, <2>5, <3>1, HeldByItsWorker
    <3>3. \A kind \in ClaimKinds, v \in Workers \cup {None}, n \in Nat :
               IsClaim(kind, v, n, i)' => IsClaim(kind, v, n, i)
      BY <2>1, <2>3, <3>2 DEF IsClaim
    <3> QED BY <2>1, <3>3, ClaimsDropped
  <2> QED BY <2>4, <2>5
<1>6. ASSUME NEW w \in Workers, Perform(w) PROVE ClaimStep(i)
  <2>1. /\ thread[w].job \in Jobs /\ Phase(w, thread[w].job, "perform")
        /\ UNCHANGED <<row, up, memory, cron, commits>> /\ thread[w] # None
    BY <1>6, TaskJob DEF Perform, In
  <2>2. /\ thread'[w] # None /\ thread'[w].job = thread[w].job
        /\ \A v \in Workers : v # w => thread'[v] = thread[v]
    BY <2>1, PhaseType
  <2>3. \A v \in Workers, k \in Jobs : Threads(v, k)' <=> Threads(v, k)
    BY <2>1, <2>2 DEF Threads
  <2> QED BY <2>1, <2>3, ClaimsStay
<1>7. ASSUME NEW w \in Workers, thread[w] # None, RetryPostpone(w, thread[w].job),
             UNCHANGED <<up, cron, commits>>
      PROVE  ClaimStep(i)
  <2> DEFINE j == thread[w].job
             m == memory[w][j] + 1
  <2>1. j \in Jobs /\ w \in up /\ IsClaim("thread", w, 1, j)
    BY <1>1, <1>7
  <2>2. Store(j, "enqueued", w) /\ Put(w, j) /\ Idle(w) /\ "enqueued" \in States
    BY <1>7 DEF RetryPostpone, States
  <2>3. /\ memory'[w][j] = m /\ m \in Nat /\ m > 0
        /\ \A v \in Workers, k \in Jobs : v # w \/ k # j => memory'[v][k] = memory[v][k]
    BY <2>1, <2>2, PutType DEF WorkersTypeOK
  <2>4. /\ \A k \in Jobs : ~Threads(w, k)'
        /\ \A k \in Jobs : k # j => ~Threads(w, k)
        /\ \A v \in Workers, k \in Jobs : v # w => (Threads(v, k)' <=> Threads(v, k))
    BY <2>2, IdleType DEF Threads
  <2>5. CASE i # j
    <3>1. row'[i] = row[i]
      BY <2>1, <2>2, <2>5, StoreRow
    <3>2. \A v \in Workers : /\ memory'[v][i] = memory[v][i]
                             /\ (Threads(v, i)' <=> Threads(v, i))
      BY <2>3, <2>4, <2>5
    <3> QED BY <1>7, <3>1, <3>2, ClaimsStay
  <2>7. /\ cron' = cron /\ memory[w][j] \in Nat
        /\ \A n \in Nat : n <= m => n = m \/ n <= memory[w][j]
    BY <1>7, <2>1 DEF WorkersTypeOK
  <2>6. CASE i = j
    <3>1. ~Unheld(i)'
      <4>1. Holds(w, i)'
        BY <2>3, <2>6 DEF Holds, Queued
      <4> QED BY <1>0, <1>7, <2>1, <2>2, <2>6, <4>1, HeldByItsWorker
    <3>2. Moves(i, "thread", w, 1, "queue", w, m)
      BY <1>7, <2>3, <2>4, <2>6, <2>7, <3>1 DEF Moves, IsClaim
    <3>3. commits'[i] = commits[i]
      BY <1>7
    <3> QED BY <1>0, <2>1, <2>3, <2>6, <3>2, <3>3, ClaimsMoved
  <2> QED BY <2>5, <2>6
<1>8. ASSUME NEW w \in Workers, thread[w] # None, NEW s \in Ended,
             Store(thread[w].job, s, None), Idle(w), UNCHANGED <<up, cron, memory>>,
             commits' = [commits EXCEPT ![thread[w].job] = @ + 1]
      PROVE  ClaimStep(i)
  <2> DEFINE j == thread[w].job
  <2>1. j \in Jobs /\ IsClaim("thread", w, 1, j) /\ s \in States
    BY <1>1, <1>8 DEF Ended, States
  <2>2. row'[j].state = s /\ \A k \in Jobs : k # j => row'[k] = row[k]
    BY <1>8, <2>1, StoreRow
  <2>3. /\ \A k \in Jobs : ~Threads(w, k)'
        /\ \A k \in Jobs : k # j => ~Threads(w, k)
        /\ \A v \in Workers, k \in Jobs : v # w => (Threads(v, k)' <=> Threads(v, k))
    BY <1>8, IdleType DEF Threads
  <2>4. commits'[j] = commits[j] + 1 /\ \A k \in Jobs : k # j => commits'[k] = commits[k]
    BY <1>8, <2>1 DEF WorkersTypeOK
  <2>5. CASE i # j
    <3>1. \A v \in Workers : Threads(v, i)' <=> Threads(v, i)
      BY <2>3, <2>5
    <3> QED BY <1>8, <2>2, <2>4, <2>5, <3>1, ClaimsStay
  <2>6. CASE i = j
    <3>1. ~Unheld(i)'
      BY <2>2, <2>6 DEF Unheld
    <3>2. \A kind \in ClaimKinds, v \in Workers \cup {None}, n \in Nat :
               IsClaim(kind, v, n, i)' =>
                   IsClaim(kind, v, n, i) /\ ~(kind = "thread" /\ v = w /\ n = 1)
      BY <1>8, <2>3, <2>6, <3>1 DEF IsClaim
    <3>3. IsClaim("thread", w, 1, i) /\ commits'[i] = commits[i] + 1
      BY <2>1, <2>4, <2>6
    <3> QED BY <1>0, <3>2, <3>3, ClaimsUsed
  <2> QED BY <2>5, <2>6
<1>9. ASSUME NEW w \in Workers, Done(w) PROVE ClaimStep(i)
  <2>1. thread[w] # None /\ "done" \in Ended
    BY <1>9 DEF Done, In, Ended
  <2>2. CASE row[thread[w].job] # thread[w].snap
    BY <1>7, <1>9, <2>1, <2>2 DEF Done
  <2>3. CASE row[thread[w].job] = thread[w].snap
    BY <1>8, <1>9, <2>1, <2>3 DEF Done
  <2> QED BY <2>2, <2>3
<1>10. ASSUME NEW w \in Workers, Retryable(w) PROVE ClaimStep(i)
  BY <1>7, <1>10 DEF Retryable, In
<1>11. ASSUME NEW w \in Workers, NEW s \in Ended, Ends(w, s) PROVE ClaimStep(i)
  <2>1. thread[w] # None /\ thread[w].job \in Jobs /\ s \in States
        /\ Store(thread[w].job, s, None) /\ Idle(w)
        /\ UNCHANGED <<up, cron, memory, commits>>
    BY <1>11, TaskJob DEF Ends, In, Ended, States
  <2> QED BY <1>3, <2>1, StoreRow
<1>12. ASSUME NEW w \in Workers, Broken(w) PROVE ClaimStep(i)
  <2>1. thread[w] # None /\ thread[w].job \in Jobs /\ Idle(w)
        /\ UNCHANGED <<row, up, cron, memory, commits>>
    BY <1>12, TaskJob DEF Broken
  <2> QED BY <1>3, <2>1
<1>13. ASSUME NEW w \in Workers, AssignJobs(w) PROVE ClaimStep(i)
  <2>1. /\ w \in up /\ cron[w] = {}
        /\ UNCHANGED <<up, memory, thread, commits>>
        /\ row'[i] = IF i \in Assignable THEN Row("pending", w) ELSE row[i]
        /\ (i \in cron'[w] <=> row'[i] = Row("pending", w))
        /\ \A v \in Workers : v # w => cron'[v] = cron[v]
    BY <1>13 DEF AssignJobs, WorkersTypeOK
  <2>2. CASE i \in Assignable
    <3>1. IsClaim("row", None, 1, i)
      BY <1>0, <2>2 DEF IsClaim, Unheld, Assignable
    <3>2. ~Unheld(i)'
      BY <2>1, <2>2 DEF Unheld, Holds, Row
    <3>3. Moves(i, "row", None, 1, "cron", w, 1)
      BY <2>1, <3>2 DEF Moves, IsClaim, Threads
    <3>4. commits'[i] = commits[i]
      BY <2>1
    <3> QED BY <1>0, <3>1, <3>3, <3>4, ClaimsMoved
  <2>3. CASE i \notin Assignable
    <3>1. row'[i] = row[i] /\ i \notin cron'[w]
      BY <2>1, <2>3 DEF Alive
    <3> QED BY <2>1, <3>1, ClaimsStay DEF Threads
  <2> QED BY <2>2, <2>3
<1>14. ASSUME NEW w \in Workers, NEW j \in Jobs, EnqueueJobUuid(w, j) PROVE ClaimStep(i)
  <2> DEFINE m == memory[w][j] + 1
  <2>1. /\ w \in up /\ j \in cron[w] /\ Store(j, "enqueued", w) /\ Put(w, j)
        /\ "enqueued" \in States /\ UNCHANGED <<up, thread, commits>>
        /\ j \notin cron'[w] /\ \A k \in Jobs : k # j => (k \in cron'[w] <=> k \in cron[w])
        /\ \A v \in Workers : v # w => cron'[v] = cron[v]
    BY <1>14 DEF EnqueueJobUuid, States, WorkersTypeOK
  <2>2. /\ memory'[w][j] = m /\ m \in Nat /\ m > 0
        /\ \A v \in Workers, k \in Jobs : v # w \/ k # j => memory'[v][k] = memory[v][k]
    BY <2>1, PutType DEF WorkersTypeOK
  <2>3. CASE i # j
    <3>1. row'[i] = row[i]
      BY <2>1, <2>3, StoreRow
    <3>2. \A v \in Workers : memory'[v][i] = memory[v][i] /\ (i \in cron'[v] <=> i \in cron[v])
      BY <2>1, <2>2, <2>3
    <3> QED BY <2>1, <3>1, <3>2, ClaimsStay DEF Threads
  <2>5. /\ \A v \in Workers : Threads(v, j)' <=> Threads(v, j)
        /\ memory[w][j] \in Nat /\ \A n \in Nat : n <= m => n = m \/ n <= memory[w][j]
    BY <2>1 DEF WorkersTypeOK, Threads
  <2>4. CASE i = j
    <3>1. ~Unheld(i)'
      <4>1. Holds(w, i)'
        BY <2>2, <2>4 DEF Holds, Queued
      <4> QED BY <1>0, <2>1, <2>4, <4>1, HeldByItsWorker
    <3>2. Moves(i, "cron", w, 1, "queue", w, m)
      BY <2>1, <2>2, <2>4, <2>5, <3>1 DEF Moves, IsClaim
    <3>3. IsClaim("cron", w, 1, i) /\ commits'[i] = commits[i]
      BY <2>1, <2>4 DEF IsClaim
    <3> QED BY <1>0, <2>2, <3>2, <3>3, ClaimsMoved
  <2> QED BY <2>3, <2>4
<1>15. ASSUME NEW w \in Workers, NotifyAlive(w) \/ Timeout(w) \/ NewWorker(w)
       PROVE  ClaimStep(i)
  <2>1. UNCHANGED <<row, memory, thread, cron, commits>> /\ up \subseteq up'
    BY <1>15 DEF NotifyAlive, Timeout, NewWorker
  <2> QED BY <2>1, ClaimsStay DEF Threads
<1>16. ASSUME NEW w \in Workers, Crash(w) PROVE ClaimStep(i)
  <2>1. /\ UNCHANGED <<row, commits>> /\ up' = up \ {w} /\ thread'[w] = None
        /\ cron'[w] = {} /\ memory'[w][i] = 0
        /\ \A v \in Workers : v # w => /\ memory'[v] = memory[v] /\ cron'[v] = cron[v]
                                       /\ thread'[v] = thread[v]
    BY <1>16, IdleType DEF Crash, WorkersTypeOK
  <2>2. \A v \in Workers : v # w => (Threads(v, i)' <=> Threads(v, i))
    BY <2>1 DEF Threads
  <2>3. commits'[i] = commits[i] /\ ~Threads(w, i)' /\ memory'[w][i] = 0
    BY <2>1 DEF Threads
  <2>4. CASE Holds(w, i)
    <3>1. PICK k \in {"queue", "cron", "thread"} : IsClaim(k, w, 1, i)
      BY <2>4 DEF Holds, Queued, IsClaim, WorkersTypeOK
    <3>2. Moves(i, k, w, 1, "row", None, 1)
      BY <2>1, <2>2, <2>3 DEF Moves, IsClaim
    <3> QED BY <1>0, <2>3, <3>1, <3>2, ClaimsMoved
  <2>5. CASE ~Holds(w, i)
    <3>1. Unheld(i)' => Unheld(i)
      BY <2>1, <2>2, <2>5 DEF Unheld, Holds, Queued
    <3>2. \A kind \in ClaimKinds, v \in Workers \cup {None}, n \in Nat :
               IsClaim(kind, v, n, i)' => IsClaim(kind, v, n, i)
      BY <2>1, <2>2, <2>3, <3>1 DEF IsClaim
    <3> QED BY <2>3, <3>2, ClaimsDropped
  <2> QED BY <2>4, <2>5
<1>17. CASE PurgeDeadWorkers
  <2>1. /\ UNCHANGED <<up, memory, thread, cron, commits>> /\ late \cap up = {}
        /\ row'[i] = IF row[i].worker \in late THEN Row(row[i].state, None) ELSE row[i]
    BY <1>17 DEF PurgeDeadWorkers
  <2>2. Unheld(i)' => Unheld(i)
    BY <2>1 DEF Unheld, Holds, Queued, Threads, Row
  <2>3. \A kind \in ClaimKinds, v \in Workers \cup {None}, n \in Nat :
             IsClaim(kind, v, n, i)' => IsClaim(kind, v, n, i)
    BY <2>1, <2>2 DEF IsClaim, Threads
  <2> QED BY <2>1, <2>3, ClaimsDropped
<1>18. ASSUME NEW j \in Jobs, Requeue(j) \/ ButtonDone(j) PROVE ClaimStep(i)
  <2>1. PICK s \in States : Store(j, s, None)
    BY <1>18 DEF Requeue, ButtonDone, States
  <2>2. /\ UNCHANGED <<up, memory, thread, cron, commits>>
        /\ left'["user"] < left["user"]
    BY <1>18, SpendType DEF Requeue, ButtonDone, Perturbations
  <2>3. CASE i # j
    <3>1. row'[i] = row[i]
      BY <2>1, <2>3, StoreRow
    <3> QED BY <2>2, <3>1, ClaimsStay DEF Threads
  <2>4. CASE i = j
    <3>1. \A v \in Workers : Threads(v, i)' <=> Threads(v, i)
      BY <2>2 DEF Threads
    <3>2. \A kind \in ClaimKinds, v \in Workers \cup {None}, n \in Nat :
               IsClaim(kind, v, n, i)' =>
                   IsClaim(kind, v, n, i) \/ (kind = "row" /\ v = None /\ n = 1)
      BY <2>2, <3>1 DEF IsClaim
    <3> QED BY <1>0, <2>2, <3>2, ClaimsAdded
  <2> QED BY <2>3, <2>4
<1> QED
  BY <1>2, <1>4, <1>5, <1>6, <1>9, <1>10, <1>11, <1>12, <1>13, <1>14, <1>15,
     <1>16, <1>17, <1>18
  DEF Next, ThreadStep, CronStep

\* The inductive invariant of WorkCommittedOnce.
AllBounded ==
    stalled = {} => \A j \in Jobs : Bounded(j)

LEMMA BoundedInit == Init => AllBounded
<1> SUFFICES ASSUME Init, NEW j \in Jobs PROVE Bounded(j)
  BY DEF AllBounded
<1> DEFINE x == <<"row", None, 1>>
<1>1. /\ commits[j] = 0 /\ left["user"] = Allowance["user"]
      /\ Allowance["user"] \in Nat
      /\ \A w \in Workers : memory[w][j] = 0 /\ cron[w] = {} /\ thread[w] = None
  BY WorkersAssumption DEF Init, Perturbations
<1>2. Claims(j) \subseteq {x}
  BY <1>1 DEF Claims, IsClaim, Threads
<1>3. IsFiniteSet({x}) /\ Cardinality({x}) = 1
  BY FS_Singleton
<1>4. /\ IsFiniteSet(Claims(j)) /\ Cardinality(Claims(j)) \in Nat
      /\ Cardinality(Claims(j)) <= Cardinality({x})
  BY <1>2, <1>3, FS_Subset, FS_CardinalityType
<1> QED BY <1>1, <1>3, <1>4 DEF Bounded

LEMMA BoundedNext ==
    WorkersTypeOK /\ Alive /\ AllBounded /\ [Next]_vars => AllBounded'
<1> SUFFICES ASSUME WorkersTypeOK, Alive, AllBounded, [Next]_vars,
                    stalled' = {}, NEW j \in Jobs
             PROVE  Bounded(j)'
  BY DEF AllBounded
<1>1. WorkersTypeOK' /\ left'["user"] <= left["user"] /\ stalled = {} /\ Bounded(j)
  BY TypeNext, Disturbances DEF AllBounded
<1>2. CASE UNCHANGED vars
  <2>1. UNCHANGED <<row, up, memory, cron, thread, commits>>
    BY <1>2 DEF vars
  <2>2. Dropped(j)
    BY <2>1, ClaimsStay DEF Threads
  <2> QED BY <1>1, <2>2, ClaimsStep
<1>3. CASE Next
  BY <1>1, <1>3, ClaimsNext, ClaimsStep DEF ClaimStep
<1> QED BY <1>2, <1>3

\* For any number of workers, jobs, crashes, retries, errors and users' acts,
\* as long as no living worker is taken for dead: the work of a job is
\* committed once, and once more at most for each act of a user
\* (queue/worker.py, run_job; queue/model.py).
THEOREM WorkOnce == Spec => []WorkCommittedOnce
<1>1. WorkersTypeOK /\ AllBounded => WorkCommittedOnce
  <2> SUFFICES ASSUME WorkersTypeOK, AllBounded, stalled = {}, NEW j \in Jobs
               PROVE  commits[j] <= 1 + Allowance["user"] - left["user"]
    BY DEF WorkCommittedOnce
  <2>1. /\ Cardinality(Claims(j)) \in Nat /\ commits[j] \in Nat
        /\ commits[j] + Cardinality(Claims(j)) <= 1 + Allowance["user"] - left["user"]
    BY FS_CardinalityType DEF AllBounded, Bounded, WorkersTypeOK
  <2>2. left["user"] \in Nat /\ Allowance["user"] \in Nat
    BY WorkersAssumption DEF WorkersTypeOK, Perturbations
  <2> QED BY <2>1, <2>2
<1> QED
  BY <1>1, TypeInit, TypeNext, AliveInit, AliveNext, BoundedInit, BoundedNext, PTL DEF Spec
=============================================================================
