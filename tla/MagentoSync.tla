---------------------------- MODULE MagentoSync ----------------------------
(***************************************************************************)
(* Synchronisation of records with Magento (magentoerpconnect): the batch  *)
(* that looks for the records changed since a date, the import of a record *)
(* and of its category, the export of a binding and of the binding it      *)
(* depends on, the export of a deletion.  The jobs run at the same time in *)
(* several workers, each in a REPEATABLE READ transaction: it reads the    *)
(* rows as they were when it began, and a row committed by another one     *)
(* since is only noticed when it writes it.                                *)
(***************************************************************************)
EXTENDS Integers, Sequences

CONSTANTS
    None,           \* no record, no row, no link, no job
    Gone,           \* a record deleted on Magento
    MagentoIds,     \* the identifiers of the records on Magento
    Shop,           \* those that exist at the beginning, not changed for long
    Bindings,       \* the ids of the rows of the binding model
    Products, Born, \* those of records of Odoo, those that have a row at the beginning
    Workers,        \* the processes that run jobs
    Waiting,        \* the bindings whose export waits at the beginning
    Linked,         \* the record that a binding stands for at the beginning, or None
    Category,       \* the record of Magento that a record needs, or None
    Parent,         \* the ids of bindings of the record that an export needs, if any
    Buffer,         \* IMPORT_DELTA_BUFFER
    MaxTime,        \* bound of the clock
    Allowance       \* bound of each kind of perturbation

\* "total" bounds all of them together.
Perturbations == {"shop", "batch", "user", "crash", "total"}

Times == 0 .. MaxTime
Filled == [mid : MagentoIds \cup {None}, version : Nat, sync : Times \cup {None}]
Rows == {None} \cup Filled
Jobs ==
    [kind : {"batch"}, from : Int, to : Times]
    \cup [kind : {"import"}, of : MagentoIds, force : BOOLEAN]
    \cup [kind : {"export"}, of : Bindings] \cup [kind : {"delete"}, of : MagentoIds]
Frames ==
    [of : MagentoIds \cup Bindings, link : MagentoIds \cup Bindings \cup {None},
     version : Nat, step : {"read", "lock", "write", "dependencies", "send", "bind"}]

\* The job that a worker runs: its records, the last one on top, the snapshot
\* of its transaction, what the transaction sees, wrote, locked and delayed.
Works ==
    [job : Jobs, stack : Seq(Frames), snap : [Bindings -> Rows], view : [Bindings -> Rows],
     wrote : SUBSET Bindings, locks : SUBSET MagentoIds, rowLocks : SUBSET Bindings,
     delayed : SUBSET Jobs]

ASSUME SyncAssumption ==
    /\ Shop \subseteq MagentoIds /\ None \notin MagentoIds
    /\ Products \subseteq Bindings /\ Born \subseteq Products /\ Waiting \subseteq Born
    /\ None \notin Bindings /\ MagentoIds \cap Bindings = {} /\ None \notin Works \cup Filled
    /\ None # Gone /\ None \notin Times
    /\ {None, Gone} \cap [version : Nat, updated : Times] = {}
    /\ Linked \in [Bindings \ Products -> Shop \cup {None}]
    /\ \A b, c \in Bindings \ Products : Linked[b] = Linked[c] => b = c \/ Linked[b] = None
    /\ Category \in [MagentoIds -> MagentoIds \cup {None}]
    /\ Parent \in [Bindings -> SUBSET Products]
    /\ Buffer \in Nat /\ MaxTime \in Nat \ {0}
    /\ Allowance \in [Perturbations -> Nat]

VARIABLES
    clock,      \* the time, in the seconds of updated_at and sync_date
    magento,    \* the records of Magento: the version of their content, updated_at
    opened,     \* the start of the Magento transaction that changes a record
    rows,       \* the committed bindings: magento_id, imported version, sync_date
    fromDate,   \* import_products_from_date of the backend
    queue,      \* the jobs that wait for a worker
    failed,     \* the jobs that failed, which the users are shown
    work,       \* the job each worker runs, and its transaction
    left,       \* the perturbations still allowed
    overtaken   \* history: records changed on Magento while a job was at them, or taken back

vars == <<clock, magento, opened, rows, fromDate, queue, failed, work, left,
          overtaken>>

-----------------------------------------------------------------------------
BatchJob(from, to) == [kind |-> "batch", from |-> from, to |-> to]
ImportJob(m, force) == [kind |-> "import", of |-> m, force |-> force]
ExportJob(b) == [kind |-> "export", of |-> b]
DeleteJob(m) == [kind |-> "delete", of |-> m]

Row(m, version, sync) == [mid |-> m, version |-> version, sync |-> sync]
Frame(of) == [of |-> of, link |-> None, version |-> 0, step |-> "read"]

\* to_openerp: the binding of a record of Magento in a view of the rows.
Bound(view, m) == {b \in Bindings : view[b] # None /\ view[b].mid = m}
ToOpenerp(view, m) ==
    IF Bound(view, m) = {} THEN None ELSE CHOOSE b \in Bound(view, m) : TRUE

Busy == {w \in Workers : work[w] # None}
Others(w) == Busy \ {w}

\* A new row has an id that nobody knows: no snapshot and no job.
Fresh ==
    {b \in Bindings :
        /\ rows[b] = None /\ ExportJob(b) \notin queue
        /\ \A o \in Busy : /\ work[o].view[b] = None
                           /\ \A i \in 1 .. Len(work[o].stack) : work[o].stack[i].of # b}

Top(w) == Head(work[w].stack)
At(w, kind, step) ==
    /\ work[w] # None /\ work[w].job.kind = kind
    /\ work[w].stack # <<>> /\ Top(w).step = step

\* The row locks of the other transactions: rows written, rows locked.
Held(w) == UNION {work[o].wrote \cup work[o].rowLocks : o \in Others(w)}

Become(w, t) == work' = [work EXCEPT ![w] = t]
Goto(w, frame) == [work[w] EXCEPT !.stack = <<frame>> \o Tail(@)]
Return(t) == [t EXCEPT !.stack = Tail(@)]
Exists(m) == magento[m] \notin {None, Gone}
Step(f, step) == [f EXCEPT !.step = step]

Spend(kind) ==
    /\ left[kind] > 0 /\ left["total"] > 0
    /\ left' = [left EXCEPT ![kind] = @ - 1, !["total"] = @ - 1]

\* The transaction is rolled back: a RetryableJobError or an OperationalError
\* sends the job back to the queue, another error fails it.
Retry(w) ==
    /\ Become(w, None) /\ queue' = queue \cup {work[w].job}
    /\ UNCHANGED <<clock, magento, opened, rows, fromDate, failed, left, overtaken>>
Fail(w) ==
    /\ Become(w, None) /\ failed' = failed \cup {work[w].job}
    /\ UNCHANGED <<clock, magento, opened, rows, fromDate, queue, left, overtaken>>

\* What the transaction wrote becomes visible with the jobs that it delayed,
\* its locks are released and the next query takes a new snapshot.
Committed(t) == [b \in Bindings |-> IF b \in t.wrote THEN t.view[b] ELSE rows[b]]
Commit(w, t) ==
    /\ rows' = Committed(t) /\ queue' = queue \cup t.delayed
    /\ Become(w, [t EXCEPT !.snap = Committed(t), !.view = Committed(t), !.wrote = {},
                           !.locks = {}, !.rowLocks = {}, !.delayed = {}])

-----------------------------------------------------------------------------
(* The job of a worker *)

\* A job begins with its first queries, which give the transaction its
\* snapshot, and the reading of its record.
NewWork(j) ==
    [job |-> j, stack |-> <<Frame(j.of)>>, snap |-> rows, view |-> rows,
     wrote |-> {}, locks |-> {}, rowLocks |-> {}, delayed |-> {}]

\* The job has no record left to treat: it is committed as done.
Finish(w) ==
    /\ work[w] # None /\ work[w].stack = <<>>
    /\ rows' = Committed(work[w]) /\ queue' = queue \cup work[w].delayed
    /\ Become(w, None)
    /\ UNCHANGED <<clock, magento, opened, fromDate, failed, left, overtaken>>

\* The process dies: its transaction is lost, what it did on Magento is not.
Crash(w) ==
    /\ work[w] # None /\ Spend("crash")
    /\ Become(w, None) /\ queue' = queue \cup {work[w].job}
    /\ UNCHANGED <<clock, magento, opened, rows, fromDate, failed, overtaken>>

-----------------------------------------------------------------------------
(* MagentoImporter *)

IsUpToDate(m, row) == magento[m].updated < row.sync

\* run: the Magento data are read first, then the binding of the snapshot.
ImportRead(t) ==
    LET m == Head(t.stack).of
        b == ToOpenerp(t.view, m)
        force == t.job.force /\ Len(t.stack) = 1
        skip == \/ ~Exists(m)
                \/ b # None /\ ~force /\ IsUpToDate(m, t.view[b])
    IN IF skip THEN Return(t)
       ELSE [t EXCEPT !.stack = <<[of |-> m, link |-> b, version |-> magento[m].version,
                                   step |-> "lock"]>> \o Tail(@)]

BeginImport(w, j) ==
    /\ work[w] = None /\ j \in queue /\ j.kind = "import"
    /\ queue' = queue \ {j}
    /\ Become(w, ImportRead(NewWork(j)))
    /\ UNCHANGED <<clock, magento, opened, rows, fromDate, failed, left, overtaken>>

ImportDependency(w) ==
    /\ At(w, "import", "read")
    /\ Become(w, ImportRead(work[w]))
    /\ UNCHANGED <<clock, magento, opened, rows, fromDate, queue, failed, left, overtaken>>

Missing(w, m) == Category[m] # None /\ ToOpenerp(work[w].view, Category[m]) = None

\* advisory_lock_or_retry, then _import_dependencies.
ImportLock(w) ==
    /\ At(w, "import", "lock")
    /\ LET m == Top(w).of
           locked == [Goto(w, Step(Top(w), "write")) EXCEPT !.locks = @ \cup {m}]
       IN IF \E o \in Others(w) : m \in work[o].locks
          THEN Retry(w)
          ELSE /\ Become(w, IF Missing(w, m)
                            THEN [locked EXCEPT !.stack = <<Frame(Category[m])>> \o @]
                            ELSE locked)
               /\ UNCHANGED <<clock, magento, opened, rows, fromDate, queue, failed, left, overtaken>>

\* _update or _create, then bind.  An update waits for the transaction that
\* has the row and fails if it changed it; so does an insertion for the one
\* that inserts the same magento_id, which is unique.
ImportWrite(w) ==
    /\ At(w, "import", "write")
    /\ LET f == Top(w)
           row == Row(f.of, f.version, clock)
           Write(b) == Become(w, Return([work[w] EXCEPT !.view[b] = row,
                                                        !.wrote = @ \cup {b}]))
           Done(b) == /\ Write(b)
                      /\ UNCHANGED <<clock, magento, opened, rows, fromDate, queue, failed, left,
                                     overtaken>>
       IN IF Missing(w, f.of) THEN Fail(w)
          ELSE IF f.link # None
          THEN /\ f.link \notin Held(w)
               /\ IF rows[f.link] # work[w].snap[f.link] THEN Retry(w) ELSE Done(f.link)
          ELSE /\ \A o \in Others(w) : Bound(work[o].view, f.of) \cap work[o].wrote = {}
               /\ IF Bound(Committed(work[w]), f.of) # {} THEN Fail(w)
                  ELSE /\ Fresh \ Products # {}
                       /\ Done(CHOOSE b \in Fresh \ Products : TRUE)

-----------------------------------------------------------------------------
(* MagentoExporter *)

ShouldImport(row) ==
    /\ row.mid # None
    /\ row.sync = None \/ row.sync < magento[row.mid].updated

\* run: to_backend, and the import that the export must not hide.
ExportRead(t) ==
    LET f == Head(t.stack)
        row == t.view[f.of]
        gone == row.mid # None /\ ~Exists(row.mid)
        next == [t EXCEPT !.stack =
                    <<[f EXCEPT !.link = IF gone THEN None ELSE row.mid,
                                !.step = "dependencies"]>> \o Tail(@)]
    IN IF ~gone /\ ShouldImport(row)
       THEN [next EXCEPT !.delayed = @ \cup {ImportJob(row.mid, TRUE)}] ELSE next

\* The job of a binding deleted since then fails.
BeginExport(w, j) ==
    /\ work[w] = None /\ j \in queue /\ j.kind = "export"
    /\ queue' = queue \ {j}
    /\ IF rows[j.of] = None THEN failed' = failed \cup {j} /\ UNCHANGED work
       ELSE Become(w, ExportRead(NewWork(j))) /\ UNCHANGED failed
    /\ UNCHANGED <<clock, magento, opened, rows, fromDate, left, overtaken>>

ExportDependency(w) ==
    /\ At(w, "export", "read")
    /\ Become(w, ExportRead(work[w]))
    /\ UNCHANGED <<clock, magento, opened, rows, fromDate, queue, failed, left, overtaken>>

\* _export_dependencies: the binding of the dependency is created and
\* committed, and the dependency is exported unless it has an id on Magento.
ExportDependencies(w) ==
    /\ At(w, "export", "dependencies")
    /\ LET t == work[w]
           f == Top(w)
           needed == {p \in Parent[f.of] : t.view[p] # None}
           unbound == {p \in needed : t.view[p].mid = None}
       IN IF Parent[f.of] # {} /\ needed = {}
          THEN IF \E p \in Parent[f.of] : rows[p] # None THEN Retry(w)
               ELSE \E p \in Parent[f.of] \cap Fresh :
                       /\ Commit(w, [t EXCEPT !.view[p] = Row(None, 0, None),
                                              !.wrote = @ \cup {p}])
                       /\ UNCHANGED <<clock, magento, opened, fromDate, failed, left, overtaken>>
          ELSE /\ \/ unbound = {} /\ Become(w, Goto(w, Step(f, "lock")))
                  \/ \E p \in unbound :
                        Become(w, [t EXCEPT !.stack = <<Frame(p), Step(f, "lock")>> \o Tail(@)])
               /\ UNCHANGED <<clock, magento, opened, rows, fromDate, queue, failed, left, overtaken>>

\* Mutant of ExportLock: the record is not locked.
ExportLockNone(w) ==
    /\ At(w, "export", "lock")
    /\ Become(w, Goto(w, Step(Top(w), "send")))
    /\ UNCHANGED <<clock, magento, opened, rows, fromDate, queue, failed, left, overtaken>>

\* _lock: SELECT FOR UPDATE NOWAIT.
ExportLock(w) ==
    /\ At(w, "export", "lock")
    /\ LET b == Top(w).of
       IN IF b \in Held(w) \/ rows[b] # work[w].snap[b] THEN Retry(w)
          ELSE /\ Become(w, [Goto(w, Step(Top(w), "send")) EXCEPT !.rowLocks = @ \cup {b}])
               /\ UNCHANGED <<clock, magento, opened, rows, fromDate, queue, failed, left, overtaken>>

\* Magento gives a new record an identifier that it never used.
Unused == {m \in MagentoIds : magento[m] = None}

\* The end of _run: create or write on Magento, or nothing to export.  The
\* binding may have been deleted: what was read of it before is still sent,
\* unless the mapping reads more of it.
ExportSend(w) ==
    /\ At(w, "export", "send")
    /\ LET f == Top(w)
           Sent(m, version) ==
               /\ magento' = [magento EXCEPT ![m] = [version |-> version, updated |-> clock]]
               /\ Become(w, Goto(w, [f EXCEPT !.link = m, !.step = "bind"]))
               /\ UNCHANGED <<clock, opened, rows, fromDate, queue, failed, left, overtaken>>
       IN \/ /\ f.link # None
             /\ IF ~Exists(f.link) THEN Fail(w)
                ELSE Sent(f.link, magento[f.link].version)
          \/ /\ f.link = None
             /\ Unused # {} /\ Sent(CHOOSE m \in Unused : TRUE, 0)
          \/ /\ Become(w, Goto(w, Step(f, "bind")))
             /\ UNCHANGED <<clock, magento, opened, rows, fromDate, queue, failed, left, overtaken>>
          \/ work[w].view[f.of] = None /\ Fail(w)

\* An export that took the id of its binding before it committed what the
\* binding depends on gives the binding an older record back.
TakenBack(before, m) ==
    before.mid \notin {None, m} /\ Exists(m) /\ magento[m].version > 0

\* The end of run: bind, which asserts an id, and commit.  The content of a
\* record that was created comes from Odoo.
ExportBind(w) ==
    /\ At(w, "export", "bind")
    /\ LET f == Top(w)
           before == work[w].view[f.of]
           version == IF before.mid = f.link THEN before.version ELSE 0
           row == Row(f.link, version, clock)
       IN /\ f.link # None =>
                 \A o \in Others(w) : Bound(work[o].view, f.link) \cap work[o].wrote = {}
          /\ IF before = None \/ f.link = None \/ Bound(rows, f.link) \ {f.of} # {} THEN Fail(w)
             ELSE /\ Commit(w, Return([work[w] EXCEPT !.view[f.of] = row,
                                                      !.wrote = @ \cup {f.of}]))
                  /\ overtaken' = IF TakenBack(before, f.link) THEN overtaken \cup {f.link}
                                  ELSE overtaken
                  /\ UNCHANGED <<clock, magento, opened, fromDate, failed, left>>

-----------------------------------------------------------------------------
(* Batches, listeners of the records, Magento *)

\* Mutant of ImportFromDate: no buffer back in time.
ImportFromDateNow ==
    /\ Spend("batch")
    /\ queue' = queue \cup {BatchJob(fromDate, clock)}
    /\ fromDate' = clock
    /\ UNCHANGED <<clock, magento, opened, rows, failed, work, overtaken>>

\* _import_from_date, from the backend's form or from the cron.
ImportFromDate ==
    /\ Spend("batch")
    /\ queue' = queue \cup {BatchJob(fromDate, clock)}
    /\ fromDate' = clock - Buffer
    /\ UNCHANGED <<clock, magento, opened, rows, failed, work, overtaken>>

\* import_batch: search, and one job for each record found.
RunBatch(j) ==
    /\ j \in queue /\ j.kind = "batch"
    /\ LET found == {m \in MagentoIds : /\ Exists(m)
                                        /\ magento[m].updated \in j.from .. j.to}
       IN queue' = (queue \ {j}) \cup {ImportJob(m, FALSE) : m \in found}
    /\ UNCHANGED <<clock, magento, opened, rows, fromDate, failed, work, left, overtaken>>

\* delay_export: a record of Odoo that has a binding is written.
DelayExport(b) ==
    /\ rows[b] # None /\ Spend("user")
    /\ queue' = queue \cup {ExportJob(b)}
    /\ UNCHANGED <<clock, magento, opened, rows, fromDate, failed, work, overtaken>>

\* delay_unlink: the binding is deleted, its record on Magento will be.
DelayUnlink(b) ==
    /\ rows[b] # None /\ \A w \in Busy : b \notin work[w].wrote \cup work[w].rowLocks
    /\ Spend("user")
    /\ rows' = [rows EXCEPT ![b] = None]
    /\ queue' = queue \cup (IF rows[b].mid = None THEN {} ELSE {DeleteJob(rows[b].mid)})
    /\ UNCHANGED <<clock, magento, opened, fromDate, failed, work, overtaken>>

ExportDelete(j) ==
    /\ j \in queue /\ j.kind = "delete" /\ queue' = queue \ {j}
    /\ magento' = [magento EXCEPT ![j.of] = Gone]
    /\ opened' = [opened EXCEPT ![j.of] = None]
    /\ UNCHANGED <<clock, rows, fromDate, failed, work, left, overtaken>>

\* A transaction of Magento dates the record with its start.
MagentoBegin(m) ==
    /\ Exists(m) /\ opened[m] = None /\ Spend("shop")
    /\ opened' = [opened EXCEPT ![m] = clock]
    /\ UNCHANGED <<clock, magento, rows, fromDate, queue, failed, work, overtaken>>

\* A job is at the record: it read it, and has not bound it yet.
AtRecord(w, m) ==
    \E i \in 1 .. Len(work[w].stack) :
        LET f == work[w].stack[i]
        IN f.step # "read" /\ m = IF work[w].job.kind = "import" THEN f.of ELSE f.link

\* A sync_date, committed or not, is not older than the date of the change.
Stamped(view, m) == \E b \in Bound(view, m) : view[b].sync # None /\ view[b].sync >= opened[m]

MagentoCommit(m) ==
    /\ opened[m] # None
    /\ magento' = [magento EXCEPT ![m] = [version |-> @.version + 1, updated |-> opened[m]]]
    /\ opened' = [opened EXCEPT ![m] = None]
    /\ overtaken' = IF \/ Stamped(rows, m)
                       \/ \E w \in Busy : AtRecord(w, m) \/ Stamped(work[w].view, m)
                    THEN overtaken \cup {m} ELSE overtaken
    /\ UNCHANGED <<clock, rows, fromDate, queue, failed, work, left>>

MagentoRemove(m) ==
    /\ Exists(m) /\ opened[m] = None /\ Spend("shop")
    /\ magento' = [magento EXCEPT ![m] = Gone]
    /\ UNCHANGED <<clock, opened, rows, fromDate, queue, failed, work, overtaken>>

\* No transaction of Magento lasts longer than the buffer.
Tick ==
    /\ clock < MaxTime
    /\ \A m \in MagentoIds : opened[m] # None => clock - opened[m] < Buffer
    /\ clock' = clock + 1
    /\ UNCHANGED <<magento, opened, rows, fromDate, queue, failed, work, left,
          overtaken>>

-----------------------------------------------------------------------------
Init ==
    /\ clock = 1
    /\ magento = [m \in MagentoIds |-> IF m \in Shop THEN [version |-> 1, updated |-> 0]
                                       ELSE None]
    /\ opened = [m \in MagentoIds |-> None]
    /\ rows = [b \in Bindings |->
                 IF b \in Born THEN Row(None, 0, None)
                 ELSE IF b \in Products \/ Linked[b] = None THEN None
                 ELSE Row(Linked[b], 1, 0)]
    /\ fromDate = 1
    /\ queue = {ExportJob(b) : b \in Waiting} /\ failed = {}
    /\ work = [w \in Workers |-> None]
    /\ left = Allowance
    /\ overtaken = {}

JobStep(w) ==
    \/ \E j \in queue : BeginImport(w, j) \/ BeginExport(w, j)
    \/ ImportDependency(w) \/ ImportLock(w) \/ ImportWrite(w)
    \/ ExportDependency(w) \/ ExportDependencies(w) \/ ExportLock(w)
    \/ ExportSend(w) \/ ExportBind(w)
    \/ Finish(w)

Next ==
    \/ \E w \in Workers : JobStep(w) \/ Crash(w)
    \/ ImportFromDate \/ \E j \in queue : RunBatch(j) \/ ExportDelete(j)
    \/ \E b \in Bindings : DelayExport(b) \/ DelayUnlink(b)
    \/ \E m \in MagentoIds : MagentoBegin(m) \/ MagentoCommit(m) \/ MagentoRemove(m)
    \/ Tick

Spec == Init /\ [][Next]_vars

-----------------------------------------------------------------------------
(* Properties *)

\* What the variables hold: connector.py and the two synchronizers.
SyncTypeOK ==
    /\ clock \in Times /\ fromDate \in Int
    /\ magento \in [MagentoIds -> {None, Gone} \cup [version : Nat, updated : Times]]
    /\ opened \in [MagentoIds -> Times \cup {None}]
    /\ rows \in [Bindings -> Rows]
    /\ queue \cup failed \subseteq Jobs
    /\ work \in [Workers -> Works \cup {None}]
    /\ left \in [Perturbations -> Nat]
    /\ overtaken \subseteq MagentoIds

\* A job will look at the record: one that waits, or one not yet at it.
Awaited(m, force) ==
    \/ \E j \in queue : j.kind = "import" /\ j.of = m /\ (force => j.force)
    \/ \E w \in Busy : /\ work[w].job = ImportJob(m, force)
                      /\ work[w].stack = <<Frame(m)>>
    \/ /\ ~force
       /\ \/ magento[m].updated >= fromDate
          \/ \E j \in queue : j.kind = "batch" /\ magento[m].updated \in j.from .. j.to

\* An import read the record as it is and has not committed it yet.
Coming(b, m) ==
    \E w \in Busy :
        /\ work[w].job.kind = "import"
        /\ \/ b \in work[w].wrote /\ work[w].view[b].version = magento[m].version
           \/ \E i \in 1 .. Len(work[w].stack) :
                 LET f == work[w].stack[i]
                 IN f.of = m /\ f.step # "read" /\ f.version = magento[m].version

\* No change made on Magento is lost without a failed job to tell it: a binding
\* older than its record has an import to come that does not skip it, a forced
\* one, or one that will find the date of the change not older than the last
\* synchronization.  Only a change that overtook a job at the record, or of the
\* second of a synchronization, is excused (import_synchronizer.py,
\* _is_uptodate).
NoLostChange ==
    \A b \in Bindings :
        LET m == rows[b].mid
        IN (/\ rows[b] # None /\ m # None /\ Exists(m)
            /\ rows[b].version < magento[m].version /\ m \notin overtaken)
           => \/ Awaited(m, TRUE) \/ Coming(b, m)
              \/ \E force \in BOOLEAN : ImportJob(m, force) \in failed
              \/ magento[m].updated >= rows[b].sync /\ Awaited(m, FALSE)

\* While a job creates or updates a record on the other side, no other job
\* does so for the same record: the advisory lock of an import, the row lock
\* of an export until its commit (_lock).
OneJobAtRecord ==
    \A w \in Busy : \A o \in Others(w) :
        \A i \in 1 .. Len(work[w].stack), k \in 1 .. Len(work[o].stack) :
            LET f == work[w].stack[i]
                g == work[o].stack[k]
            IN {f.step, g.step} \subseteq {"write", "send", "bind"} => f.of # g.of

\* An import that is about to create a binding holds the lock and sees the
\* bindings that the previous holders of the lock committed
\* (connector.py, pg_try_advisory_lock).
ImportSeesBinding ==
    \A w \in Busy :
        At(w, "import", "write") /\ Top(w).link = None => Bound(rows, Top(w).of) = {}
=============================================================================
