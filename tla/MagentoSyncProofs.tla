------------------------- MODULE MagentoSyncProofs -------------------------
(***************************************************************************)
(* The synchronization with Magento, for any number of workers, records    *)
(* and bindings: types, one job at a record at a time, and no change of    *)
(* Magento that is lost.                                                   *)
(***************************************************************************)
EXTENDS MagentoSync, SequenceTheorems, TLAPS

-----------------------------------------------------------------------------
(* The inductive invariant                                                 *)

\* The frames of an import that writes are covered by its advisory locks; of
\* an export only the last frame can be beyond the row lock, which a commit
\* of the transaction gives back, or be about to read its binding.
ImportFrame(t, f) ==
    /\ f.of \in MagentoIds /\ f.step \in {"read", "lock", "write"}
    /\ f.link \in Bindings \cup {None}
    /\ f.step = "write" => f.of \in t.locks

ExportFrame(t, f, i) ==
    /\ f.of \in Bindings /\ f.step \in {"read", "dependencies", "lock", "send", "bind"}
    /\ f.link \in MagentoIds \cup {None}
    /\ f.step \in {"send", "bind"} => i = 1 /\ f.of \in t.rowLocks
    /\ f.step = "read" => i = 1 /\ t.view[f.of] # None

WellStacked(t) ==
    /\ t.job.kind \in {"import", "export"}
    /\ \A i \in 1..Len(t.stack) :
          /\ t.job.kind = "import" => ImportFrame(t, t.stack[i])
          /\ t.job.kind = "export" => ExportFrame(t, t.stack[i], i)

Fine(t) == t \in Works /\ WellStacked(t)

Exclusive ==
    \A w, o \in Workers : w # o /\ work[w] # None /\ work[o] # None =>
        /\ work[w].locks \cap work[o].locks = {}
        /\ work[w].rowLocks \cap work[o].rowLocks = {}

SyncInv ==
    /\ SyncTypeOK
    /\ \A m \in MagentoIds : opened[m] # None => magento[m] \in [version : Nat, updated : Times]
    /\ \A w \in Workers : work[w] # None => WellStacked(work[w])
    /\ Exclusive

-----------------------------------------------------------------------------
(* Stacks                                                                  *)

LEMMA TopOfStack ==
    ASSUME NEW S, NEW s \in Seq(S), s # <<>>
    PROVE  /\ Len(s) \in Nat /\ Len(s) >= 1 /\ Head(s) = s[1] /\ Head(s) \in S
           /\ Tail(s) \in Seq(S) /\ Len(Tail(s)) = Len(s) - 1
           /\ \A i \in 1..(Len(s) - 1) : Tail(s)[i] = s[i + 1]
OBVIOUS

LEMMA PushOnStack ==
    ASSUME NEW S, NEW s \in Seq(S), NEW f \in S
    PROVE  /\ <<f>> \o s \in Seq(S) /\ Len(<<f>> \o s) = Len(s) + 1
           /\ (<<f>> \o s)[1] = f
           /\ \A i \in 2..(Len(s) + 1) : (<<f>> \o s)[i] = s[i - 1]
OBVIOUS

\* Two frames are put one after the other.
LEMMA PushTwo ==
    ASSUME NEW S, NEW s \in Seq(S), NEW f \in S, NEW g \in S
    PROVE  <<f, g>> \o s = <<f>> \o (<<g>> \o s)
<1>1. <<f>> \in Seq(S) /\ <<g>> \in Seq(S)
  OBVIOUS
<1>2. <<f, g>> = <<f>> \o <<g>>
  <2>1. /\ <<f>> \o <<g>> \in Seq(S) /\ Len(<<f>> \o <<g>>) = 2
        /\ (<<f>> \o <<g>>)[1] = f /\ (<<f>> \o <<g>>)[2] = g
    BY <1>1, PushOnStack
  <2>2. <<f, g>> \in Seq(S) /\ Len(<<f, g>>) = 2 /\ <<f, g>>[1] = f /\ <<f, g>>[2] = g
    OBVIOUS
  <2>3. \A i \in 1..2 : i = 1 \/ i = 2
    OBVIOUS
  <2>4. \A i \in 1..Len(<<f, g>>) : <<f, g>>[i] = (<<f>> \o <<g>>)[i]
    BY <2>1, <2>2, <2>3
  <2> QED BY <2>1, <2>2, <2>4, SeqEqual
<1> QED BY <1>1, <1>2, ConcatAssociative

LEMMA ReplaceTop ==
    ASSUME NEW S, NEW s \in Seq(S), s # <<>>, NEW f \in S
    PROVE  /\ <<f>> \o Tail(s) \in Seq(S) /\ Len(<<f>> \o Tail(s)) = Len(s)
           /\ (<<f>> \o Tail(s))[1] = f
           /\ \A i \in 2..Len(s) : (<<f>> \o Tail(s))[i] = s[i]
<1>1. /\ Tail(s) \in Seq(S) /\ Len(Tail(s)) = Len(s) - 1 /\ Len(s) \in Nat
      /\ \A i \in 1..(Len(s) - 1) : Tail(s)[i] = s[i + 1]
  BY TopOfStack
<1>2. /\ <<f>> \o Tail(s) \in Seq(S) /\ Len(<<f>> \o Tail(s)) = Len(Tail(s)) + 1
      /\ (<<f>> \o Tail(s))[1] = f
      /\ \A i \in 2..(Len(Tail(s)) + 1) : (<<f>> \o Tail(s))[i] = Tail(s)[i - 1]
  BY <1>1, PushOnStack
<1> QED BY <1>1, <1>2

\* A record is done: the ones below it were waiting.
LEMMA ReturnFine ==
    ASSUME NEW t, Fine(t), t.stack # <<>>
    PROVE  Fine(Return(t)) /\ Return(t).locks = t.locks /\ Return(t).rowLocks = t.rowLocks
<1>1. /\ t.stack \in Seq(Frames) /\ t \in Works
  BY DEF Fine, Works
<1>2. Return(t) \in Works /\ Return(t).stack = Tail(t.stack) /\ Return(t).job = t.job
      /\ Return(t).locks = t.locks /\ Return(t).rowLocks = t.rowLocks
  BY <1>1, TopOfStack DEF Return, Works
<1>3. /\ Len(t.stack) \in Nat /\ Len(Return(t).stack) = Len(t.stack) - 1
      /\ \A i \in 1..(Len(t.stack) - 1) : Return(t).stack[i] = t.stack[i + 1]
  BY <1>1, <1>2, TopOfStack
<1>4. ASSUME NEW i \in 1..Len(Return(t).stack)
      PROVE  /\ t.job.kind = "import" => ImportFrame(Return(t), Return(t).stack[i])
             /\ t.job.kind = "export" => ExportFrame(Return(t), Return(t).stack[i], i)
  <2>1. i + 1 \in 1..Len(t.stack) /\ i \in 1..(Len(t.stack) - 1) /\ i + 1 # 1
    BY <1>3
  <2> QED BY <1>2, <1>3, <2>1 DEF Fine, WellStacked, ImportFrame, ExportFrame
<1> QED BY <1>2, <1>4 DEF Fine, WellStacked

\* The record on top goes on, with the locks that it takes.
LEMMA TopFine ==
    ASSUME NEW t, Fine(t), t.stack # <<>>, NEW u \in Works, NEW f \in Frames,
           u.stack = <<f>> \o Tail(t.stack), u.job = t.job,
           t.locks \subseteq u.locks, t.rowLocks \subseteq u.rowLocks,
           t.job.kind = "import" => ImportFrame(u, f),
           t.job.kind = "export" => ExportFrame(u, f, 1)
    PROVE  Fine(u)
<1>1. t.stack \in Seq(Frames)
  BY DEF Fine, Works
<1>2. /\ Len(u.stack) = Len(t.stack) /\ u.stack[1] = f
      /\ \A i \in 2..Len(t.stack) : u.stack[i] = t.stack[i]
      /\ Len(t.stack) \in Nat
  BY <1>1, ReplaceTop, TopOfStack
<1>3. ASSUME NEW i \in 1..Len(u.stack)
      PROVE  /\ u.job.kind = "import" => ImportFrame(u, u.stack[i])
             /\ u.job.kind = "export" => ExportFrame(u, u.stack[i], i)
  <2>1. CASE i = 1
    BY <1>2, <2>1
  <2>2. CASE i # 1
    <3>1. i \in 2..Len(t.stack) /\ i \in 1..Len(t.stack)
      BY <1>2, <2>2
    <3> QED BY <1>2, <3>1 DEF Fine, WellStacked, ImportFrame, ExportFrame
  <2> QED BY <2>1, <2>2
<1> QED BY <1>3 DEF Fine, WellStacked

\* Another record is put on top, before the work on it begins.
LEMMA PushFine ==
    ASSUME NEW t, Fine(t), t.stack # <<>>, NEW f \in Frames, NEW u \in Works,
           u.stack = <<f>> \o t.stack, u.job = t.job, f.step = "read",
           t.locks \subseteq u.locks, t.rowLocks \subseteq u.rowLocks,
           t.job.kind = "import" => f.of \in MagentoIds /\ f.link = None,
           t.job.kind = "export" => /\ f.of \in Bindings /\ u.view[f.of] # None
                                    /\ f.link = None
                                    /\ Head(t.stack).step \notin {"read", "send", "bind"}
    PROVE  Fine(u)
<1>1. t.stack \in Seq(Frames)
  BY DEF Fine, Works
<1>2. /\ Len(u.stack) = Len(t.stack) + 1 /\ u.stack[1] = f
      /\ \A i \in 2..(Len(t.stack) + 1) : u.stack[i] = t.stack[i - 1]
      /\ Len(t.stack) \in Nat /\ Head(t.stack) = t.stack[1]
  BY <1>1, PushOnStack, TopOfStack
<1>3. ASSUME NEW i \in 1..Len(u.stack)
      PROVE  /\ u.job.kind = "import" => ImportFrame(u, u.stack[i])
             /\ u.job.kind = "export" => ExportFrame(u, u.stack[i], i)
  <2>1. CASE i = 1
    BY <1>2, <2>1 DEF ImportFrame, ExportFrame
  <2>2. CASE i # 1
    <3>1. i \in 2..(Len(t.stack) + 1) /\ i - 1 \in 1..Len(t.stack)
      BY <1>2, <2>2
    <3> QED BY <1>2, <3>1 DEF Fine, WellStacked, ImportFrame, ExportFrame
  <2> QED BY <2>1, <2>2
<1> QED BY <1>3 DEF Fine, WellStacked

\* What a job writes does not concern the frames of its stack, once they have
\* been read.
LEMMA SameStackFine ==
    ASSUME NEW t, Fine(t), NEW u \in Works, u.stack = t.stack, u.job = t.job,
           u.locks = t.locks, u.rowLocks = t.rowLocks,
           \/ t.job.kind = "import"
           \/ \A i \in 1..Len(t.stack) : t.stack[i].step # "read"
    PROVE  Fine(u)
BY DEF Fine, WellStacked, ImportFrame, ExportFrame

\* A commit gives the locks of an export back, when no frame needs them.
LEMMA CommitFine ==
    ASSUME SyncTypeOK, NEW t, Fine(t), t.job.kind = "export",
           \A i \in 1..Len(t.stack) : t.stack[i].step \notin {"read", "send", "bind"}
    PROVE  LET u == [t EXCEPT !.snap = Committed(t), !.view = Committed(t), !.wrote = {},
                              !.locks = {}, !.rowLocks = {}, !.delayed = {}]
           IN /\ Fine(u) /\ u.locks = {} /\ u.rowLocks = {}
              /\ Committed(t) \in [Bindings -> Rows]
<1> DEFINE u == [t EXCEPT !.snap = Committed(t), !.view = Committed(t), !.wrote = {},
                          !.locks = {}, !.rowLocks = {}, !.delayed = {}]
<1>1. t \in Works
  BY DEF Fine
<1>2. Committed(t) \in [Bindings -> Rows]
  BY <1>1 DEF Committed, Works, SyncTypeOK
<1>3. u \in Works /\ u.stack = t.stack /\ u.job = t.job /\ u.locks = {} /\ u.rowLocks = {}
  BY <1>1, <1>2 DEF Works
<1>4. Fine(u)
  BY <1>3 DEF Fine, WellStacked, ExportFrame
<1> QED BY <1>2, <1>3, <1>4

-----------------------------------------------------------------------------
(* The works of all workers                                                *)

\* The locks of a work are nobody else's.
Free(w, t) ==
    \A o \in Workers : o # w /\ work[o] # None =>
        t.locks \cap work[o].locks = {} /\ t.rowLocks \cap work[o].rowLocks = {}

LEMMA WorkStep ==
    ASSUME SyncInv, NEW w \in Workers, NEW t, t = None \/ (Fine(t) /\ Free(w, t)), Become(w, t)
    PROVE  /\ work' \in [Workers -> Works \cup {None}]
           /\ \A v \in Workers : work'[v] # None => WellStacked(work'[v])
           /\ Exclusive'
<1>1. /\ work \in [Workers -> Works \cup {None}]
      /\ \A v \in Workers : work[v] # None => WellStacked(work[v])
      /\ Exclusive
  BY DEF SyncInv, SyncTypeOK
<1>2. work'[w] = t /\ \A v \in Workers : v # w => work'[v] = work[v]
  BY <1>1 DEF Become
<1>3. work' \in [Workers -> Works \cup {None}]
  BY <1>1 DEF Become, Fine
<1>4. ASSUME NEW v \in Workers, work'[v] # None PROVE WellStacked(work'[v])
  BY <1>1, <1>2, <1>4 DEF Fine
<1>5. Exclusive'
  BY <1>1, <1>2 DEF Exclusive, Free
<1> QED BY <1>3, <1>4, <1>5

\* The work of a busy worker.
LEMMA BusyWork ==
    ASSUME SyncInv, NEW w \in Workers, work[w] # None
    PROVE  Fine(work[w]) /\ Free(w, work[w])
BY DEF SyncInv, SyncTypeOK, Fine, Free, Exclusive

\* A work with the same locks is as free as it was.
LEMMA StaysFree ==
    ASSUME NEW w, NEW t, NEW u, Free(w, t),
           u.locks \subseteq t.locks, u.rowLocks \subseteq t.rowLocks
    PROVE  Free(w, u)
BY DEF Free

\* Where a job is.
LEMMA AtTop ==
    ASSUME SyncInv, NEW w \in Workers, NEW kind, NEW step, At(w, kind, step)
    PROVE  /\ work[w] # None /\ Fine(work[w]) /\ Free(w, work[w]) /\ work[w] \in Works
           /\ work[w].job.kind = kind /\ work[w].stack # <<>> /\ work[w].stack \in Seq(Frames)
           /\ Top(w) \in Frames /\ Top(w).step = step
           /\ kind = "import" => ImportFrame(work[w], Top(w))
           /\ kind = "export" => ExportFrame(work[w], Top(w), 1)
           /\ kind \in {"import", "export"}
<1>1. /\ work[w] # None /\ work[w].job.kind = kind /\ work[w].stack # <<>> /\ Top(w).step = step
  BY DEF At
<1>2. Fine(work[w]) /\ Free(w, work[w])
  BY <1>1, BusyWork
<1>3. work[w] \in Works /\ work[w].stack \in Seq(Frames)
  BY <1>2 DEF Fine, Works
<1>4. Top(w) = work[w].stack[1] /\ Top(w) \in Frames /\ 1 \in 1..Len(work[w].stack)
  BY <1>1, <1>3, TopOfStack DEF Top
<1> QED BY <1>1, <1>2, <1>3, <1>4 DEF Fine, WellStacked

\* The steps that only change the works, the queue and the failed jobs.
LEMMA OnlyWork ==
    ASSUME SyncInv, UNCHANGED <<clock, magento, opened, fromDate>>,
           rows' \in [Bindings -> Rows], queue' \cup failed' \subseteq Jobs,
           left' \in [Perturbations -> Nat], overtaken' \subseteq MagentoIds,
           work' \in [Workers -> Works \cup {None}],
           \A v \in Workers : work'[v] # None => WellStacked(work'[v]), Exclusive'
    PROVE  SyncInv'
<1>1. SyncTypeOK'
  BY DEF SyncInv, SyncTypeOK
<1> QED BY <1>1 DEF SyncInv, Exists

LEMMA SpendType ==
    ASSUME SyncInv, NEW kind \in Perturbations, Spend(kind)
    PROVE  left' \in [Perturbations -> Nat]
BY DEF Spend, SyncInv, SyncTypeOK, Perturbations

\* A job that goes on with a work t.
LEMMA GoesOn ==
    ASSUME SyncInv, NEW w \in Workers, NEW t, Fine(t), Free(w, t), Become(w, t),
           UNCHANGED <<clock, magento, opened, rows, fromDate, failed, left, overtaken>>,
           queue' \subseteq Jobs
    PROVE  SyncInv'
<1>1. /\ work' \in [Workers -> Works \cup {None}]
      /\ \A v \in Workers : work'[v] # None => WellStacked(work'[v])
      /\ Exclusive'
  BY WorkStep
<1>2. rows' \in [Bindings -> Rows] /\ queue' \cup failed' \subseteq Jobs
      /\ left' \in [Perturbations -> Nat] /\ overtaken' \subseteq MagentoIds
  BY DEF SyncInv, SyncTypeOK
<1> QED BY <1>1, <1>2, OnlyWork

\* A job that is rolled back.
LEMMA RolledBack ==
    ASSUME SyncInv, NEW w \in Workers, work[w] # None, Retry(w) \/ Fail(w) PROVE SyncInv'
<1>1. work[w].job \in Jobs
  BY DEF SyncInv, SyncTypeOK, Works
<1>2. /\ work' \in [Workers -> Works \cup {None}]
      /\ \A v \in Workers : work'[v] # None => WellStacked(work'[v])
      /\ Exclusive'
  BY WorkStep DEF Retry, Fail
<1>3. rows' \in [Bindings -> Rows] /\ queue' \cup failed' \subseteq Jobs
      /\ left' \in [Perturbations -> Nat] /\ overtaken' \subseteq MagentoIds
  BY <1>1 DEF SyncInv, SyncTypeOK, Retry, Fail
<1> QED BY <1>2, <1>3, OnlyWork DEF Retry, Fail

-----------------------------------------------------------------------------
(* Imports                                                                 *)

\* to_openerp gives a binding or none.
LEMMA ToOpenerpType ==
    ASSUME NEW view, NEW m PROVE ToOpenerp(view, m) \in Bindings \cup {None}
<1>1. CASE Bound(view, m) = {}
  BY <1>1 DEF ToOpenerp
<1>2. CASE Bound(view, m) # {}
  <2>1. (CHOOSE b \in Bound(view, m) : TRUE) \in Bound(view, m)
    BY <1>2
  <2> QED BY <1>2, <2>1 DEF ToOpenerp, Bound
<1> QED BY <1>1, <1>2

\* A record on Magento has a version and a date.
LEMMA Existing ==
    ASSUME SyncTypeOK, NEW m \in MagentoIds, Exists(m)
    PROVE  magento[m].version \in Nat /\ magento[m].updated \in Times
BY DEF SyncTypeOK, Exists

LEMMA FrameType ==
    ASSUME NEW of \in MagentoIds \cup Bindings
    PROVE  /\ Frame(of) \in Frames /\ Frame(of).of = of /\ Frame(of).step = "read"
           /\ Frame(of).link = None
BY DEF Frame, Frames

\* The kinds of jobs.
LEMMA JobType ==
    ASSUME NEW j \in Jobs
    PROVE  /\ j.kind = "import" => j.of \in MagentoIds
           /\ j.kind = "export" => j.of \in Bindings
           /\ j.kind = "delete" => j.of \in MagentoIds
           /\ j.kind = "batch" => j.from \in Int /\ j.to \in Times
BY DEF Jobs

LEMMA NewWorkFine ==
    ASSUME SyncInv, NEW w \in Workers, NEW j \in Jobs,
           j.kind = "import" \/ (j.kind = "export" /\ rows[j.of] # None)
    PROVE  /\ Fine(NewWork(j)) /\ Free(w, NewWork(j)) /\ NewWork(j).stack # <<>>
           /\ NewWork(j).job = j
<1>1. j.of \in MagentoIds \cup Bindings /\ rows \in [Bindings -> Rows]
  BY JobType DEF SyncInv, SyncTypeOK
<1>2. /\ Frame(j.of) \in Frames /\ Frame(j.of).of = j.of /\ Frame(j.of).step = "read"
      /\ Frame(j.of).link = None
  BY <1>1, FrameType
<1>3. <<Frame(j.of)>> \in Seq(Frames) /\ Len(<<Frame(j.of)>>) = 1
      /\ <<Frame(j.of)>>[1] = Frame(j.of) /\ <<Frame(j.of)>> # <<>>
  BY <1>2
<1>4. /\ NewWork(j) \in Works /\ NewWork(j).stack = <<Frame(j.of)>> /\ NewWork(j).job = j
      /\ NewWork(j).locks = {} /\ NewWork(j).rowLocks = {} /\ NewWork(j).view = rows
  BY <1>1, <1>3 DEF NewWork, Works
<1>5. \A i \in 1..1 : i = 1
  OBVIOUS
<1>6. WellStacked(NewWork(j))
  BY <1>2, <1>3, <1>4, <1>5, JobType DEF WellStacked, ImportFrame, ExportFrame
<1> QED BY <1>3, <1>4, <1>6 DEF Fine, Free

LEMMA ImportReadFine ==
    ASSUME SyncTypeOK, NEW t, Fine(t), t.stack # <<>>, t.job.kind = "import"
    PROVE  Fine(ImportRead(t)) /\ ImportRead(t).locks = t.locks
           /\ ImportRead(t).rowLocks = t.rowLocks
<1> DEFINE m == Head(t.stack).of
           f == [of |-> m, link |-> ToOpenerp(t.view, m), version |-> magento[m].version,
                 step |-> "lock"]
           u == [t EXCEPT !.stack = <<f>> \o Tail(@)]
<1>1. t \in Works /\ t.stack \in Seq(Frames) /\ 1 \in 1..Len(t.stack) /\ Head(t.stack) = t.stack[1]
  <2>1. t \in Works /\ t.stack \in Seq(Frames)
    BY DEF Fine, Works
  <2> QED BY <2>1, TopOfStack
<1>2. m \in MagentoIds
  BY <1>1 DEF Fine, WellStacked, ImportFrame
<1>3. ImportRead(t) = Return(t) \/ (Exists(m) /\ ImportRead(t) = u)
  <2> DEFINE b == ToOpenerp(t.view, m)
             force == t.job.force /\ Len(t.stack) = 1
             skip == ~Exists(m) \/ (b # None /\ ~force /\ IsUpToDate(m, t.view[b]))
  <2>1. ImportRead(t) = IF skip THEN Return(t) ELSE u
    BY DEF ImportRead
  <2>2. CASE skip
    <3>1. (IF skip THEN Return(t) ELSE u) = Return(t)
      BY <2>2
    <3> QED BY <2>1, <3>1
  <2>3. CASE ~skip
    <3>1. (IF skip THEN Return(t) ELSE u) = u
      BY <2>3
    <3>2. Exists(m)
      BY <2>3
    <3> QED BY <2>1, <3>1, <3>2
  <2> QED BY <2>2, <2>3
<1>4. CASE ImportRead(t) = Return(t)
  BY <1>4, ReturnFine
<1>5. CASE Exists(m) /\ ImportRead(t) = u
  <2>1. f \in Frames /\ f.step = "lock" /\ f.of = m /\ f.link \in Bindings \cup {None}
    BY <1>2, <1>5, Existing, ToOpenerpType DEF Frames
  <2> HIDE DEF f
  <2>2. <<f>> \o Tail(t.stack) \in Seq(Frames)
    BY <1>1, <2>1, ReplaceTop
  <2>3. /\ u \in Works /\ u.stack = <<f>> \o Tail(t.stack) /\ u.job = t.job
        /\ u.locks = t.locks /\ u.rowLocks = t.rowLocks
    BY <1>1, <2>2 DEF Works
  <2>4. Fine(u)
    <3> HIDE DEF u
    <3> QED BY <1>2, <2>1, <2>3, TopFine DEF ImportFrame
  <2> QED BY <1>5, <2>3, <2>4
<1> QED BY <1>3, <1>4, <1>5

LEMMA BeginImportKeeps ==
    ASSUME SyncInv, NEW w \in Workers, NEW j \in queue, BeginImport(w, j) PROVE SyncInv'
<1>1. SyncTypeOK /\ j \in Jobs /\ queue \subseteq Jobs
  BY DEF SyncInv, SyncTypeOK
<1>2. /\ j.kind = "import" /\ queue' = queue \ {j} /\ Become(w, ImportRead(NewWork(j)))
      /\ UNCHANGED <<clock, magento, opened, rows, fromDate, failed, left, overtaken>>
  BY DEF BeginImport
<1>3. Fine(NewWork(j)) /\ Free(w, NewWork(j)) /\ NewWork(j).stack # <<>> /\ NewWork(j).job = j
  BY <1>1, <1>2, NewWorkFine
<1>4. Fine(ImportRead(NewWork(j))) /\ Free(w, ImportRead(NewWork(j)))
  BY <1>1, <1>2, <1>3, ImportReadFine DEF Free
<1> QED BY <1>1, <1>2, <1>4, GoesOn

LEMMA ImportDependencyKeeps ==
    ASSUME SyncInv, NEW w \in Workers, ImportDependency(w) PROVE SyncInv'
<1>1. SyncTypeOK /\ queue \subseteq Jobs
  BY DEF SyncInv, SyncTypeOK
<1>2. Fine(work[w]) /\ Free(w, work[w]) /\ work[w].stack # <<>> /\ work[w].job.kind = "import"
  BY AtTop DEF ImportDependency
<1>3. Fine(ImportRead(work[w])) /\ Free(w, ImportRead(work[w]))
  BY <1>1, <1>2, ImportReadFine DEF Free
<1> QED BY <1>1, <1>3, GoesOn DEF ImportDependency

\* The frame on top goes to another step: the stack of the work stays well
\* formed.
LEMMA GotoType ==
    ASSUME SyncInv, NEW w \in Workers, work[w] \in Works, work[w].stack # <<>>, NEW f \in Frames
    PROVE  /\ Goto(w, f) \in Works /\ Goto(w, f).stack = <<f>> \o Tail(work[w].stack)
           /\ Goto(w, f).job = work[w].job /\ Goto(w, f).view = work[w].view
           /\ Goto(w, f).locks = work[w].locks /\ Goto(w, f).rowLocks = work[w].rowLocks
           /\ Goto(w, f).stack # <<>> /\ Head(Goto(w, f).stack) = f
<1>1. work[w].stack \in Seq(Frames)
  BY DEF Works
<1>2. /\ <<f>> \o Tail(work[w].stack) \in Seq(Frames)
      /\ (<<f>> \o Tail(work[w].stack))[1] = f
      /\ Len(<<f>> \o Tail(work[w].stack)) = Len(work[w].stack)
      /\ Len(work[w].stack) >= 1 /\ Len(work[w].stack) \in Nat
  BY <1>1, ReplaceTop, TopOfStack
<1>3. <<f>> \o Tail(work[w].stack) # <<>>
  BY <1>2
<1>4. Head(<<f>> \o Tail(work[w].stack)) = f
  BY <1>2, <1>3, TopOfStack
<1> QED BY <1>2, <1>3, <1>4 DEF Goto, Works

LEMMA StepType ==
    ASSUME NEW f \in Frames, NEW step \in {"read", "lock", "write", "dependencies", "send", "bind"}
    PROVE  Step(f, step) \in Frames /\ Step(f, step).of = f.of /\ Step(f, step).step = step
           /\ Step(f, step).link = f.link
BY DEF Step, Frames

LEMMA ImportLockKeeps ==
    ASSUME SyncInv, NEW w \in Workers, ImportLock(w) PROVE SyncInv'
<1> DEFINE t == work[w]
           m == Top(w).of
           f == Step(Top(w), "write")
           locked == [Goto(w, f) EXCEPT !.locks = @ \cup {m}]
           c == Frame(Category[m])
           pushed == [locked EXCEPT !.stack = <<c>> \o @]
<1>1. /\ t # None /\ Fine(t) /\ Free(w, t) /\ t \in Works /\ t.job.kind = "import"
      /\ t.stack # <<>> /\ Top(w) \in Frames /\ m \in MagentoIds
      /\ Top(w).link \in Bindings \cup {None}
  BY AtTop DEF ImportLock, ImportFrame
<1>2. CASE \E o \in Others(w) : m \in work[o].locks
  BY <1>1, <1>2, RolledBack DEF ImportLock
<1>3. CASE ~\E o \in Others(w) : m \in work[o].locks
  <2>1. f \in Frames /\ f.of = m /\ f.step = "write" /\ f.link \in Bindings \cup {None}
    BY <1>1, StepType
  <2> HIDE DEF f
  <2>2. /\ Goto(w, f) \in Works /\ Goto(w, f).stack = <<f>> \o Tail(t.stack)
        /\ Goto(w, f).job = t.job /\ Goto(w, f).locks = t.locks
        /\ Goto(w, f).rowLocks = t.rowLocks
        /\ Goto(w, f).stack # <<>> /\ Head(Goto(w, f).stack) = f
    BY <1>1, <2>1, GotoType
  <2>3. /\ locked \in Works /\ locked.stack = <<f>> \o Tail(t.stack) /\ locked.job = t.job
        /\ locked.locks = t.locks \cup {m} /\ locked.rowLocks = t.rowLocks
        /\ locked.stack # <<>> /\ Head(locked.stack) = f
    BY <1>1, <2>2 DEF Works
  <2>4. \A o \in Workers : o # w /\ work[o] # None => m \notin work[o].locks
    BY <1>3 DEF Others, Busy
  <2>5. Fine(locked)
    <3> HIDE DEF locked
    <3> QED BY <1>1, <2>1, <2>3, TopFine DEF ImportFrame
  <2>6. Free(w, locked)
    <3> HIDE DEF locked
    <3> QED BY <1>1, <2>3, <2>4 DEF Free
  <2>7. ASSUME Missing(w, m) PROVE Fine(pushed) /\ Free(w, pushed)
    <3>1. Category[m] \in MagentoIds
      BY <1>1, <2>7, SyncAssumption DEF Missing
    <3>2. c \in Frames /\ c.of = Category[m] /\ c.step = "read" /\ c.link = None
      BY <3>1, FrameType
    <3> HIDE DEF locked, c
    <3>3. <<c>> \o locked.stack \in Seq(Frames)
      BY <2>3, <3>2, PushOnStack DEF Works
    <3>4. /\ pushed \in Works /\ pushed.stack = <<c>> \o locked.stack
          /\ pushed.job = locked.job /\ pushed.locks = locked.locks
          /\ pushed.rowLocks = locked.rowLocks
      BY <2>3, <3>3 DEF Works
    <3> HIDE DEF pushed
    <3>5. Fine(pushed)
      BY <1>1, <2>3, <2>5, <3>1, <3>2, <3>4, PushFine
    <3> QED BY <2>6, <3>4, <3>5, StaysFree
  <2>8. /\ Become(w, IF Missing(w, m) THEN pushed ELSE locked)
        /\ UNCHANGED <<clock, magento, opened, rows, fromDate, queue, failed, left, overtaken>>
    BY <1>3 DEF ImportLock, f
  <2>9. queue' \subseteq Jobs
    BY <2>8 DEF SyncInv, SyncTypeOK
  <2> HIDE DEF pushed, locked
  <2>10. CASE Missing(w, m)
    BY <2>7, <2>8, <2>9, <2>10, GoesOn
  <2>11. CASE ~Missing(w, m)
    BY <2>5, <2>6, <2>8, <2>9, <2>11, GoesOn
  <2> QED BY <2>10, <2>11
<1> QED BY <1>2, <1>3

LEMMA ImportWriteKeeps ==
    ASSUME SyncInv, NEW w \in Workers, ImportWrite(w) PROVE SyncInv'
<1> DEFINE t == work[w]
           f == Top(w)
           row == Row(f.of, f.version, clock)
           u(b) == [t EXCEPT !.view[b] = row, !.wrote = @ \cup {b}]
<1>1. /\ t # None /\ Fine(t) /\ Free(w, t) /\ t \in Works /\ t.job.kind = "import"
      /\ t.stack # <<>> /\ f \in Frames /\ f.of \in MagentoIds
      /\ f.link \in Bindings \cup {None}
  BY AtTop DEF ImportWrite, ImportFrame
<1>2. row \in Rows
  BY <1>1 DEF Row, Rows, Filled, SyncInv, SyncTypeOK, Frames
<1>3. ASSUME NEW b \in Bindings PROVE Fine(Return(u(b))) /\ Free(w, Return(u(b)))
  <2> HIDE DEF row
  <2>1. /\ u(b) \in Works /\ u(b).stack = t.stack /\ u(b).job = t.job
        /\ u(b).locks = t.locks /\ u(b).rowLocks = t.rowLocks
    BY <1>1, <1>2 DEF Works
  <2> HIDE DEF u
  <2>2. Fine(u(b))
    BY <1>1, <2>1, SameStackFine
  <2> QED BY <1>1, <2>1, <2>2, ReturnFine DEF Free
<1>4. \/ Retry(w) \/ Fail(w)
      \/ \E b \in Bindings :
            /\ Become(w, Return(u(b)))
            /\ UNCHANGED <<clock, magento, opened, rows, fromDate, queue, failed, left, overtaken>>
  <2>2. Fresh \ Products # {} => (CHOOSE b \in Fresh \ Products : TRUE) \in Bindings
    BY DEF Fresh
  <2> QED BY <1>1, <2>2 DEF ImportWrite
<1>5. queue \subseteq Jobs
  BY DEF SyncInv, SyncTypeOK
<1> HIDE DEF u
<1> QED BY <1>1, <1>3, <1>4, <1>5, RolledBack, GoesOn

-----------------------------------------------------------------------------
(* Exports                                                                 *)

LEMMA RowType ==
    ASSUME NEW row \in Rows, row # None
    PROVE  row.mid \in MagentoIds \cup {None} /\ row.version \in Nat
           /\ row.sync \in Times \cup {None}
BY DEF Rows, Filled

LEMMA ExportReadFine ==
    ASSUME SyncTypeOK, NEW t, Fine(t), t.stack # <<>>, t.job.kind = "export",
           Head(t.stack).step = "read"
    PROVE  Fine(ExportRead(t)) /\ ExportRead(t).locks = t.locks
           /\ ExportRead(t).rowLocks = t.rowLocks
<1> DEFINE f == Head(t.stack)
           row == t.view[f.of]
           gone == row.mid # None /\ ~Exists(row.mid)
           g == [f EXCEPT !.link = IF gone THEN None ELSE row.mid, !.step = "dependencies"]
           next == [t EXCEPT !.stack = <<g>> \o Tail(@)]
           u == [next EXCEPT !.delayed = @ \cup {ImportJob(row.mid, TRUE)}]
<1>1. /\ t \in Works /\ t.stack \in Seq(Frames) /\ 1 \in 1..Len(t.stack)
      /\ f = t.stack[1] /\ f \in Frames
  <2>1. t \in Works /\ t.stack \in Seq(Frames)
    BY DEF Fine, Works
  <2> QED BY <2>1, TopOfStack
<1>2. f.of \in Bindings /\ row # None /\ row \in Rows
  <2>1. ExportFrame(t, f, 1) /\ f.step = "read"
    BY <1>1 DEF Fine, WellStacked
  <2> QED BY <1>1, <2>1 DEF ExportFrame, Works
<1>3. row.mid \in MagentoIds \cup {None}
  BY <1>2, RowType
<1>4. /\ g \in Frames /\ g.of = f.of /\ g.step = "dependencies"
      /\ g.link \in MagentoIds \cup {None}
  <2>1. (IF gone THEN None ELSE row.mid) \in MagentoIds \cup {None}
    BY <1>3
  <2> HIDE DEF f, row, gone
  <2> QED BY <1>1, <2>1 DEF Frames
<1> HIDE DEF g
<1>5. /\ next \in Works /\ next.stack = <<g>> \o Tail(t.stack) /\ next.job = t.job
      /\ next.locks = t.locks /\ next.rowLocks = t.rowLocks /\ next.view = t.view
  BY <1>1, <1>4, ReplaceTop DEF Works
<1>6. Fine(next)
  <2> HIDE DEF next
  <2> QED BY <1>2, <1>4, <1>5, TopFine DEF ExportFrame
<1>7. \/ ExportRead(t) = next
      \/ row.mid # None /\ ExportRead(t) = u
  BY DEF ExportRead, ShouldImport, g
<1>8. CASE ExportRead(t) = next
  BY <1>5, <1>6, <1>8
<1>9. CASE row.mid # None /\ ExportRead(t) = u
  <2>1. ImportJob(row.mid, TRUE) \in Jobs
    BY <1>3, <1>9 DEF ImportJob, Jobs
  <2> HIDE DEF next, row
  <2>2. /\ u \in Works /\ u.stack = next.stack /\ u.job = next.job /\ u.view = next.view
        /\ u.locks = next.locks /\ u.rowLocks = next.rowLocks
    BY <1>5, <2>1 DEF Works
  <2> HIDE DEF u
  <2>3. Fine(u)
    BY <1>6, <2>2 DEF Fine, WellStacked, ImportFrame, ExportFrame
  <2> QED BY <1>5, <1>9, <2>2, <2>3
<1> QED BY <1>7, <1>8, <1>9

LEMMA BeginExportKeeps ==
    ASSUME SyncInv, NEW w \in Workers, NEW j \in queue, BeginExport(w, j) PROVE SyncInv'
<1>1. SyncTypeOK /\ j \in Jobs /\ queue \cup failed \subseteq Jobs
  BY DEF SyncInv, SyncTypeOK
<1>2. /\ j.kind = "export" /\ queue' = queue \ {j}
      /\ UNCHANGED <<clock, magento, opened, rows, fromDate, left, overtaken>>
  BY DEF BeginExport
<1>3. CASE rows[j.of] = None
  <2>1. failed' = failed \cup {j} /\ UNCHANGED work
    BY <1>3 DEF BeginExport
  <2> QED BY <1>1, <1>2, <2>1, OnlyWork DEF SyncInv, SyncTypeOK, Exclusive
<1>4. CASE rows[j.of] # None
  <2>1. Become(w, ExportRead(NewWork(j))) /\ UNCHANGED failed
    BY <1>4 DEF BeginExport
  <2>2. Fine(NewWork(j)) /\ Free(w, NewWork(j)) /\ NewWork(j).stack # <<>> /\ NewWork(j).job = j
    BY <1>1, <1>2, <1>4, NewWorkFine
  <2>3. Head(NewWork(j).stack).step = "read"
    BY DEF NewWork, Frame
  <2>4. Fine(ExportRead(NewWork(j))) /\ Free(w, ExportRead(NewWork(j)))
    BY <1>1, <1>2, <2>2, <2>3, ExportReadFine DEF Free
  <2> QED BY <1>1, <1>2, <2>1, <2>4, GoesOn
<1> QED BY <1>3, <1>4

LEMMA ExportDependencyKeeps ==
    ASSUME SyncInv, NEW w \in Workers, ExportDependency(w) PROVE SyncInv'
<1>1. SyncTypeOK /\ queue \subseteq Jobs
  BY DEF SyncInv, SyncTypeOK
<1>2. /\ Fine(work[w]) /\ Free(w, work[w]) /\ work[w].stack # <<>>
      /\ work[w].job.kind = "export" /\ Head(work[w].stack).step = "read"
  BY AtTop DEF ExportDependency, Top
<1>3. Fine(ExportRead(work[w])) /\ Free(w, ExportRead(work[w]))
  BY <1>1, <1>2, ExportReadFine DEF Free
<1> QED BY <1>1, <1>3, GoesOn DEF ExportDependency

\* The commit of an export.
LEMMA CommitKeeps ==
    ASSUME SyncInv, NEW w \in Workers, NEW t, Fine(t), t.job.kind = "export",
           \A i \in 1..Len(t.stack) : t.stack[i].step \notin {"read", "send", "bind"},
           Commit(w, t), UNCHANGED <<clock, magento, opened, fromDate, failed, left>>,
           overtaken' \subseteq MagentoIds
    PROVE  SyncInv'
<1> DEFINE u == [t EXCEPT !.snap = Committed(t), !.view = Committed(t), !.wrote = {},
                          !.locks = {}, !.rowLocks = {}, !.delayed = {}]
<1>1. SyncTypeOK /\ queue \cup failed \subseteq Jobs /\ t.delayed \subseteq Jobs
      /\ left \in [Perturbations -> Nat]
  BY DEF SyncInv, SyncTypeOK, Fine, Works
<1>2. Fine(u) /\ u.locks = {} /\ u.rowLocks = {} /\ Committed(t) \in [Bindings -> Rows]
  BY <1>1, CommitFine
<1>3. rows' = Committed(t) /\ queue' = queue \cup t.delayed /\ Become(w, u)
  BY DEF Commit
<1> HIDE DEF u
<1>4. Free(w, u)
  BY <1>2 DEF Free
<1>5. /\ work' \in [Workers -> Works \cup {None}]
      /\ \A v \in Workers : work'[v] # None => WellStacked(work'[v])
      /\ Exclusive'
  BY <1>2, <1>3, <1>4, WorkStep
<1> QED BY <1>1, <1>2, <1>3, <1>5, OnlyWork

\* The frames below the one on top were left at their lock.
LEMMA BelowTop ==
    ASSUME NEW t, Fine(t), t.job.kind = "export",
           NEW i \in 1..Len(t.stack), i # 1
    PROVE  t.stack[i].step \notin {"read", "send", "bind"}
BY DEF Fine, WellStacked, ExportFrame

LEMMA ExportDependenciesKeeps ==
    ASSUME SyncInv, NEW w \in Workers, ExportDependencies(w) PROVE SyncInv'
<1> DEFINE t == work[w]
           f == Top(w)
           needed == {p \in Parent[f.of] : t.view[p] # None}
           unbound == {p \in needed : t.view[p].mid = None}
           u(p) == [t EXCEPT !.view[p] = Row(None, 0, None), !.wrote = @ \cup {p}]
           g == Step(f, "lock")
           pushed(p) == [t EXCEPT !.stack = <<Frame(p), g>> \o Tail(@)]
<1>1. /\ t # None /\ Fine(t) /\ Free(w, t) /\ t \in Works /\ t.job.kind = "export"
      /\ t.stack # <<>> /\ t.stack \in Seq(Frames) /\ f \in Frames /\ f.of \in Bindings
      /\ f.step = "dependencies" /\ f = t.stack[1] /\ SyncTypeOK
      /\ f.link \in MagentoIds \cup {None}
  BY AtTop, TopOfStack DEF ExportDependencies, ExportFrame, Top, SyncInv
<1>2. Parent[f.of] \subseteq Bindings
  BY <1>1, SyncAssumption
<1>3. queue \subseteq Jobs /\ overtaken \subseteq MagentoIds
  BY <1>1 DEF SyncTypeOK
<1>4. \/ Retry(w)
      \/ \E p \in Parent[f.of] :
            /\ Commit(w, u(p))
            /\ UNCHANGED <<clock, magento, opened, fromDate, failed, left, overtaken>>
      \/ /\ Become(w, Goto(w, g)) \/ \E p \in unbound : Become(w, pushed(p))
         /\ UNCHANGED <<clock, magento, opened, rows, fromDate, queue, failed, left, overtaken>>
  BY DEF ExportDependencies
<1>5. CASE Retry(w)
  BY <1>1, <1>5, RolledBack
<1>6. ASSUME NEW p \in Parent[f.of], Commit(w, u(p)),
             UNCHANGED <<clock, magento, opened, fromDate, failed, left, overtaken>>
      PROVE  SyncInv'
  <2>2. Row(None, 0, None) \in Rows /\ p \in Bindings
    BY <1>2 DEF Row, Rows, Filled
  <2>3. /\ u(p) \in Works /\ u(p).stack = t.stack /\ u(p).job = t.job
        /\ u(p).locks = t.locks /\ u(p).rowLocks = t.rowLocks
    BY <1>1, <2>2 DEF Works
  <2>4. \A i \in 1..Len(t.stack) : t.stack[i].step \notin {"read", "send", "bind"}
    BY <1>1, BelowTop
  <2> HIDE DEF u
  <2>5. Fine(u(p))
    BY <1>1, <2>3, <2>4, SameStackFine
  <2> QED BY <1>1, <1>3, <1>6, <2>3, <2>4, <2>5, CommitKeeps
<1>7. g \in Frames /\ g.of = f.of /\ g.step = "lock" /\ g.link = f.link
  BY <1>1, StepType
<1> HIDE DEF g
<1>8. /\ Goto(w, g) \in Works /\ Goto(w, g).stack = <<g>> \o Tail(t.stack)
      /\ Goto(w, g).job = t.job /\ Goto(w, g).view = t.view
      /\ Goto(w, g).locks = t.locks /\ Goto(w, g).rowLocks = t.rowLocks
      /\ Goto(w, g).stack # <<>> /\ Head(Goto(w, g).stack) = g
  BY <1>1, <1>7, GotoType
<1>9. Fine(Goto(w, g)) /\ Free(w, Goto(w, g))
  BY <1>1, <1>7, <1>8, TopFine DEF ExportFrame, Free
<1>10. ASSUME NEW p \in unbound PROVE Fine(pushed(p)) /\ Free(w, pushed(p))
  <2>1. p \in Bindings /\ t.view[p] # None
    BY <1>2
  <2>2. Frame(p) \in Frames /\ Frame(p).of = p /\ Frame(p).step = "read"
        /\ Frame(p).link = None
    BY <2>1, FrameType
  <2>3. <<Frame(p), g>> \o Tail(t.stack) = <<Frame(p)>> \o (<<g>> \o Tail(t.stack))
    <3>1. Tail(t.stack) \in Seq(Frames)
      BY <1>1, TopOfStack
    <3> HIDE DEF t
    <3> QED BY <1>7, <2>2, <3>1, PushTwo
  <2>4. <<Frame(p)>> \o Goto(w, g).stack \in Seq(Frames)
    BY <1>8, <2>2, PushOnStack DEF Works
  <2>5. /\ pushed(p) \in Works /\ pushed(p).stack = <<Frame(p)>> \o Goto(w, g).stack
        /\ pushed(p).job = t.job /\ pushed(p).view = t.view
        /\ pushed(p).locks = t.locks /\ pushed(p).rowLocks = t.rowLocks
    BY <1>1, <1>8, <2>3, <2>4 DEF Works
  <2> HIDE DEF pushed, unbound
  <2>6. Fine(pushed(p))
    BY <1>1, <1>7, <1>8, <1>9, <2>1, <2>2, <2>5, PushFine
  <2> QED BY <1>1, <2>5, <2>6 DEF Free
<1> HIDE DEF pushed, unbound, u
<1> QED BY <1>3, <1>4, <1>5, <1>6, <1>9, <1>10, GoesOn

LEMMA ExportLockKeeps ==
    ASSUME SyncInv, NEW w \in Workers, ExportLock(w) PROVE SyncInv'
<1> DEFINE t == work[w]
           b == Top(w).of
           g == Step(Top(w), "send")
           u == [Goto(w, g) EXCEPT !.rowLocks = @ \cup {b}]
<1>1. /\ t # None /\ Fine(t) /\ Free(w, t) /\ t \in Works /\ t.job.kind = "export"
      /\ t.stack # <<>> /\ Top(w) \in Frames /\ b \in Bindings
      /\ Top(w).link \in MagentoIds \cup {None}
  BY AtTop DEF ExportLock, ExportFrame
<1>2. queue \subseteq Jobs
  BY DEF SyncInv, SyncTypeOK
<1>3. CASE b \in Held(w) \/ rows[b] # work[w].snap[b]
  BY <1>1, <1>3, RolledBack DEF ExportLock
<1>4. CASE ~(b \in Held(w) \/ rows[b] # work[w].snap[b])
  <2>1. /\ g \in Frames /\ g.of = b /\ g.step = "send"
        /\ g.link \in MagentoIds \cup {None}
    BY <1>1, StepType
  <2>2. /\ Become(w, u)
        /\ UNCHANGED <<clock, magento, opened, rows, fromDate, queue, failed, left, overtaken>>
    BY <1>4 DEF ExportLock
  <2>3. \A o \in Workers : o # w /\ work[o] # None => b \notin work[o].rowLocks
    BY <1>4 DEF Held, Others, Busy
  <2> HIDE DEF g, b
  <2>4. /\ Goto(w, g) \in Works /\ Goto(w, g).stack = <<g>> \o Tail(t.stack)
        /\ Goto(w, g).job = t.job
        /\ Goto(w, g).locks = t.locks /\ Goto(w, g).rowLocks = t.rowLocks
    BY <1>1, <2>1, GotoType
  <2>5. /\ u \in Works /\ u.stack = <<g>> \o Tail(t.stack) /\ u.job = t.job
        /\ u.locks = t.locks /\ u.rowLocks = t.rowLocks \cup {b}
    BY <1>1, <2>4 DEF Works
  <2> HIDE DEF u
  <2>6. Fine(u)
    BY <1>1, <2>1, <2>5, TopFine DEF ExportFrame
  <2>7. Free(w, u)
    BY <1>1, <2>3, <2>5 DEF Free
  <2> QED BY <1>2, <2>2, <2>6, <2>7, GoesOn
<1> QED BY <1>3, <1>4

\* The steps that only change Magento and the works.
LEMMA OnlyMagento ==
    ASSUME SyncInv, NEW m \in MagentoIds, NEW version \in Nat,
           magento' = [magento EXCEPT ![m] = [version |-> version, updated |-> clock]],
           UNCHANGED <<clock, opened, rows, fromDate, queue, failed, left, overtaken>>,
           work' \in [Workers -> Works \cup {None}],
           \A v \in Workers : work'[v] # None => WellStacked(work'[v]), Exclusive'
    PROVE  SyncInv'
<1>1. /\ clock \in Times
      /\ magento \in [MagentoIds -> {None, Gone} \cup [version : Nat, updated : Times]]
  BY DEF SyncInv, SyncTypeOK
<1>2. [version |-> version, updated |-> clock] \in [version : Nat, updated : Times]
  BY <1>1
<1>3. SyncTypeOK'
  BY <1>1, <1>2 DEF SyncInv, SyncTypeOK
<1>4. ASSUME NEW n \in MagentoIds, opened'[n] # None
      PROVE  magento'[n] \in [version : Nat, updated : Times]
  BY <1>1, <1>2, <1>4 DEF SyncInv
<1> QED BY <1>3, <1>4 DEF SyncInv

LEMMA ExportSendKeeps ==
    ASSUME SyncInv, NEW w \in Workers, ExportSend(w) PROVE SyncInv'
<1> DEFINE t == work[w]
           f == Top(w)
           g(m) == [f EXCEPT !.link = m, !.step = "bind"]
<1>1. /\ t # None /\ Fine(t) /\ Free(w, t) /\ t \in Works /\ t.job.kind = "export"
      /\ t.stack # <<>> /\ f \in Frames /\ f.of \in Bindings /\ f.of \in t.rowLocks
      /\ SyncTypeOK /\ f.link \in MagentoIds \cup {None}
  BY AtTop DEF ExportSend, ExportFrame, SyncInv
<1>2. \/ Fail(w)
      \/ \E m \in MagentoIds, version \in Nat :
            /\ magento' = [magento EXCEPT ![m] = [version |-> version, updated |-> clock]]
            /\ Become(w, Goto(w, g(m)))
            /\ UNCHANGED <<clock, opened, rows, fromDate, queue, failed, left, overtaken>>
      \/ /\ Become(w, Goto(w, Step(f, "bind")))
         /\ UNCHANGED <<clock, magento, opened, rows, fromDate, queue, failed, left, overtaken>>
  <2>1. Unused # {} => (CHOOSE m \in Unused : TRUE) \in MagentoIds
    BY DEF Unused
  <2>2. \A m \in MagentoIds : Exists(m) => magento[m].version \in Nat
    BY <1>1, Existing
  <2> QED BY <1>1, <2>1, <2>2 DEF ExportSend
<1>3. ASSUME NEW h \in Frames, h.of = f.of, h.step = "bind", h.link \in MagentoIds \cup {None}
      PROVE  Fine(Goto(w, h)) /\ Free(w, Goto(w, h))
  <2>1. /\ Goto(w, h) \in Works /\ Goto(w, h).stack = <<h>> \o Tail(t.stack)
        /\ Goto(w, h).job = t.job
        /\ Goto(w, h).locks = t.locks /\ Goto(w, h).rowLocks = t.rowLocks
    BY <1>1, GotoType
  <2> QED BY <1>1, <1>3, <2>1, TopFine DEF ExportFrame, Free
<1>4. CASE Fail(w)
  BY <1>1, <1>4, RolledBack
<1>5. ASSUME NEW m \in MagentoIds, NEW version \in Nat,
             magento' = [magento EXCEPT ![m] = [version |-> version, updated |-> clock]],
             Become(w, Goto(w, g(m))),
             UNCHANGED <<clock, opened, rows, fromDate, queue, failed, left, overtaken>>
      PROVE  SyncInv'
  <2>1. g(m) \in Frames /\ g(m).of = f.of /\ g(m).step = "bind" /\ g(m).link = m
    BY <1>1 DEF Frames
  <2> HIDE DEF g
  <2>2. Fine(Goto(w, g(m))) /\ Free(w, Goto(w, g(m)))
    BY <1>3, <2>1
  <2>3. /\ work' \in [Workers -> Works \cup {None}]
        /\ \A v \in Workers : work'[v] # None => WellStacked(work'[v])
        /\ Exclusive'
    BY <1>5, <2>2, WorkStep
  <2> QED BY <1>5, <2>3, OnlyMagento
<1>6. CASE /\ Become(w, Goto(w, Step(f, "bind")))
           /\ UNCHANGED <<clock, magento, opened, rows, fromDate, queue, failed, left, overtaken>>
  <2>1. /\ Step(f, "bind") \in Frames /\ Step(f, "bind").of = f.of
        /\ Step(f, "bind").step = "bind" /\ Step(f, "bind").link \in MagentoIds \cup {None}
    BY <1>1, StepType
  <2>2. queue \subseteq Jobs
    BY <1>1 DEF SyncTypeOK
  <2> QED BY <1>3, <1>6, <2>1, <2>2, GoesOn
<1> QED BY <1>2, <1>4, <1>5, <1>6

LEMMA ExportBindKeeps ==
    ASSUME SyncInv, NEW w \in Workers, ExportBind(w) PROVE SyncInv'
<1> DEFINE t == work[w]
           f == Top(w)
           before == t.view[f.of]
           version == IF before.mid = f.link THEN before.version ELSE 0
           row == Row(f.link, version, clock)
           u == [t EXCEPT !.view[f.of] = row, !.wrote = @ \cup {f.of}]
<1>1. /\ t # None /\ Fine(t) /\ Free(w, t) /\ t \in Works /\ t.job.kind = "export"
      /\ t.stack # <<>> /\ t.stack \in Seq(Frames) /\ f \in Frames /\ f.of \in Bindings
      /\ f = t.stack[1] /\ f.step = "bind" /\ SyncTypeOK
      /\ f.link \in MagentoIds \cup {None}
  BY AtTop, TopOfStack DEF ExportBind, ExportFrame, Top, SyncInv
<1>2. CASE Fail(w)
  BY <1>1, <1>2, RolledBack
<1>3. CASE ~Fail(w)
  <2>1. /\ before # None /\ f.link # None
        /\ \A o \in Others(w) : Bound(work[o].view, f.link) \cap work[o].wrote = {}
        /\ Bound(rows, f.link) \ {f.of} = {}
        /\ Commit(w, Return(u))
        /\ overtaken' \subseteq overtaken \cup {f.link}
        /\ UNCHANGED <<clock, magento, opened, fromDate, failed, left>>
    BY <1>3 DEF ExportBind
  <2>2. row \in Rows
    <3>1. clock \in Times /\ before \in Rows
      BY <1>1 DEF SyncTypeOK, Works
    <3>2. version \in Nat
      <4>1. before.version \in Nat
        BY <2>1, <3>1, RowType
      <4> QED BY <4>1
    <3> HIDE DEF version
    <3> QED BY <1>1, <3>1, <3>2 DEF Row, Rows, Filled
  <2> HIDE DEF row, before
  <2>3. /\ u \in Works /\ u.stack = t.stack /\ u.job = t.job
        /\ u.locks = t.locks /\ u.rowLocks = t.rowLocks
    BY <1>1, <2>2 DEF Works
  <2> HIDE DEF u
  <2>4. Fine(u)
    <3>1. \A i \in 1..Len(t.stack) : t.stack[i].step # "read"
      BY <1>1, BelowTop
    <3> QED BY <1>1, <2>3, <3>1, SameStackFine
  <2>5. Fine(Return(u)) /\ u.stack # <<>>
    BY <1>1, <2>3, <2>4, ReturnFine
  <2>6. Return(u).job.kind = "export"
    BY <1>1, <2>3, <2>4 DEF Return, Fine, Works
  <2>7. \A i \in 1..Len(Return(u).stack) :
           Return(u).stack[i].step \notin {"read", "send", "bind"}
    <3>1. Return(u).stack = Tail(t.stack)
      BY <2>3, <2>4 DEF Return, Fine, Works
    <3>2. /\ Len(t.stack) \in Nat /\ Len(Tail(t.stack)) = Len(t.stack) - 1
          /\ \A i \in 1..(Len(t.stack) - 1) : Tail(t.stack)[i] = t.stack[i + 1]
      BY <1>1, TopOfStack
    <3>3. ASSUME NEW i \in 1..(Len(t.stack) - 1)
          PROVE  t.stack[i + 1].step \notin {"read", "send", "bind"}
      <4>1. i + 1 \in 1..Len(t.stack) /\ i + 1 # 1
        BY <3>2
      <4> QED BY <1>1, <4>1, BelowTop
    <3> QED BY <3>1, <3>2, <3>3
  <2>8. overtaken' \subseteq MagentoIds
    BY <1>1, <2>1 DEF SyncTypeOK
  <2> QED BY <2>1, <2>5, <2>6, <2>7, <2>8, CommitKeeps
<1> QED BY <1>2, <1>3

-----------------------------------------------------------------------------
(* Ends of jobs, batches, listeners, Magento                               *)

LEMMA FinishKeeps ==
    ASSUME SyncInv, NEW w \in Workers, Finish(w) PROVE SyncInv'
<1>1. /\ work[w] \in Works /\ rows \in [Bindings -> Rows] /\ queue \cup failed \subseteq Jobs
      /\ left \in [Perturbations -> Nat]
  BY DEF Finish, SyncInv, SyncTypeOK
<1>2. /\ rows' \in [Bindings -> Rows] /\ queue' \cup failed' \subseteq Jobs
      /\ overtaken' \subseteq MagentoIds
  BY <1>1 DEF Finish, Committed, Works, SyncInv, SyncTypeOK
<1>3. /\ work' \in [Workers -> Works \cup {None}]
      /\ \A v \in Workers : work'[v] # None => WellStacked(work'[v])
      /\ Exclusive'
  BY WorkStep DEF Finish
<1> QED BY <1>1, <1>2, <1>3, OnlyWork DEF Finish

LEMMA CrashKeeps ==
    ASSUME SyncInv, NEW w \in Workers, Crash(w) PROVE SyncInv'
<1>1. work[w] \in Works /\ rows \in [Bindings -> Rows] /\ queue \cup failed \subseteq Jobs
  BY DEF Crash, SyncInv, SyncTypeOK
<1>2. /\ rows' \in [Bindings -> Rows] /\ queue' \cup failed' \subseteq Jobs
      /\ overtaken' \subseteq MagentoIds
  BY <1>1 DEF Crash, Works, SyncInv, SyncTypeOK
<1>3. left' \in [Perturbations -> Nat]
  BY SpendType DEF Crash, Perturbations
<1>4. /\ work' \in [Workers -> Works \cup {None}]
      /\ \A v \in Workers : work'[v] # None => WellStacked(work'[v])
      /\ Exclusive'
  BY WorkStep DEF Crash
<1> QED BY <1>2, <1>3, <1>4, OnlyWork DEF Crash

\* The steps of nobody's job leave the works alone.
LEMMA NoWork ==
    ASSUME SyncInv, UNCHANGED work, SyncTypeOK',
           \A m \in MagentoIds : opened'[m] # None =>
               magento'[m] \in [version : Nat, updated : Times]
    PROVE  SyncInv'
BY DEF SyncInv, Exclusive

LEMMA ImportFromDateKeeps ==
    ASSUME SyncInv, ImportFromDate PROVE SyncInv'
<1>1. left' \in [Perturbations -> Nat]
  BY SpendType DEF ImportFromDate, Perturbations
<1>2. fromDate' \in Int /\ BatchJob(fromDate, clock) \in Jobs
  BY SyncAssumption DEF ImportFromDate, SyncInv, SyncTypeOK, BatchJob, Jobs, Times
<1>3. SyncTypeOK'
  BY <1>1, <1>2 DEF ImportFromDate, SyncInv, SyncTypeOK
<1> QED BY <1>3, NoWork DEF ImportFromDate, SyncInv

LEMMA RunBatchKeeps ==
    ASSUME SyncInv, NEW j \in queue, RunBatch(j) PROVE SyncInv'
<1>1. \A m \in MagentoIds : ImportJob(m, FALSE) \in Jobs
  BY DEF ImportJob, Jobs
<1>2. SyncTypeOK'
  BY <1>1 DEF RunBatch, SyncInv, SyncTypeOK
<1> QED BY <1>2, NoWork DEF RunBatch, SyncInv

LEMMA DelayExportKeeps ==
    ASSUME SyncInv, NEW b \in Bindings, DelayExport(b) PROVE SyncInv'
<1>1. left' \in [Perturbations -> Nat]
  BY SpendType DEF DelayExport, Perturbations
<1>2. ExportJob(b) \in Jobs
  BY DEF ExportJob, Jobs
<1>3. SyncTypeOK'
  BY <1>1, <1>2 DEF DelayExport, SyncInv, SyncTypeOK
<1> QED BY <1>3, NoWork DEF DelayExport, SyncInv

LEMMA DelayUnlinkKeeps ==
    ASSUME SyncInv, NEW b \in Bindings, DelayUnlink(b) PROVE SyncInv'
<1>1. left' \in [Perturbations -> Nat]
  BY SpendType DEF DelayUnlink, Perturbations
<1>2. rows[b].mid # None => DeleteJob(rows[b].mid) \in Jobs
  <2>1. rows[b] \in Rows /\ rows[b] # None
    BY DEF DelayUnlink, SyncInv, SyncTypeOK
  <2> QED BY <2>1, RowType DEF DeleteJob, Jobs
<1>3. rows' \in [Bindings -> Rows] /\ queue' \subseteq Jobs
  BY <1>2 DEF DelayUnlink, SyncInv, SyncTypeOK, Rows, Filled
<1>4. SyncTypeOK'
  BY <1>1, <1>3 DEF DelayUnlink, SyncInv, SyncTypeOK
<1> QED BY <1>4, NoWork DEF DelayUnlink, SyncInv

LEMMA ExportDeleteKeeps ==
    ASSUME SyncInv, NEW j \in queue, ExportDelete(j) PROVE SyncInv'
<1>1. j \in Jobs /\ j.of \in MagentoIds
  BY JobType DEF ExportDelete, SyncInv, SyncTypeOK
<1>2. SyncTypeOK'
  BY <1>1 DEF ExportDelete, SyncInv, SyncTypeOK
<1>3. ASSUME NEW m \in MagentoIds, opened'[m] # None
      PROVE  magento'[m] \in [version : Nat, updated : Times]
  BY <1>1, <1>3 DEF ExportDelete, SyncInv, SyncTypeOK
<1> QED BY <1>2, <1>3, NoWork DEF ExportDelete

LEMMA MagentoKeeps ==
    ASSUME SyncInv, NEW m \in MagentoIds,
           MagentoBegin(m) \/ MagentoCommit(m) \/ MagentoRemove(m)
    PROVE  SyncInv'
<1>1. CASE MagentoBegin(m)
  <2>1. left' \in [Perturbations -> Nat]
    BY <1>1, SpendType DEF MagentoBegin, Perturbations
  <2>2. SyncTypeOK'
    BY <1>1, <2>1 DEF MagentoBegin, SyncInv, SyncTypeOK
  <2>3. ASSUME NEW n \in MagentoIds, opened'[n] # None
        PROVE  magento'[n] \in [version : Nat, updated : Times]
    BY <1>1, <2>3 DEF MagentoBegin, SyncInv, SyncTypeOK, Exists
  <2> QED BY <1>1, <2>2, <2>3, NoWork DEF MagentoBegin
<1>2. CASE MagentoCommit(m)
  <2>1. magento[m] \in [version : Nat, updated : Times] /\ opened[m] \in Times
    BY <1>2 DEF MagentoCommit, SyncInv, SyncTypeOK
  <2>2. /\ [version |-> magento[m].version + 1, updated |-> opened[m]]
              \in [version : Nat, updated : Times]
        /\ magento' = [magento EXCEPT ![m] =
                          [version |-> magento[m].version + 1, updated |-> opened[m]]]
        /\ opened' = [opened EXCEPT ![m] = None]
    BY <1>2, <2>1 DEF MagentoCommit
  <2>3. overtaken' \subseteq MagentoIds
    BY <1>2 DEF MagentoCommit, SyncInv, SyncTypeOK
  <2>4. SyncTypeOK'
    BY <1>2, <2>2, <2>3 DEF MagentoCommit, SyncInv, SyncTypeOK
  <2>5. ASSUME NEW n \in MagentoIds, opened'[n] # None
        PROVE  magento'[n] \in [version : Nat, updated : Times]
    BY <2>2, <2>5 DEF SyncInv, SyncTypeOK
  <2> QED BY <1>2, <2>4, <2>5, NoWork DEF MagentoCommit
<1>3. CASE MagentoRemove(m)
  <2>1. left' \in [Perturbations -> Nat]
    BY <1>3, SpendType DEF MagentoRemove, Perturbations
  <2>2. SyncTypeOK'
    BY <1>3, <2>1 DEF MagentoRemove, SyncInv, SyncTypeOK
  <2>3. ASSUME NEW n \in MagentoIds, opened'[n] # None
        PROVE  magento'[n] \in [version : Nat, updated : Times]
    BY <1>3, <2>3 DEF MagentoRemove, SyncInv, SyncTypeOK
  <2> QED BY <1>3, <2>2, <2>3, NoWork DEF MagentoRemove
<1> QED BY <1>1, <1>2, <1>3

LEMMA TickKeeps ==
    ASSUME SyncInv, Tick PROVE SyncInv'
<1>1. clock' \in Times
  BY SyncAssumption DEF Tick, SyncInv, SyncTypeOK, Times
<1>2. SyncTypeOK'
  BY <1>1 DEF Tick, SyncInv, SyncTypeOK
<1> QED BY <1>2, NoWork DEF Tick, SyncInv

-----------------------------------------------------------------------------
(* The theorems                                                            *)

LEMMA SyncInit == ASSUME Init PROVE SyncInv
<1>1. 0 \in Times /\ 1 \in Times
  BY SyncAssumption DEF Times
<1>2. magento \in [MagentoIds -> {None, Gone} \cup [version : Nat, updated : Times]]
  BY <1>1 DEF Init
<1>3. rows \in [Bindings -> Rows]
  <2>1. Row(None, 0, None) \in Rows
    BY DEF Row, Rows, Filled
  <2>2. \A b \in Bindings \ Products : Linked[b] # None => Row(Linked[b], 1, 0) \in Rows
    BY <1>1, SyncAssumption DEF Row, Rows, Filled
  <2>3. None \in Rows
    BY DEF Rows, Filled
  <2> QED BY <2>1, <2>2, <2>3 DEF Init
<1>4. queue \cup failed \subseteq Jobs
  BY SyncAssumption DEF Init, ExportJob, Jobs
<1>5. SyncTypeOK
  BY <1>1, <1>2, <1>3, <1>4, SyncAssumption DEF Init, SyncTypeOK
<1> QED BY <1>5 DEF Init, SyncInv, Exclusive

LEMMA SyncNext == ASSUME SyncInv, [Next]_vars PROVE SyncInv'
<1>1. ASSUME NEW w \in Workers, JobStep(w) \/ Crash(w) PROVE SyncInv'
  BY <1>1, BeginImportKeeps, BeginExportKeeps, ImportDependencyKeeps, ImportLockKeeps,
     ImportWriteKeeps, ExportDependencyKeeps, ExportDependenciesKeeps, ExportLockKeeps,
     ExportSendKeeps, ExportBindKeeps, FinishKeeps, CrashKeeps DEF JobStep
<1>2. CASE UNCHANGED vars
  BY <1>2 DEF vars, SyncInv, SyncTypeOK, Exclusive
<1> QED BY <1>1, <1>2, ImportFromDateKeeps, RunBatchKeeps, ExportDeleteKeeps, DelayExportKeeps,
           DelayUnlinkKeeps, MagentoKeeps, TickKeeps DEF Next

LEMMA SyncAlways == Spec => []SyncInv
<1>1. Init => SyncInv
  BY SyncInit
<1>2. SyncInv /\ [Next]_vars => SyncInv'
  BY SyncNext
<1> QED BY <1>1, <1>2, PTL DEF Spec

\* The jobs, their transactions and the records keep their types
\* (connector.py, import_synchronizer.py, export_synchronizer.py).
THEOREM SyncTypes == Spec => []SyncTypeOK
<1>1. SyncInv => SyncTypeOK
  BY DEF SyncInv
<1> QED BY <1>1, SyncAlways, PTL

\* Two jobs never create or update the same record at the same time: the
\* imports are kept apart by their advisory lock, the exports by the lock of
\* the row, which they do not give back before their commit
\* (export_synchronizer.py, _lock; import_synchronizer.py, run).
THEOREM OneJobAtRecords == Spec => []OneJobAtRecord
<1>1. ASSUME SyncInv PROVE OneJobAtRecord
  <2> SUFFICES ASSUME NEW w \in Workers, NEW o \in Workers, w # o,
                      work[w] # None, work[o] # None,
                      NEW i \in 1..Len(work[w].stack), NEW k \in 1..Len(work[o].stack),
                      {work[w].stack[i].step, work[o].stack[k].step}
                          \subseteq {"write", "send", "bind"}
               PROVE  work[w].stack[i].of # work[o].stack[k].of
    BY DEF OneJobAtRecord, Busy, Others
  <2>1. WellStacked(work[w]) /\ WellStacked(work[o])
    BY <1>1 DEF SyncInv
  <2>2. /\ work[w].locks \cap work[o].locks = {}
        /\ work[w].rowLocks \cap work[o].rowLocks = {}
    BY <1>1 DEF SyncInv, Exclusive
  <2>3. ASSUME NEW v \in Workers, WellStacked(work[v]), NEW n \in 1..Len(work[v].stack),
               work[v].stack[n].step \in {"write", "send", "bind"}
        PROVE  \/ work[v].stack[n].of \in MagentoIds \cap work[v].locks
               \/ work[v].stack[n].of \in Bindings \cap work[v].rowLocks
    BY <2>3 DEF WellStacked, ImportFrame, ExportFrame
  <2>4. /\ \/ work[w].stack[i].of \in MagentoIds \cap work[w].locks
           \/ work[w].stack[i].of \in Bindings \cap work[w].rowLocks
        /\ \/ work[o].stack[k].of \in MagentoIds \cap work[o].locks
           \/ work[o].stack[k].of \in Bindings \cap work[o].rowLocks
    BY <2>1, <2>3
  <2>5. MagentoIds \cap Bindings = {}
    BY SyncAssumption
  <2> QED BY <2>2, <2>4, <2>5
<1> QED BY <1>1, SyncAlways, PTL

-----------------------------------------------------------------------------
(* No change is lost: the inductive invariant                              *)

FramesOf(s) == {s[i] : i \in 1..Len(s)}

\* The row of a binding, and the one that an import is about to commit.
Images(b) == {rows[b]} \cup {work[w].view[b] : w \in {v \in Busy : b \in work[v].wrote}}

\* The content of a row is older than its record, and nothing excuses it.
Behind(m, r) ==
    /\ r # None /\ r.mid = m /\ Exists(m)
    /\ r.version < magento[m].version /\ m \notin overtaken

\* An import read the record, which the binding will follow when it commits.
Reads(t, m) == \E f \in FramesOf(t.stack) : f.of = m /\ f.step # "read"
Wrote(t, b, m, shop) ==
    b \in t.wrote /\ t.view[b].mid = m /\ t.view[b].version = shop[m].version
Carries(t, b, m, force, shop) ==
    t.job = ImportJob(m, force) /\ (Reads(t, m) \/ Wrote(t, b, m, shop))
Imports(b, m, force) == \E w \in Busy : Carries(work[w], b, m, force, magento)

\* An import to come, or failed, that does not skip the record; one that skips
\* it unless it was changed since the last synchronization.
Forced(b, m) ==
    \/ ImportJob(m, TRUE) \in queue \cup failed
    \/ ImportJob(m, FALSE) \in failed
    \/ Imports(b, m, TRUE)
Listed(b, m) ==
    \/ magento[m].updated >= fromDate
    \/ \E j \in queue : j.kind = "batch" /\ magento[m].updated \in j.from .. j.to
    \/ ImportJob(m, FALSE) \in queue
    \/ Imports(b, m, FALSE)

RowsTold ==
    \A b \in Bindings : \A r \in Images(b) : \A m \in MagentoIds :
        Behind(m, r) => \/ Forced(b, m)
                        \/ r.sync < magento[m].updated /\ Listed(b, m)

\* An export that will date the row with the end of its transaction.
Owes(r, m, jobs) == r.sync < magento[m].updated /\ ImportJob(m, TRUE) \in jobs
ExportTold(f, jobs) ==
    f.step # "read" /\ f.link # None =>
        \A r \in Images(f.of) :
            Behind(f.link, r) => Forced(f.of, f.link) \/ Owes(r, f.link, jobs)
ExportsTold ==
    \A w \in Busy : work[w].job.kind = "export" =>
        \A f \in FramesOf(work[w].stack) : ExportTold(f, work[w].delayed)

Dates ==
    /\ fromDate <= clock
    /\ \A m \in MagentoIds :
          /\ Exists(m) => magento[m].updated <= clock
          /\ opened[m] # None => /\ fromDate <= opened[m] /\ opened[m] <= clock
                                 /\ clock - opened[m] <= Buffer

Stamps ==
    \A b \in Bindings : \A r \in Images(b) :
        r # None /\ r.mid # None => r.sync # None /\ r.sync <= clock

OneBinding ==
    \A b, c \in Bindings : \A r \in Images(b), s \in Images(c) :
        r # None /\ s # None /\ r.mid # None /\ r.mid = s.mid => b = c

Apart ==
    \A w, o \in Workers : w # o /\ work[w] # None /\ work[o] # None =>
        work[w].wrote \cap (work[o].wrote \cup work[o].rowLocks) = {}

\* What a transaction wrote, read and locked, given the rows and the records.
Pending(t, rs) ==
    \A b \in t.wrote :
        /\ t.view[b] # None /\ t.view[b].mid # None
        /\ rs[b] # None => /\ rs[b].mid = t.view[b].mid
                           /\ rs[b].sync <= t.view[b].sync
Seen(t, rs) ==
    /\ t.job.kind = "import" =>
          t.rowLocks = {} /\ \A b \in Bindings \ t.wrote : t.view[b] = t.snap[b]
    /\ t.job.kind = "export" => t.wrote = {} /\ t.snap = t.view
    /\ \A b \in t.rowLocks :
          rs[b] = t.view[b] /\ \E f \in FramesOf(t.stack) : f.of = b
ImportSeen(t, f, shop, over) ==
    /\ f.link # None => t.view[f.link] # None /\ t.view[f.link].mid = f.of
    /\ f.step # "read" => \/ shop[f.of] = Gone \/ f.of \in over
                          \/ shop[f.of] # None /\ shop[f.of].version = f.version
ExportSeen(t, f, rs, shop, over) ==
    /\ f.step = "read" => f.link = None /\ t.view[f.of].mid = None
    /\ f.step # "read" /\ f.link # None =>
          \/ shop[f.link] \in {None, Gone} \/ rs[f.of] = None \/ rs[f.of].mid # None
          \/ shop[f.link].version = 0 \/ f.link \in over
Local(t, rs, shop, over) ==
    /\ Pending(t, rs) /\ Seen(t, rs)
    /\ \A f \in FramesOf(t.stack) :
          /\ t.job.kind = "import" => ImportSeen(t, f, shop, over)
          /\ t.job.kind = "export" => ExportSeen(t, f, rs, shop, over)
Locals == \A w \in Workers : work[w] # None => Local(work[w], rows, magento, overtaken)

Told == RowsTold /\ ExportsTold
Kept == Stamps /\ OneBinding /\ Apart /\ Locals
LostInv == SyncInv /\ Dates /\ Kept /\ Told

-----------------------------------------------------------------------------
(* Frames                                                                  *)

LEMMA FramesReplaced ==
    ASSUME NEW s \in Seq(Frames), s # <<>>, NEW f \in Frames
    PROVE  /\ FramesOf(<<f>> \o Tail(s)) \subseteq {f} \cup FramesOf(s)
           /\ f \in FramesOf(<<f>> \o Tail(s)) /\ Head(s) \in FramesOf(s)
           /\ \A g \in FramesOf(s) : g = Head(s) \/ g \in FramesOf(<<f>> \o Tail(s))
<1> DEFINE r == <<f>> \o Tail(s)
<1>1. /\ Len(s) \in Nat /\ Len(s) >= 1 /\ Head(s) = s[1] /\ Len(r) = Len(s)
      /\ r[1] = f /\ \A i \in 2..Len(s) : r[i] = s[i]
  BY TopOfStack, ReplaceTop
<1> HIDE DEF r
<1>2. FramesOf(r) \subseteq {f} \cup FramesOf(s)
  BY <1>1 DEF FramesOf
<1>3. f \in FramesOf(r) /\ Head(s) \in FramesOf(s)
  BY <1>1 DEF FramesOf
<1>4. \A g \in FramesOf(s) : g = Head(s) \/ g \in FramesOf(r)
  BY <1>1 DEF FramesOf
<1> QED BY <1>2, <1>3, <1>4 DEF r

LEMMA FramesReturned ==
    ASSUME NEW s \in Seq(Frames), s # <<>>
    PROVE  /\ FramesOf(Tail(s)) \subseteq FramesOf(s) /\ Head(s) \in FramesOf(s)
           /\ \A g \in FramesOf(s) : g = Head(s) \/ g \in FramesOf(Tail(s))
<1>1. /\ Len(s) \in Nat /\ Len(s) >= 1 /\ Head(s) = s[1] /\ Len(Tail(s)) = Len(s) - 1
      /\ \A i \in 1..(Len(s) - 1) : Tail(s)[i] = s[i + 1]
  BY TopOfStack
<1>2. FramesOf(Tail(s)) \subseteq FramesOf(s) /\ Head(s) \in FramesOf(s)
  BY <1>1 DEF FramesOf
<1>3. ASSUME NEW i \in 1..Len(s), i # 1 PROVE s[i] \in FramesOf(Tail(s))
  <2>1. i - 1 \in 1..(Len(s) - 1) /\ Tail(s)[i - 1] = s[(i - 1) + 1] /\ (i - 1) + 1 = i
    BY <1>1, <1>3
  <2> QED BY <1>1, <2>1 DEF FramesOf
<1> QED BY <1>1, <1>2, <1>3 DEF FramesOf

LEMMA FramesPushed ==
    ASSUME NEW s \in Seq(Frames), NEW f \in Frames
    PROVE  FramesOf(<<f>> \o s) = {f} \cup FramesOf(s)
<1> DEFINE r == <<f>> \o s
<1>1. /\ Len(s) \in Nat /\ Len(r) = Len(s) + 1 /\ r[1] = f
      /\ \A i \in 2..(Len(s) + 1) : r[i] = s[i - 1]
  BY PushOnStack
<1> HIDE DEF r
<1>2. FramesOf(r) \subseteq {f} \cup FramesOf(s) /\ f \in FramesOf(r)
  BY <1>1 DEF FramesOf
<1>3. ASSUME NEW i \in 1..Len(s) PROVE s[i] \in FramesOf(r)
  <2>1. i + 1 \in 1..Len(r) /\ r[i + 1] = s[(i + 1) - 1] /\ (i + 1) - 1 = i
    BY <1>1
  <2> QED BY <2>1 DEF FramesOf
<1> QED BY <1>2, <1>3 DEF FramesOf, r

\* What the frames of a work are.
LEMMA FramesFine ==
    ASSUME NEW t, Fine(t), NEW f \in FramesOf(t.stack)
    PROVE  /\ f \in Frames
           /\ t.job.kind = "import" => ImportFrame(t, f)
           /\ t.job.kind = "export" =>
                 /\ f.of \in Bindings /\ f.link \in MagentoIds \cup {None}
                 /\ f.step = "read" => t.view[f.of] # None
<1>1. PICK i \in 1..Len(t.stack) : f = t.stack[i]
  BY DEF FramesOf
<1>2. t.stack \in Seq(Frames)
  BY DEF Fine, Works
<1>3. f \in Frames
  BY <1>1, <1>2
<1> QED BY <1>1, <1>3 DEF Fine, WellStacked, ExportFrame

\* A record is what it was for the jobs at it: the same, gone, overtaken, dated
\* again, or new.
SameRecord(m, shop, shop2, over2) ==
    \/ m \in over2 \/ shop2[m] = Gone \/ shop2[m] = shop[m]
    \/ /\ shop[m] \notin {None, Gone} /\ shop2[m] \notin {None, Gone}
       /\ shop2[m].version = shop[m].version
    \/ shop[m] = None /\ shop2[m] \notin {None, Gone} /\ shop2[m].version = 0

\* The records that a work is at.
Deals(t, m) ==
    \E f \in FramesOf(t.stack) :
        f.step # "read" /\ m = IF t.job.kind = "import" THEN f.of ELSE f.link

\* What a work knows stays true when the others leave its rows alone.
LEMMA LocalStays ==
    ASSUME NEW t, Fine(t), NEW rs, NEW rs2, NEW shop, NEW shop2, NEW over, NEW over2,
           Local(t, rs, shop, over), over \subseteq over2,
           \A b \in t.wrote \cup t.rowLocks : rs2[b] = rs[b],
           \A f \in FramesOf(t.stack) :
               t.job.kind = "export" => rs2[f.of] \in {rs[f.of], None} \/ rs2[f.of].mid # None,
           \A m \in MagentoIds : Deals(t, m) => SameRecord(m, shop, shop2, over2)
    PROVE  Local(t, rs2, shop2, over2)
<1>1. Pending(t, rs2)
  BY DEF Pending, Local
<1>2. Seen(t, rs2)
  BY DEF Seen, Local
<1>3. None # Gone /\ None \notin MagentoIds
  BY SyncAssumption
<1>4. ASSUME NEW f \in FramesOf(t.stack), t.job.kind = "import"
      PROVE  ImportSeen(t, f, shop2, over2)
  <2>1. ImportSeen(t, f, shop, over) /\ f.of \in MagentoIds
    BY <1>4, FramesFine DEF Local, ImportFrame
  <2>2. f.step # "read" => SameRecord(f.of, shop, shop2, over2)
    <3>1. f.step # "read" => Deals(t, f.of)
      BY <1>4 DEF Deals
    <3> QED BY <2>1, <3>1
  <2> QED BY <1>3, <2>1, <2>2 DEF ImportSeen, SameRecord
<1>5. ASSUME NEW f \in FramesOf(t.stack), t.job.kind = "export"
      PROVE  ExportSeen(t, f, rs2, shop2, over2)
  <2>1. ExportSeen(t, f, rs, shop, over) /\ f.link \in MagentoIds \cup {None}
    BY <1>5, FramesFine DEF Local
  <2>2. f.step # "read" /\ f.link # None => SameRecord(f.link, shop, shop2, over2)
    <3>1. f.step # "read" => Deals(t, f.link)
      BY <1>5 DEF Deals
    <3> QED BY <2>1, <3>1
  <2>3. rs2[f.of] \in {rs[f.of], None} \/ rs2[f.of].mid # None
    BY <1>5
  <2> QED BY <1>3, <2>1, <2>2, <2>3 DEF ExportSeen, SameRecord
<1> QED BY <1>1, <1>2, <1>4, <1>5 DEF Local

-----------------------------------------------------------------------------
(* The imports to come                                                     *)

\* The row, and the import that is to come for it, are still there.
StillTold(b, r, m) ==
    /\ r \in Images(b) /\ Behind(m, r)
    /\ Forced(b, m) => Forced(b, m)'
    /\ r.sync < magento[m].updated =>
          /\ r.sync < magento'[m].updated
          /\ Listed(b, m) => Forced(b, m)' \/ Listed(b, m)'

Covered ==
    \A b \in Bindings : \A r \in Images(b)' : \A m \in MagentoIds :
        Behind(m, r)' => Forced(b, m)' \/ StillTold(b, r, m)

FrameKept(v, f) ==
    \E o \in Busy :
        /\ work[o].job.kind = "export" /\ work[o].delayed \subseteq work'[v].delayed \cup queue'
        /\ \E g \in FramesOf(work[o].stack) :
              g.of = f.of /\ g.link = f.link /\ g.step # "read"

ExportsCovered ==
    \A v \in Busy' : work'[v].job.kind = "export" =>
        \A f \in FramesOf(work'[v].stack) :
            f.step # "read" /\ f.link # None =>
                \/ FrameKept(v, f)
                \/ \A r \in Images(f.of)' :
                      Behind(f.link, r)' => \/ Forced(f.of, f.link)'
                                            \/ Owes(r, f.link, work[v].delayed)'

LEMMA ToldStep ==
    ASSUME SyncInv', Told, Covered, ExportsCovered
    PROVE  Told'
<1>1. RowsTold'
  <2> SUFFICES ASSUME NEW b \in Bindings, NEW r \in Images(b)', NEW m \in MagentoIds,
                      Behind(m, r)', ~Forced(b, m)'
               PROVE  r.sync < magento'[m].updated /\ Listed(b, m)'
    BY DEF RowsTold
  <2>1. StillTold(b, r, m)
    BY DEF Covered
  <2>2. Forced(b, m) \/ (r.sync < magento[m].updated /\ Listed(b, m))
    BY <2>1 DEF StillTold, Told, RowsTold
  <2> QED BY <2>1, <2>2 DEF StillTold
<1>2. ASSUME NEW v \in Busy', work'[v].job.kind = "export", NEW f \in FramesOf(work'[v].stack),
             f.step # "read", f.link # None,
             NEW r \in Images(f.of)', Behind(f.link, r)', ~Forced(f.of, f.link)'
      PROVE  Owes(r, f.link, work[v].delayed)'
  <2>1. f.of \in Bindings /\ f.link \in MagentoIds
    <3>1. v \in Workers /\ Fine(work'[v])
      BY <1>2 DEF SyncInv, SyncTypeOK, Fine, Busy
    <3> QED BY <1>2, <3>1, FramesFine
  <2>2. StillTold(f.of, r, f.link)
    BY <1>2, <2>1 DEF Covered
  <2>3. CASE FrameKept(v, f)
    <3>1. PICK o \in Busy :
             /\ work[o].job.kind = "export"
             /\ work[o].delayed \subseteq work'[v].delayed \cup queue'
             /\ \E g \in FramesOf(work[o].stack) :
                   g.of = f.of /\ g.link = f.link /\ g.step # "read"
      BY <2>3 DEF FrameKept
    <3>2. PICK g \in FramesOf(work[o].stack) :
             g.of = f.of /\ g.link = f.link /\ g.step # "read"
      BY <3>1
    <3>3. ExportTold(g, work[o].delayed)
      BY <3>1 DEF Told, ExportsTold
    <3>4. Forced(f.of, f.link) \/ Owes(r, f.link, work[o].delayed)
      BY <1>2, <2>2, <3>2, <3>3 DEF ExportTold, StillTold
    <3>5. r.sync < magento'[f.link].updated /\ ImportJob(f.link, TRUE) \in work[o].delayed
      BY <1>2, <2>2, <3>4 DEF StillTold, Owes
    <3>6. ImportJob(f.link, TRUE) \notin queue'
      BY <1>2 DEF Forced
    <3> QED BY <3>1, <3>5, <3>6 DEF Owes
  <2>4. CASE ~FrameKept(v, f)
    BY <1>2, <2>4 DEF ExportsCovered
  <2> QED BY <2>3, <2>4
<1>3. ExportsTold'
  BY <1>2 DEF ExportsTold, ExportTold
<1> QED BY <1>1, <1>3 DEF Told

\* Only the work of w changes, and the import that it carried is still known.
OneWork(w, t) ==
    /\ Become(w, t) /\ UNCHANGED <<magento, fromDate>> /\ failed \subseteq failed'
    /\ \A j \in queue : j.kind = "batch" => j \in queue'
Known(w, t, b, m, force) ==
    \/ ImportJob(m, force) \in queue' \cup failed'
    \/ t # None /\ Carries(t, b, m, force, magento)
GoesOnFor(w, t, b, m, force) ==
    /\ ImportJob(m, force) \in queue => Known(w, t, b, m, force)
    /\ work[w] # None /\ Carries(work[w], b, m, force, magento) => Known(w, t, b, m, force)

LEMMA KnownStays ==
    ASSUME SyncInv, NEW w \in Workers, NEW t, OneWork(w, t), NEW b, NEW m, NEW force,
           GoesOnFor(w, t, b, m, force)
    PROVE  ImportJob(m, force) \in queue \/ Imports(b, m, force) =>
              ImportJob(m, force) \in queue' \cup failed' \/ Imports(b, m, force)'
<1>1. work'[w] = t /\ \A v \in Workers : v # w => work'[v] = work[v]
  BY DEF OneWork, Become, SyncInv, SyncTypeOK
<1>2. Known(w, t, b, m, force) =>
         ImportJob(m, force) \in queue' \cup failed' \/ Imports(b, m, force)'
  <2>1. ASSUME t # None, Carries(t, b, m, force, magento) PROVE Imports(b, m, force)'
    <3>1. w \in Busy' /\ Carries(work'[w], b, m, force, magento')
      BY <1>1, <2>1 DEF OneWork, Busy
    <3> QED BY <3>1 DEF Imports
  <2> QED BY <2>1 DEF Known
<1>3. ASSUME NEW v \in Busy, v # w, Carries(work[v], b, m, force, magento)
      PROVE  Imports(b, m, force)'
  <2>1. v \in Busy' /\ Carries(work'[v], b, m, force, magento')
    BY <1>1, <1>3 DEF OneWork, Busy
  <2> QED BY <2>1 DEF Imports
<1> QED BY <1>2, <1>3 DEF GoesOnFor, Imports, Busy

LEMMA ForcedStays ==
    ASSUME SyncInv, NEW w \in Workers, NEW t, OneWork(w, t), NEW b, NEW m,
           GoesOnFor(w, t, b, m, TRUE), Forced(b, m)
    PROVE  Forced(b, m)'
<1>1. ImportJob(m, TRUE) \in queue \/ Imports(b, m, TRUE) =>
         ImportJob(m, TRUE) \in queue' \cup failed' \/ Imports(b, m, TRUE)'
  BY KnownStays
<1> QED BY <1>1 DEF Forced, OneWork

LEMMA ListedStays ==
    ASSUME SyncInv, NEW w \in Workers, NEW t, OneWork(w, t), NEW b, NEW m,
           GoesOnFor(w, t, b, m, FALSE), Listed(b, m)
    PROVE  Forced(b, m)' \/ Listed(b, m)'
<1>1. ImportJob(m, FALSE) \in queue \/ Imports(b, m, FALSE) =>
         ImportJob(m, FALSE) \in queue' \cup failed' \/ Imports(b, m, FALSE)'
  BY KnownStays
<1> QED BY <1>1 DEF Forced, Listed, OneWork

-----------------------------------------------------------------------------
(* The steps of a job that do not commit                                   *)

\* A row that an import writes: nobody else's, and as new as its record.
NewImage(b, r) ==
    /\ r # None /\ r.mid # None /\ r.sync = clock
    /\ \A m \in MagentoIds : ~Behind(m, r)
    /\ \A c \in Bindings : \A s \in Images(c) : s # None /\ s.mid = r.mid => c = b

\* The work t of w may have written the row of x.
GoodWork(w, t, x) ==
    /\ Local(t, rows, magento, overtaken)
    /\ \A b \in t.wrote : t.view[b] \in Images(b) \/ (b = x /\ NewImage(b, t.view[b]))
    /\ \A o \in Workers : o # w /\ work[o] # None =>
          /\ t.wrote \cap (work[o].wrote \cup work[o].rowLocks) = {}
          /\ t.rowLocks \cap work[o].wrote = {}

ImportsKept(w, t) ==
    \A b \in Bindings : \A r \in Images(b) : \A m \in MagentoIds :
        Behind(m, r) => /\ GoesOnFor(w, t, b, m, TRUE)
                        /\ r.sync < magento[m].updated => GoesOnFor(w, t, b, m, FALSE)

ExportsKept(w, t) ==
    t.job.kind = "export" =>
        \A f \in FramesOf(t.stack) :
            f.step # "read" /\ f.link # None =>
                \/ FrameKept(w, f)
                \/ \A r \in Images(f.of) :
                      Behind(f.link, r) => Forced(f.of, f.link) \/ Owes(r, f.link, t.delayed)

LEMMA WorkGoes ==
    ASSUME LostInv, SyncInv', NEW w \in Workers, NEW t, OneWork(w, t),
           UNCHANGED <<clock, opened, rows, overtaken>>,
           NEW x, t # None => GoodWork(w, t, x) /\ ExportsKept(w, t), ImportsKept(w, t)
    PROVE  LostInv'
<1>1. work'[w] = t /\ \A v \in Workers : v # w => work'[v] = work[v]
  BY DEF OneWork, Become, LostInv, SyncInv, SyncTypeOK
<1>2. UNCHANGED <<clock, magento, opened, rows, fromDate, overtaken>>
  BY DEF OneWork
<1>3. SyncInv /\ Dates /\ Kept /\ Told /\ Stamps /\ OneBinding /\ Apart /\ Locals
  BY DEF LostInv, Kept
<1>4. ASSUME NEW b \in Bindings, NEW r \in Images(b)'
      PROVE  r \in Images(b) \/ (b = x /\ r = t.view[b] /\ NewImage(b, r))
  <2>1. \/ r = rows[b]
        \/ \E v \in Workers : /\ work'[v] # None /\ b \in work'[v].wrote
                              /\ r = work'[v].view[b]
    BY <1>2 DEF Images, Busy
  <2>2. CASE r = rows[b]
    BY <2>2 DEF Images
  <2>3. ASSUME NEW v \in Workers, work'[v] # None, b \in work'[v].wrote, r = work'[v].view[b]
        PROVE  r \in Images(b) \/ (b = x /\ r = t.view[b] /\ NewImage(b, r))
    <3>1. CASE v = w
      BY <1>1, <2>3, <3>1 DEF GoodWork
    <3>2. CASE v # w
      BY <1>1, <2>3, <3>2 DEF Images, Busy
    <3> QED BY <3>1, <3>2
  <2> QED BY <2>1, <2>2, <2>3
<1>5. \A m, r : Behind(m, r)' = Behind(m, r)
  BY <1>2 DEF Behind, Exists
<1>6. Dates'
  BY <1>2, <1>3 DEF Dates, Exists
<1>7. Stamps'
  <2>1. clock \in Int /\ None \notin Times /\ clock \in Times
    BY <1>3, SyncAssumption DEF SyncInv, SyncTypeOK, Times
  <2>2. ASSUME NEW b \in Bindings, NEW r \in Images(b)', r # None, r.mid # None
        PROVE  r.sync # None /\ r.sync <= clock'
    BY <1>2, <1>3, <1>4, <2>1, <2>2 DEF Stamps, NewImage
  <2> QED BY <2>2 DEF Stamps
<1>8. OneBinding'
  <2> SUFFICES ASSUME NEW b \in Bindings, NEW c \in Bindings,
                      NEW r \in Images(b)', NEW s \in Images(c)',
                      r # None, s # None, r.mid # None, r.mid = s.mid
               PROVE  b = c
    BY DEF OneBinding
  <2>1. CASE r \in Images(b) /\ s \in Images(c)
    BY <1>3, <2>1 DEF OneBinding
  <2>2. CASE s \notin Images(c)
    BY <1>4, <2>2 DEF NewImage
  <2>3. CASE r \notin Images(b)
    BY <1>4, <2>3 DEF NewImage
  <2> QED BY <2>1, <2>2, <2>3
<1>9. Apart'
  <2> SUFFICES ASSUME NEW v \in Workers, NEW o \in Workers, v # o,
                      work'[v] # None, work'[o] # None
               PROVE  work'[v].wrote \cap (work'[o].wrote \cup work'[o].rowLocks) = {}
    BY DEF Apart
  <2>1. CASE v # w /\ o # w
    BY <1>1, <1>3, <2>1 DEF Apart
  <2>2. CASE v = w
    BY <1>1, <2>2 DEF GoodWork
  <2>3. CASE o = w
    BY <1>1, <2>3 DEF GoodWork
  <2> QED BY <2>1, <2>2, <2>3
<1>10. Locals'
  <2> SUFFICES ASSUME NEW v \in Workers, work'[v] # None
               PROVE  Local(work'[v], rows, magento, overtaken)
    BY <1>2 DEF Locals
  <2>1. CASE v = w
    BY <1>1, <2>1 DEF GoodWork
  <2>2. CASE v # w
    BY <1>1, <1>3, <2>2 DEF Locals
  <2> QED BY <2>1, <2>2
<1>11. ASSUME NEW b \in Bindings, NEW r \in Images(b), NEW m \in MagentoIds, Behind(m, r)
       PROVE  StillTold(b, r, m)
  <2>1. GoesOnFor(w, t, b, m, TRUE)
    BY <1>11 DEF ImportsKept
  <2>2. Forced(b, m) => Forced(b, m)'
    BY <1>3, <2>1, ForcedStays
  <2>3. ASSUME r.sync < magento[m].updated, Listed(b, m) PROVE Forced(b, m)' \/ Listed(b, m)'
    <3>1. GoesOnFor(w, t, b, m, FALSE)
      BY <1>11, <2>3 DEF ImportsKept
    <3> QED BY <1>3, <2>3, <3>1, ListedStays
  <2> QED BY <1>2, <1>11, <2>2, <2>3 DEF StillTold
<1>12. Covered
  <2> SUFFICES ASSUME NEW b \in Bindings, NEW r \in Images(b)', NEW m \in MagentoIds, Behind(m, r)
               PROVE  StillTold(b, r, m)
    BY <1>5 DEF Covered
  <2>1. r \in Images(b)
    BY <1>4 DEF NewImage
  <2> QED BY <1>11, <2>1
<1>13. ASSUME NEW v \in Workers, work'[v] # None, work'[v].job.kind = "export",
              NEW f \in FramesOf(work'[v].stack), f.step # "read", f.link # None
       PROVE  \/ FrameKept(v, f)
              \/ \A r \in Images(f.of)' :
                    Behind(f.link, r)' => \/ Forced(f.of, f.link)'
                                          \/ Owes(r, f.link, work[v].delayed)'
  <2>1. CASE v # w
    <3>1. work'[v] = work[v] /\ v \in Busy
      BY <1>1, <1>13, <2>1 DEF Busy
    <3> QED BY <1>13, <3>1 DEF FrameKept
  <2>2. CASE v = w
    <3>1. FrameKept(w, f) \/ \A r \in Images(f.of) :
              Behind(f.link, r) => Forced(f.of, f.link) \/ Owes(r, f.link, t.delayed)
      BY <1>1, <1>13, <2>2 DEF ExportsKept
    <3>2. f.of \in Bindings /\ f.link \in MagentoIds
      <4>1. Fine(work'[v])
        BY <1>13 DEF SyncInv, SyncTypeOK, Fine
      <4> QED BY <1>13, <4>1, FramesFine
    <3>3. ASSUME NEW r \in Images(f.of)', Behind(f.link, r)',
                 Forced(f.of, f.link) \/ Owes(r, f.link, t.delayed)
          PROVE  Forced(f.of, f.link)' \/ Owes(r, f.link, work[v].delayed)'
      <4>1. r \in Images(f.of) /\ Behind(f.link, r)
        BY <1>4, <1>5, <3>2, <3>3 DEF NewImage
      <4>2. Forced(f.of, f.link) => Forced(f.of, f.link)'
        BY <1>11, <3>2, <4>1 DEF StillTold
      <4>3. Owes(r, f.link, t.delayed) => Owes(r, f.link, work[v].delayed)'
        BY <1>1, <1>2, <2>2 DEF Owes
      <4> QED BY <3>3, <4>2, <4>3
    <3>4. ASSUME NEW r \in Images(f.of)', Behind(f.link, r)'
          PROVE  r \in Images(f.of) /\ Behind(f.link, r)
      BY <1>4, <1>5, <3>2, <3>4 DEF NewImage
    <3> QED BY <2>2, <3>1, <3>3, <3>4
  <2> QED BY <2>1, <2>2
<1>14. ExportsCovered
  BY <1>13 DEF ExportsCovered, Busy
<1>15. Told'
  BY <1>3, <1>12, <1>14, ToldStep
<1> QED BY <1>6, <1>7, <1>8, <1>9, <1>10, <1>15 DEF LostInv, Kept

\* A job that is rolled back comes back to the queue, or failed.
LEMMA RollsBack ==
    ASSUME LostInv, SyncInv', NEW w \in Workers, work[w] # None, Become(w, None),
           queue \subseteq queue', failed \subseteq failed', work[w].job \in queue' \cup failed',
           UNCHANGED <<clock, magento, opened, rows, fromDate, overtaken>>
    PROVE  LostInv'
<1>1. OneWork(w, None) /\ UNCHANGED <<clock, opened, rows, overtaken>>
  BY DEF OneWork
<1>2. ImportsKept(w, None)
  BY DEF ImportsKept, GoesOnFor, Known, Carries
<1> QED BY <1>1, <1>2, WorkGoes

\* An export that goes on, or begins.
LEMMA ExportGoes ==
    ASSUME LostInv, SyncInv', NEW w \in Workers, NEW t, Become(w, t),
           work[w] # None => work[w].job.kind = "export",
           failed \subseteq failed', \A j \in queue : j.kind # "export" => j \in queue',
           UNCHANGED <<clock, magento, opened, rows, fromDate, overtaken>>,
           t # None => GoodWork(w, t, None) /\ ExportsKept(w, t)
    PROVE  LostInv'
<1>1. \A m, force : ImportJob(m, force).kind = "import"
  BY DEF ImportJob
<1>2. OneWork(w, t) /\ UNCHANGED <<clock, opened, rows, overtaken>>
  BY DEF OneWork
<1>3. \A b, m, force : ~(work[w] # None /\ Carries(work[w], b, m, force, magento))
  BY <1>1 DEF Carries
<1>4. ImportsKept(w, t)
  BY <1>1, <1>3 DEF ImportsKept, GoesOnFor, Known
<1> QED BY <1>2, <1>4, WorkGoes

\* An import that goes on.
LEMMA ImportGoes ==
    ASSUME LostInv, SyncInv', NEW w \in Workers, work[w] # None, NEW t, t # None, Become(w, t),
           t.job = work[w].job, t.job.kind = "import",
           UNCHANGED <<clock, magento, opened, rows, fromDate, queue, failed, overtaken>>,
           NEW x, GoodWork(w, t, x),
           \A b \in Bindings : \A r \in Images(b) : \A m \in MagentoIds :
               Behind(m, r) /\ (Reads(work[w], m) \/ Wrote(work[w], b, m, magento))
                   => Reads(t, m) \/ Wrote(t, b, m, magento)
    PROVE  LostInv'
<1>1. OneWork(w, t) /\ UNCHANGED <<clock, opened, rows, overtaken>>
  BY DEF OneWork
<1>2. ImportsKept(w, t)
  BY DEF ImportsKept, GoesOnFor, Known, Carries
<1>3. ExportsKept(w, t)
  BY DEF ExportsKept
<1> QED BY <1>1, <1>2, <1>3, WorkGoes

-----------------------------------------------------------------------------
(* Imports                                                                 *)

LEMMA ToOpenerpBound ==
    ASSUME NEW view, NEW m
    PROVE  LET b == ToOpenerp(view, m)
           IN /\ b # None => b \in Bindings /\ view[b] # None /\ view[b].mid = m
              /\ b = None => Bound(view, m) = {}
<1>1. CASE Bound(view, m) = {}
  BY <1>1 DEF ToOpenerp
<1>2. CASE Bound(view, m) # {}
  <2>1. (CHOOSE b \in Bound(view, m) : TRUE) \in Bound(view, m)
    BY <1>2
  <2>2. ToOpenerp(view, m) \in Bound(view, m)
    BY <1>2, <2>1 DEF ToOpenerp
  <2> QED BY <2>2, SyncAssumption DEF Bound
<1> QED BY <1>1, <1>2

\* The importer read the record and its binding, or has nothing to do.
ImportReadOf(t, u) ==
    LET f == Head(t.stack)
        b == ToOpenerp(t.view, f.of)
    IN /\ u.job = t.job /\ u.wrote = t.wrote /\ u.view = t.view /\ u.snap = t.snap
       /\ u.rowLocks = t.rowLocks
       /\ \A g \in FramesOf(t.stack) : g = f \/ g \in FramesOf(u.stack)
       /\ \/ /\ FramesOf(u.stack) \subseteq FramesOf(t.stack)
             /\ \/ ~Exists(f.of)
                \/ /\ b # None /\ IsUpToDate(f.of, t.view[b])
                   /\ ~(t.job.force /\ Len(t.stack) = 1)
          \/ \E g \in FramesOf(u.stack) :
                /\ FramesOf(u.stack) \subseteq {g} \cup FramesOf(t.stack) /\ Exists(f.of)
                /\ g.of = f.of /\ g.link = b /\ g.version = magento[f.of].version
                /\ g.step = "lock"

LEMMA ImportReads ==
    ASSUME SyncTypeOK, NEW t, Fine(t), t.stack # <<>>, t.job.kind = "import"
    PROVE  ImportReadOf(t, ImportRead(t))
<1> DEFINE m == Head(t.stack).of
           b == ToOpenerp(t.view, m)
           skip == \/ ~Exists(m)
                   \/ b # None /\ ~(t.job.force /\ Len(t.stack) = 1) /\ IsUpToDate(m, t.view[b])
           f == [of |-> m, link |-> b, version |-> magento[m].version, step |-> "lock"]
           u == [t EXCEPT !.stack = <<f>> \o Tail(@)]
<1>1. t \in Works /\ t.stack \in Seq(Frames) /\ 1 \in 1..Len(t.stack) /\ Head(t.stack) = t.stack[1]
  <2>1. t \in Works /\ t.stack \in Seq(Frames)
    BY DEF Fine, Works
  <2> QED BY <2>1, TopOfStack
<1>2. m \in MagentoIds
  BY <1>1 DEF Fine, WellStacked, ImportFrame
<1>3. ImportRead(t) = IF skip THEN Return(t) ELSE u
  BY DEF ImportRead
<1>4. CASE skip
  <2>1. ImportRead(t) = Return(t)
    BY <1>3, <1>4
  <2>2. /\ Return(t).job = t.job /\ Return(t).wrote = t.wrote /\ Return(t).view = t.view
        /\ Return(t).snap = t.snap /\ Return(t).rowLocks = t.rowLocks
        /\ Return(t).stack = Tail(t.stack)
    BY <1>1 DEF Return, Works
  <2>3. /\ FramesOf(Tail(t.stack)) \subseteq FramesOf(t.stack)
        /\ \A g \in FramesOf(t.stack) : g = Head(t.stack) \/ g \in FramesOf(Tail(t.stack))
    BY <1>1, FramesReturned
  <2> HIDE DEF u
  <2> QED BY <1>4, <2>1, <2>2, <2>3 DEF ImportReadOf
<1>5. CASE ~skip
  <2>1. ImportRead(t) = u /\ Exists(m)
    BY <1>3, <1>5
  <2>2. f \in Frames /\ f.of = m /\ f.link = b /\ f.version = magento[m].version /\ f.step = "lock"
    BY <1>2, <2>1, Existing, ToOpenerpType DEF Frames
  <2> HIDE DEF f
  <2>3. /\ u.job = t.job /\ u.wrote = t.wrote /\ u.view = t.view
        /\ u.snap = t.snap /\ u.rowLocks = t.rowLocks /\ u.stack = <<f>> \o Tail(t.stack)
    BY <1>1 DEF Works
  <2>4. /\ FramesOf(<<f>> \o Tail(t.stack)) \subseteq {f} \cup FramesOf(t.stack)
        /\ f \in FramesOf(<<f>> \o Tail(t.stack))
        /\ \A g \in FramesOf(t.stack) : g = Head(t.stack) \/ g \in FramesOf(<<f>> \o Tail(t.stack))
    BY <1>1, <2>2, FramesReplaced
  <2> HIDE DEF u
  <2> QED BY <2>1, <2>2, <2>3, <2>4 DEF ImportReadOf
<1> QED BY <1>4, <1>5

LEMMA ImportReadLocal ==
    ASSUME NEW t, NEW u, t.job.kind = "import", Local(t, rows, magento, overtaken),
           ImportReadOf(t, u)
    PROVE  Local(u, rows, magento, overtaken)
<1>1. Pending(u, rows)
  BY DEF Local, Pending, ImportReadOf
<1>2. Seen(u, rows)
  BY DEF Local, Seen, ImportReadOf
<1>3. ASSUME NEW f \in FramesOf(u.stack) PROVE ImportSeen(u, f, magento, overtaken)
  <2>1. CASE f \in FramesOf(t.stack)
    BY <2>1 DEF Local, ImportSeen, ImportReadOf
  <2>2. CASE f \notin FramesOf(t.stack)
    <3>1. /\ Exists(f.of) /\ f.link = ToOpenerp(t.view, f.of) /\ f.step = "lock"
          /\ f.version = magento[f.of].version /\ u.view = t.view
      BY <1>3, <2>2 DEF ImportReadOf
    <3>2. f.link # None => t.view[f.link] # None /\ t.view[f.link].mid = f.of
      BY <3>1, ToOpenerpBound
    <3> QED BY <3>1, <3>2 DEF ImportSeen, Exists
  <2> QED BY <2>1, <2>2
<1>4. u.job.kind = "import"
  BY DEF ImportReadOf
<1> QED BY <1>1, <1>2, <1>3, <1>4 DEF Local

\* An import that the change of a record is due to does not skip it.
LEMMA NotUpToDate ==
    ASSUME LostInv, NEW b \in Bindings, NEW r \in Images(b), NEW m \in MagentoIds,
           Behind(m, r), r.sync < magento[m].updated,
           NEW c \in Bindings, rows[c] # None, rows[c].mid = m
    PROVE  ~IsUpToDate(m, rows[c])
<1>1. m # None /\ r # None /\ r.mid = m /\ Exists(m)
  BY SyncAssumption DEF Behind
<1>2. rows[c] \in Images(c)
  BY DEF Images
<1>3. b = c /\ rows[c].sync # None /\ r.sync # None
  BY <1>1, <1>2 DEF LostInv, Kept, OneBinding, Stamps
<1>4. magento[m].updated \in Int /\ rows[c].sync \in Int /\ r.sync \in Int
  <2>1. rows[c] \in Rows /\ magento[m].updated \in Times
    BY <1>1, Existing DEF LostInv, SyncInv, SyncTypeOK
  <2>2. r \in Rows
    BY <1>1 DEF Images, LostInv, SyncInv, SyncTypeOK, Busy, Works
  <2> QED BY <1>1, <1>3, <2>1, <2>2, RowType DEF Times
<1>5. r = rows[c] \/ rows[c].sync <= r.sync
  <2>1. ASSUME NEW w \in Busy, b \in work[w].wrote, r = work[w].view[b]
        PROVE  rows[c].sync <= r.sync
    <3>1. Pending(work[w], rows)
      BY DEF LostInv, Kept, Locals, Local, Busy
    <3> QED BY <1>3, <2>1, <3>1 DEF Pending
  <2> QED BY <1>3, <2>1 DEF Images
<1> QED BY <1>4, <1>5 DEF IsUpToDate

LEMMA NewWorkFields ==
    ASSUME NEW j
    PROVE  LET t == NewWork(j)
           IN /\ t.job = j /\ t.stack = <<Frame(j.of)>> /\ t.snap = rows /\ t.view = rows
              /\ t.wrote = {} /\ t.rowLocks = {} /\ t.delayed = {}
              /\ Len(t.stack) = 1 /\ Head(t.stack) = Frame(j.of)
              /\ FramesOf(t.stack) = {Frame(j.of)}
BY DEF NewWork, FramesOf

LEMMA BeginImportLost ==
    ASSUME LostInv, NEW w \in Workers, NEW j \in queue, BeginImport(w, j) PROVE LostInv'
<1> DEFINE t == NewWork(j)
           u == ImportRead(NewWork(j))
<1>1. SyncInv /\ SyncTypeOK /\ j \in Jobs /\ SyncInv'
  BY BeginImportKeeps DEF LostInv, SyncInv, SyncTypeOK
<1>2. /\ work[w] = None /\ j.kind = "import" /\ queue' = queue \ {j} /\ Become(w, u)
      /\ UNCHANGED <<clock, magento, opened, rows, fromDate, failed, left, overtaken>>
  BY DEF BeginImport
<1>3. /\ Fine(t) /\ t.stack # <<>> /\ t.job = j
  BY <1>1, <1>2, NewWorkFine
<1>4. /\ t.stack = <<Frame(j.of)>> /\ t.snap = rows /\ t.view = rows
      /\ t.wrote = {} /\ t.rowLocks = {} /\ Len(t.stack) = 1 /\ Head(t.stack) = Frame(j.of)
      /\ FramesOf(t.stack) = {Frame(j.of)}
  BY NewWorkFields
<1>5. Frame(j.of).of = j.of /\ Frame(j.of).step = "read" /\ Frame(j.of).link = None
  BY DEF Frame
<1> HIDE DEF t
<1>6. ImportReadOf(t, u)
  BY <1>1, <1>2, <1>3, ImportReads DEF t
<1>7. Local(t, rows, magento, overtaken)
  BY <1>2, <1>3, <1>4, <1>5 DEF Local, Pending, Seen, ImportSeen
<1> HIDE DEF u
<1>8. Local(u, rows, magento, overtaken)
  BY <1>2, <1>3, <1>6, <1>7, ImportReadLocal
<1>9. u.job = j /\ u.wrote = {} /\ u.rowLocks = {}
  BY <1>3, <1>4, <1>6 DEF ImportReadOf
<1>10. GoodWork(w, u, None) /\ ExportsKept(w, u)
  BY <1>2, <1>8, <1>9 DEF GoodWork, ExportsKept
<1>11. OneWork(w, u) /\ UNCHANGED <<clock, opened, rows, overtaken>>
  BY <1>2 DEF OneWork
<1>12. ASSUME NEW b \in Bindings, NEW r \in Images(b), NEW m \in MagentoIds, Behind(m, r),
              NEW force, j = ImportJob(m, force), force \/ r.sync < magento[m].updated
       PROVE  u # None /\ Carries(u, b, m, force, magento)
  <2>1. j.of = m /\ j.force = force /\ Exists(m)
    BY <1>12 DEF ImportJob, Behind
  <2>2. ~(/\ ToOpenerp(t.view, m) # None /\ IsUpToDate(m, t.view[ToOpenerp(t.view, m)])
          /\ ~(t.job.force /\ Len(t.stack) = 1))
    <3>1. CASE force
      BY <1>3, <1>4, <2>1, <3>1
    <3>2. CASE r.sync < magento[m].updated
      BY <1>4, <1>12, <3>2, ToOpenerpBound, NotUpToDate
    <3> QED BY <1>12, <3>1, <3>2
  <2>3. \E g \in FramesOf(u.stack) : g.of = m /\ g.step = "lock"
    BY <1>4, <1>5, <1>6, <2>1, <2>2 DEF ImportReadOf
  <2>4. Reads(u, m)
    BY <2>3 DEF Reads
  <2>5. u # None
    <3>1. Fine(u)
      BY <1>1, <1>2, <1>3, ImportReadFine DEF t, u
    <3> QED BY <3>1, SyncAssumption DEF Fine
  <2> QED BY <1>9, <1>12, <2>4, <2>5 DEF Carries
<1>13. ImportsKept(w, u)
  <2> SUFFICES ASSUME NEW b \in Bindings, NEW r \in Images(b), NEW m \in MagentoIds, Behind(m, r),
                      NEW force \in BOOLEAN, force \/ r.sync < magento[m].updated
               PROVE  GoesOnFor(w, u, b, m, force)
    BY DEF ImportsKept
  <2>1. CASE j = ImportJob(m, force)
    BY <1>2, <1>12, <2>1 DEF GoesOnFor, Known
  <2>2. CASE j # ImportJob(m, force)
    BY <1>2, <2>2 DEF GoesOnFor, Known
  <2> QED BY <2>1, <2>2
<1> QED BY <1>1, <1>10, <1>11, <1>13, WorkGoes

\* What the invariant says of the work of a worker at a step.
LEMMA AtLocal ==
    ASSUME LostInv, NEW w \in Workers, NEW kind, NEW step, At(w, kind, step)
    PROVE  /\ SyncInv /\ SyncTypeOK /\ Local(work[w], rows, magento, overtaken)
           /\ Top(w) \in FramesOf(work[w].stack) /\ Top(w) = Head(work[w].stack)
           /\ Top(w).step = step
           /\ \A o \in Workers : o # w /\ work[o] # None =>
                 /\ work[w].wrote \cap (work[o].wrote \cup work[o].rowLocks) = {}
                 /\ work[w].rowLocks \cap work[o].wrote = {}
<1>1. SyncInv /\ work[w] # None
  BY DEF LostInv, At
<1>2. work[w].stack # <<>> /\ work[w].stack \in Seq(Frames)
  BY <1>1, AtTop
<1>3. Top(w) \in FramesOf(work[w].stack)
  BY <1>2, FramesReturned DEF Top
<1> QED BY <1>1, <1>3 DEF LostInv, Kept, Locals, Apart, Top, At, SyncInv

LEMMA ImportDependencyLost ==
    ASSUME LostInv, NEW w \in Workers, ImportDependency(w) PROVE LostInv'
<1> DEFINE t == work[w]
           u == ImportRead(work[w])
<1>1. SyncInv' /\ SyncInv /\ SyncTypeOK
  BY ImportDependencyKeeps DEF LostInv, SyncInv
<1>2. /\ At(w, "import", "read") /\ Become(w, u)
      /\ UNCHANGED <<clock, magento, opened, rows, fromDate, queue, failed, left, overtaken>>
  BY DEF ImportDependency
<1>3. t # None /\ Fine(t) /\ t.stack # <<>> /\ t.job.kind = "import"
  BY <1>1, <1>2, AtTop
<1>4. ImportReadOf(t, u)
  BY <1>1, <1>3, ImportReads
<1>5. Local(t, rows, magento, overtaken) /\ Head(t.stack).step = "read"
  BY <1>2, AtLocal
<1>6. u # None
  BY <1>1, <1>3, ImportReadFine, SyncAssumption DEF Fine
<1>7. \A o \in Workers : o # w /\ work[o] # None =>
         /\ t.wrote \cap (work[o].wrote \cup work[o].rowLocks) = {}
         /\ t.rowLocks \cap work[o].wrote = {}
  BY <1>2, AtLocal
<1> HIDE DEF u
<1>8. Local(u, rows, magento, overtaken)
  BY <1>3, <1>4, <1>5, ImportReadLocal
<1>9. u.job = t.job /\ u.wrote = t.wrote /\ u.view = t.view /\ u.rowLocks = t.rowLocks
  BY <1>4 DEF ImportReadOf
<1>10. \A b \in t.wrote : t.view[b] \in Images(b)
  BY <1>3 DEF Images, Busy
<1>11. GoodWork(w, u, None)
  BY <1>7, <1>8, <1>9, <1>10 DEF GoodWork
<1>12. ASSUME NEW b, NEW m, Reads(t, m) \/ Wrote(t, b, m, magento)
       PROVE  Reads(u, m) \/ Wrote(u, b, m, magento)
  BY <1>4, <1>5, <1>9, <1>12 DEF Reads, Wrote, ImportReadOf
<1> QED BY <1>1, <1>2, <1>3, <1>6, <1>9, <1>11, <1>12, ImportGoes

LEMMA RollsBackJob ==
    ASSUME LostInv, NEW w \in Workers, work[w] # None, Retry(w) \/ Fail(w) PROVE LostInv'
<1>1. SyncInv'
  BY RolledBack DEF LostInv
<1> QED BY <1>1, RollsBack DEF Retry, Fail

\* An import that only moves its frames.
LEMMA ImportMoves ==
    ASSUME LostInv, SyncInv', NEW w \in Workers, work[w] # None, NEW u, Fine(u), Become(w, u),
           UNCHANGED <<clock, magento, opened, rows, fromDate, queue, failed, overtaken>>,
           work[w].job.kind = "import", u.job = work[w].job, u.wrote = work[w].wrote,
           u.view = work[w].view, u.snap = work[w].snap, u.rowLocks = work[w].rowLocks,
           \A g \in FramesOf(u.stack) :
               g \in FramesOf(work[w].stack) \/ ImportSeen(work[w], g, magento, overtaken),
           \A m : Reads(work[w], m) => Reads(u, m)
    PROVE  LostInv'
<1>1. Local(work[w], rows, magento, overtaken)
  BY DEF LostInv, Kept, Locals
<1>2. Local(u, rows, magento, overtaken)
  <2>1. Pending(u, rows)
    BY <1>1 DEF Local, Pending
  <2>2. Seen(u, rows)
    BY <1>1 DEF Local, Seen
  <2>3. ASSUME NEW g \in FramesOf(u.stack) PROVE ImportSeen(u, g, magento, overtaken)
    BY <1>1 DEF Local, ImportSeen
  <2> QED BY <2>1, <2>2, <2>3 DEF Local
<1>3. \A b \in work[w].wrote : work[w].view[b] \in Images(b)
  BY DEF Images, Busy
<1>4. \A o \in Workers : o # w /\ work[o] # None =>
         /\ work[w].wrote \cap (work[o].wrote \cup work[o].rowLocks) = {}
         /\ work[w].rowLocks \cap work[o].wrote = {}
  BY DEF LostInv, Kept, Apart
<1>5. GoodWork(w, u, None) /\ u # None
  BY <1>2, <1>3, <1>4, SyncAssumption DEF GoodWork, Fine
<1> QED BY <1>5, ImportGoes DEF Wrote

\* The work that a worker has after a step is well formed.
LEMMA WorkBecame ==
    ASSUME SyncInv, SyncInv', NEW w \in Workers, NEW u, u # None, Become(w, u) PROVE Fine(u)
<1>1. work'[w] = u
  BY DEF Become, SyncInv, SyncTypeOK
<1> QED BY <1>1 DEF SyncInv, SyncTypeOK, Fine

LEMMA ImportLockLost ==
    ASSUME LostInv, NEW w \in Workers, ImportLock(w) PROVE LostInv'
<1> DEFINE t == work[w]
           m == Top(w).of
           f == Step(Top(w), "write")
           locked == [Goto(w, f) EXCEPT !.locks = @ \cup {m}]
           c == Frame(Category[m])
           pushed == [locked EXCEPT !.stack = <<c>> \o @]
<1>1. SyncInv' /\ SyncInv /\ At(w, "import", "lock")
  BY ImportLockKeeps DEF LostInv, ImportLock
<1>2. /\ t # None /\ Fine(t) /\ t \in Works /\ t.job.kind = "import" /\ t.stack # <<>>
      /\ t.stack \in Seq(Frames) /\ Top(w) \in Frames /\ m \in MagentoIds
  BY <1>1, AtTop DEF ImportFrame
<1>3. CASE \E o \in Others(w) : m \in work[o].locks
  BY <1>2, <1>3, RollsBackJob DEF ImportLock
<1>4. CASE ~\E o \in Others(w) : m \in work[o].locks
  <2>1. /\ Become(w, IF Missing(w, m) THEN pushed ELSE locked)
        /\ UNCHANGED <<clock, magento, opened, rows, fromDate, queue, failed, left, overtaken>>
    BY <1>4 DEF ImportLock
  <2>2. /\ f \in Frames /\ f.of = m /\ f.step = "write" /\ f.link = Top(w).link
        /\ f.version = Top(w).version
    BY <1>2 DEF Step, Frames
  <2>3. ImportSeen(t, Top(w), magento, overtaken) /\ Top(w).step = "lock"
    BY <1>1, <1>2, AtLocal DEF Local
  <2>4. ImportSeen(t, f, magento, overtaken)
    BY <2>2, <2>3 DEF ImportSeen
  <2> HIDE DEF f
  <2>5. /\ locked \in Works /\ locked.stack = <<f>> \o Tail(t.stack) /\ locked.job = t.job
        /\ locked.wrote = t.wrote /\ locked.view = t.view /\ locked.snap = t.snap
        /\ locked.rowLocks = t.rowLocks /\ locked.stack \in Seq(Frames)
    <3>1. <<f>> \o Tail(t.stack) \in Seq(Frames)
      BY <1>2, <2>2, ReplaceTop
    <3> QED BY <1>2, <3>1 DEF Goto, Works
  <2>6. /\ FramesOf(locked.stack) \subseteq {f} \cup FramesOf(t.stack)
        /\ f \in FramesOf(locked.stack)
        /\ \A g \in FramesOf(t.stack) : g = Top(w) \/ g \in FramesOf(locked.stack)
    BY <1>2, <2>2, <2>5, FramesReplaced DEF Top
  <2> HIDE DEF locked
  <2>7. CASE Missing(w, m)
    <3>1. Category[m] \in MagentoIds
      BY <1>2, <2>7, SyncAssumption DEF Missing
    <3>2. c \in Frames /\ c.of = Category[m] /\ c.step = "read" /\ c.link = None
      BY <3>1, FrameType
    <3> HIDE DEF c
    <3>3. /\ FramesOf(<<c>> \o locked.stack) = {c} \cup FramesOf(locked.stack)
          /\ <<c>> \o locked.stack \in Seq(Frames)
      BY <2>5, <3>2, FramesPushed, PushOnStack
    <3>4. /\ pushed \in Works /\ pushed.stack = <<c>> \o locked.stack /\ pushed.job = locked.job
          /\ pushed.wrote = locked.wrote /\ pushed.view = locked.view /\ pushed.snap = locked.snap
          /\ pushed.rowLocks = locked.rowLocks
      BY <2>5, <3>3 DEF Works
    <3>5. ImportSeen(t, c, magento, overtaken)
      BY <3>2 DEF ImportSeen
    <3>6. Become(w, pushed)
      BY <2>1, <2>7
    <3> HIDE DEF pushed
    <3>7. Fine(pushed)
      BY <1>1, <3>4, <3>6, WorkBecame, SyncAssumption
    <3>8. \A n : Reads(t, n) => Reads(pushed, n)
      BY <2>2, <2>6, <3>3, <3>4 DEF Reads
    <3> QED BY <1>1, <1>2, <2>1, <2>4, <2>5, <2>6, <3>3, <3>4, <3>5, <3>6, <3>7, <3>8, ImportMoves
  <2>8. CASE ~Missing(w, m)
    <3>1. Become(w, locked)
      BY <2>1, <2>8
    <3>2. Fine(locked)
      BY <1>1, <2>5, <3>1, WorkBecame, SyncAssumption
    <3>3. \A n : Reads(t, n) => Reads(locked, n)
      BY <2>2, <2>6 DEF Reads
    <3> QED BY <1>1, <1>2, <2>1, <2>4, <2>5, <2>6, <3>1, <3>2, <3>3, ImportMoves
  <2> QED BY <2>7, <2>8
<1> QED BY <1>3, <1>4

\* The binding that an import writes is the only one of its record: its own, or
\* a new one.
Writes(w, b) ==
    LET f == Top(w)
    IN \/ /\ b = f.link /\ b \notin Held(w) /\ rows[b] = work[w].snap[b]
       \/ /\ f.link = None /\ b \in Fresh
          /\ Bound(Committed(work[w]), f.of) = {}
          /\ \A o \in Others(w) : Bound(work[o].view, f.of) \cap work[o].wrote = {}

LEMMA WritesAlone ==
    ASSUME LostInv, NEW w \in Workers, At(w, "import", "write"), NEW b \in Bindings, Writes(w, b),
           NEW c \in Bindings, NEW s \in Images(c), s # None, s.mid = Top(w).of
    PROVE  c = b
<1> DEFINE t == work[w]
           f == Top(w)
<1>1. /\ SyncInv /\ Local(t, rows, magento, overtaken) /\ f \in FramesOf(t.stack)
  BY AtLocal
<1>2. t # None /\ t.job.kind = "import" /\ t \in Works /\ f.of \in MagentoIds
  BY <1>1, AtTop DEF ImportFrame
<1>3. f.of # None
  BY <1>2, SyncAssumption
<1>4. Pending(t, rows) /\ Seen(t, rows) /\ ImportSeen(t, f, magento, overtaken)
  BY <1>1, <1>2 DEF Local
<1>5. CASE b = f.link /\ b \notin Held(w) /\ rows[b] = t.snap[b]
  <2>1. t.view[b] # None /\ t.view[b].mid = f.of
    BY <1>4, <1>5, SyncAssumption DEF ImportSeen
  <2>2. t.view[b] \in Images(b)
    <3>1. CASE b \in t.wrote
      BY <1>2, <3>1 DEF Images, Busy
    <3>2. CASE b \notin t.wrote
      <4>1. t.view[b] = rows[b]
        BY <1>2, <1>4, <1>5, <3>2 DEF Seen
      <4> QED BY <4>1 DEF Images
    <3> QED BY <3>1, <3>2
  <2> QED BY <1>3, <2>1, <2>2 DEF LostInv, Kept, OneBinding
<1>6. CASE /\ f.link = None /\ Bound(Committed(t), f.of) = {}
           /\ \A o \in Others(w) : Bound(work[o].view, f.of) \cap work[o].wrote = {}
  <2>1. Committed(t)[c] = IF c \in t.wrote THEN t.view[c] ELSE rows[c]
    BY DEF Committed
  <2>2. ~(Committed(t)[c] # None /\ Committed(t)[c].mid = f.of)
    BY <1>6 DEF Bound
  <2>3. CASE s = rows[c]
    BY <1>4, <2>1, <2>2, <2>3 DEF Pending
  <2>4. ASSUME NEW o \in Busy, c \in work[o].wrote, s = work[o].view[c] PROVE FALSE
    <3>1. CASE o = w
      BY <2>1, <2>2, <2>4, <3>1
    <3>2. CASE o # w
      BY <1>6, <2>4, <3>2 DEF Others, Bound
    <3> QED BY <3>1, <3>2
  <2> QED BY <2>3, <2>4 DEF Images
<1> QED BY <1>5, <1>6 DEF Writes

LEMMA ImportWrites ==
    ASSUME LostInv, SyncInv', NEW w \in Workers, At(w, "import", "write"),
           NEW b \in Bindings, Writes(w, b),
           Become(w, Return([work[w] EXCEPT !.view[b] = Row(Top(w).of, Top(w).version, clock),
                                            !.wrote = @ \cup {b}])),
           UNCHANGED <<clock, magento, opened, rows, fromDate, queue, failed, left, overtaken>>
    PROVE  LostInv'
<1> DEFINE t == work[w]
           f == Top(w)
           row == Row(f.of, f.version, clock)
           u == [t EXCEPT !.view[b] = row, !.wrote = @ \cup {b}]
           v == Return(u)
<1>1. /\ SyncInv /\ SyncTypeOK /\ Local(t, rows, magento, overtaken)
      /\ f \in FramesOf(t.stack) /\ f = Head(t.stack) /\ f.step = "write"
      /\ \A o \in Workers : o # w /\ work[o] # None =>
            t.wrote \cap (work[o].wrote \cup work[o].rowLocks) = {}
  BY AtLocal
<1>2. /\ t # None /\ t.job.kind = "import" /\ t \in Works /\ Fine(t) /\ f \in Frames
      /\ f.of \in MagentoIds /\ t.stack # <<>> /\ t.stack \in Seq(Frames)
  BY <1>1, AtTop DEF ImportFrame
<1>3. f.of # None /\ clock \in Times
  BY <1>1, <1>2, SyncAssumption DEF SyncTypeOK
<1>4. Pending(t, rows) /\ Seen(t, rows) /\ ImportSeen(t, f, magento, overtaken)
  BY <1>1, <1>2 DEF Local
<1>5. /\ row \in Rows /\ row # None /\ row.mid = f.of /\ row.version = f.version
      /\ row.sync = clock
  BY <1>2, <1>3, SyncAssumption DEF Row, Rows, Filled, Frames
<1> HIDE DEF row
<1>6. /\ v \in Works /\ v.job = t.job /\ v.snap = t.snap /\ v.rowLocks = t.rowLocks
      /\ v.wrote = t.wrote \cup {b} /\ v.stack = Tail(t.stack)
      /\ v.view[b] = row /\ \A c \in Bindings : c # b => v.view[c] = t.view[c]
  <2>1. Tail(t.stack) \in Seq(Frames)
    BY <1>2, TopOfStack
  <2> QED BY <1>2, <1>5, <2>1 DEF Return, Works
<1>7. /\ FramesOf(v.stack) \subseteq FramesOf(t.stack)
      /\ \A g \in FramesOf(t.stack) : g = f \/ g \in FramesOf(v.stack)
  BY <1>1, <1>2, <1>6, FramesReturned
<1>8. Become(w, v)
  BY DEF row
<1> HIDE DEF v, u
<1>9. \A c \in Bindings : \A s \in Images(c) : s # None /\ s.mid = f.of => c = b
  BY WritesAlone
<1>10. ASSUME NEW m \in MagentoIds, m = f.of, Exists(m), m \notin overtaken
       PROVE  f.version = magento[m].version /\ magento[m].version \in Nat
  BY <1>1, <1>4, <1>10, Existing DEF ImportSeen, Exists
<1>11. NewImage(b, row)
  <2>1. ASSUME NEW m \in MagentoIds, Behind(m, row) PROVE FALSE
    <3>1. m = f.of /\ Exists(m) /\ m \notin overtaken /\ f.version < magento[m].version
      BY <1>5, <2>1 DEF Behind
    <3> QED BY <1>10, <3>1
  <2> QED BY <1>3, <1>5, <1>9, <2>1 DEF NewImage
<1>12. /\ b = f.link => t.view[b] # None /\ t.view[b].mid = f.of
       /\ b = f.link \/ (b \in Fresh /\ t.view[b] = None /\ rows[b] = None)
  <2>1. b = f.link => t.view[b] # None /\ t.view[b].mid = f.of
    BY <1>4, SyncAssumption DEF ImportSeen
  <2>2. b \in Fresh => t.view[b] = None /\ rows[b] = None
    BY <1>2 DEF Fresh, Busy
  <2> QED BY <2>1, <2>2 DEF Writes
<1>13. Pending(v, rows)
  <2>1. ASSUME rows[b] # None PROVE rows[b].mid = f.of /\ rows[b].sync <= clock
    <3>1. b = f.link /\ rows[b] = t.snap[b]
      BY <1>12, <2>1 DEF Writes, Fresh
    <3>2. rows[b].mid = f.of
      <4>1. CASE b \in t.wrote
        BY <1>4, <1>12, <2>1, <3>1, <4>1 DEF Pending
      <4>2. CASE b \notin t.wrote
        BY <1>2, <1>4, <1>12, <3>1, <4>2 DEF Seen
      <4> QED BY <4>1, <4>2
    <3>3. rows[b] \in Images(b)
      BY DEF Images
    <3> QED BY <1>3, <2>1, <3>2, <3>3 DEF LostInv, Kept, Stamps
  <2>2. \A c \in t.wrote : c \in Bindings
    BY <1>2 DEF Works
  <2> QED BY <1>3, <1>4, <1>5, <1>6, <2>1, <2>2 DEF Pending
<1>14. Seen(v, rows)
  BY <1>2, <1>4, <1>6 DEF Seen
<1>15. ASSUME NEW g \in FramesOf(v.stack) PROVE ImportSeen(v, g, magento, overtaken)
  <2>1. ImportSeen(t, g, magento, overtaken)
    BY <1>1, <1>2, <1>7 DEF Local
  <2>2. g.link \in Bindings \cup {None}
    BY <1>2, <1>7, FramesFine DEF ImportFrame
  <2>3. g.link # None => v.view[g.link] # None /\ v.view[g.link].mid = g.of
    BY <1>5, <1>6, <1>12, <2>1, <2>2 DEF ImportSeen
  <2> QED BY <2>1, <2>3 DEF ImportSeen
<1>16. Local(v, rows, magento, overtaken)
  BY <1>2, <1>6, <1>13, <1>14, <1>15 DEF Local
<1>17. ASSUME NEW o \in Workers, o # w, work[o] # None
       PROVE  b \notin work[o].wrote \cup work[o].rowLocks
  <2>1. CASE b = f.link /\ b \notin Held(w)
    BY <1>17, <2>1 DEF Held, Others, Busy
  <2>2. CASE b \in Fresh
    <3>1. /\ work[o].view[b] = None
          /\ \A i \in 1..Len(work[o].stack) : work[o].stack[i].of # b
      BY <1>17, <2>2 DEF Fresh, Busy
    <3>2. Pending(work[o], rows) /\ Seen(work[o], rows)
      BY <1>17 DEF LostInv, Kept, Locals, Local
    <3>3. \A g \in FramesOf(work[o].stack) : g.of # b
      BY <3>1 DEF FramesOf
    <3> QED BY <3>1, <3>2, <3>3 DEF Pending, Seen
  <2> QED BY <2>1, <2>2 DEF Writes
<1>18. GoodWork(w, v, b)
  <2>1. ASSUME NEW c \in v.wrote
        PROVE  v.view[c] \in Images(c) \/ (c = b /\ NewImage(c, v.view[c]))
    <3>1. CASE c = b
      BY <1>6, <1>11, <3>1
    <3>2. CASE c # b
      <4>1. c \in t.wrote /\ c \in Bindings
        BY <1>2, <1>6, <3>2 DEF Works
      <4> QED BY <1>2, <1>6, <3>2, <4>1 DEF Images, Busy
    <3> QED BY <3>1, <3>2
  <2>2. v.rowLocks = {}
    BY <1>2, <1>4, <1>6 DEF Seen
  <2> QED BY <1>1, <1>6, <1>16, <1>17, <2>1, <2>2 DEF GoodWork
<1>19. ASSUME NEW c \in Bindings, NEW r \in Images(c), NEW m \in MagentoIds, Behind(m, r),
              Reads(t, m) \/ Wrote(t, c, m, magento)
       PROVE  Reads(v, m) \/ Wrote(v, c, m, magento)
  <2>1. r # None /\ r.mid = m /\ Exists(m) /\ m \notin overtaken
    BY <1>19 DEF Behind
  <2>2. CASE Reads(t, m)
    <3>1. PICK g \in FramesOf(t.stack) : g.of = m /\ g.step # "read"
      BY <2>2 DEF Reads
    <3>2. CASE g = f
      <4>1. c = b /\ f.version = magento[m].version
        BY <1>9, <1>10, <2>1, <3>1, <3>2
      <4> QED BY <1>5, <1>6, <3>1, <3>2, <4>1 DEF Wrote
    <3>3. CASE g # f
      BY <1>7, <3>1, <3>3 DEF Reads
    <3> QED BY <3>2, <3>3
  <2>3. CASE Wrote(t, c, m, magento) /\ c # b
    BY <1>6, <2>3 DEF Wrote
  <2>4. CASE Wrote(t, c, m, magento) /\ c = b
    <3>1. t.view[b] # None
      BY <1>4, <2>4 DEF Pending, Wrote
    <3>2. f.of = m
      BY <1>12, <2>4, <3>1 DEF Wrote
    <3> QED BY <1>5, <1>6, <1>10, <2>1, <2>4, <3>2 DEF Wrote
  <2> QED BY <1>19, <2>2, <2>3, <2>4
<1>20. v # None
  BY <1>6, SyncAssumption
<1> QED BY <1>2, <1>6, <1>8, <1>18, <1>19, <1>20, ImportGoes

LEMMA ImportWriteLost ==
    ASSUME LostInv, NEW w \in Workers, ImportWrite(w) PROVE LostInv'
<1>1. SyncInv' /\ SyncInv /\ At(w, "import", "write")
  BY ImportWriteKeeps DEF LostInv, ImportWrite
<1>2. work[w] # None /\ Top(w).link \in Bindings \cup {None}
  BY <1>1, AtTop DEF ImportFrame
<1>3. \/ Retry(w) \/ Fail(w)
      \/ \E b \in Bindings :
            /\ Writes(w, b)
            /\ Become(w, Return([work[w] EXCEPT !.view[b] = Row(Top(w).of, Top(w).version, clock),
                                                !.wrote = @ \cup {b}]))
            /\ UNCHANGED <<clock, magento, opened, rows, fromDate, queue, failed, left, overtaken>>
  <2>1. Fresh \ Products # {} => (CHOOSE b \in Fresh \ Products : TRUE) \in Fresh
    OBVIOUS
  <2>2. Fresh \subseteq Bindings
    BY DEF Fresh
  <2> QED BY <1>2, <2>1, <2>2 DEF ImportWrite, Writes
<1> QED BY <1>1, <1>2, <1>3, RollsBackJob, ImportWrites

-----------------------------------------------------------------------------
(* Exports                                                                 *)

\* The exporter read its binding, and delayed the import that it would hide.
ExportReadOf(t, u) ==
    LET f == Head(t.stack)
        row == t.view[f.of]
    IN /\ u.job = t.job /\ u.wrote = t.wrote /\ u.view = t.view /\ u.snap = t.snap
       /\ u.rowLocks = t.rowLocks /\ t.delayed \subseteq u.delayed
       /\ \A g \in FramesOf(t.stack) : g = f \/ g \in FramesOf(u.stack)
       /\ \E g \in FramesOf(u.stack) :
             /\ FramesOf(u.stack) \subseteq {g} \cup FramesOf(Tail(t.stack))
             /\ g.of = f.of /\ g.step = "dependencies" /\ g.link \in {None, row.mid}
             /\ g.link # None /\ ShouldImport(row) => ImportJob(row.mid, TRUE) \in u.delayed

LEMMA ExportReads ==
    ASSUME SyncTypeOK, NEW t, Fine(t), t.stack # <<>>, t.job.kind = "export",
           Head(t.stack).step = "read"
    PROVE  ExportReadOf(t, ExportRead(t))
<1> DEFINE f == Head(t.stack)
           row == t.view[f.of]
           gone == row.mid # None /\ ~Exists(row.mid)
           g == [f EXCEPT !.link = IF gone THEN None ELSE row.mid, !.step = "dependencies"]
           next == [t EXCEPT !.stack = <<g>> \o Tail(@)]
           u == [next EXCEPT !.delayed = @ \cup {ImportJob(row.mid, TRUE)}]
<1>1. /\ t \in Works /\ t.stack \in Seq(Frames) /\ f \in FramesOf(t.stack) /\ f \in Frames
  <2>1. t \in Works /\ t.stack \in Seq(Frames)
    BY DEF Fine, Works
  <2> QED BY <2>1, FramesReturned, TopOfStack
<1>2. f.of \in Bindings /\ row # None /\ row \in Rows
  <2>1. f.of \in Bindings /\ row # None
    BY <1>1, FramesFine
  <2> QED BY <1>1, <2>1 DEF Works
<1>3. row.mid \in MagentoIds \cup {None}
  BY <1>2, RowType
<1>4. /\ g \in Frames /\ g.of = f.of /\ g.step = "dependencies"
      /\ g.link = IF gone THEN None ELSE row.mid
  <2>1. (IF gone THEN None ELSE row.mid) \in MagentoIds \cup {None}
    BY <1>3
  <2> HIDE DEF f, row, gone
  <2> QED BY <1>1, <2>1 DEF Frames
<1>5. g.link \in {None, row.mid} /\ (g.link # None => ~gone)
  BY <1>4
<1> HIDE DEF g
<1>6. /\ next.stack = <<g>> \o Tail(t.stack) /\ next.job = t.job /\ next.wrote = t.wrote
      /\ next.rowLocks = t.rowLocks /\ next.view = t.view /\ next.snap = t.snap
      /\ next.delayed = t.delayed /\ next \in Works
  BY <1>1, <1>4, ReplaceTop DEF Works
<1>7. /\ FramesOf(<<g>> \o Tail(t.stack)) = {g} \cup FramesOf(Tail(t.stack))
      /\ \A h \in FramesOf(t.stack) : h = f \/ h \in FramesOf(Tail(t.stack))
  <2>1. Tail(t.stack) \in Seq(Frames)
    BY <1>1, TopOfStack
  <2> QED BY <1>1, <1>4, <2>1, FramesPushed, FramesReturned
<1>8. ExportRead(t) = IF ~gone /\ ShouldImport(row) THEN u ELSE next
  BY DEF ExportRead, g
<1>9. CASE ~gone /\ ShouldImport(row)
  <2>1. ExportRead(t) = u
    BY <1>8, <1>9
  <2> HIDE DEF next
  <2>2. /\ u.stack = next.stack /\ u.job = next.job /\ u.wrote = next.wrote
        /\ u.rowLocks = next.rowLocks /\ u.view = next.view /\ u.snap = next.snap
        /\ u.delayed = next.delayed \cup {ImportJob(row.mid, TRUE)}
    BY <1>6 DEF Works
  <2> HIDE DEF u
  <2> QED BY <1>4, <1>5, <1>6, <1>7, <2>1, <2>2 DEF ExportReadOf
<1>10. CASE ~(~gone /\ ShouldImport(row))
  <2>1. ExportRead(t) = next
    BY <1>8, <1>10
  <2> HIDE DEF next
  <2> QED BY <1>4, <1>5, <1>6, <1>7, <1>10, <2>1 DEF ExportReadOf
<1> QED BY <1>9, <1>10

LEMMA BeginExportLost ==
    ASSUME LostInv, NEW w \in Workers, NEW j \in queue, BeginExport(w, j) PROVE LostInv'
<1> DEFINE t == NewWork(j)
           u == ExportRead(NewWork(j))
<1>1. SyncInv /\ SyncTypeOK /\ j \in Jobs /\ SyncInv'
  BY BeginExportKeeps DEF LostInv, SyncInv, SyncTypeOK
<1>2. /\ work[w] = None /\ j.kind = "export" /\ queue' = queue \ {j}
      /\ UNCHANGED <<clock, magento, opened, rows, fromDate, left, overtaken>>
  BY DEF BeginExport
<1>3. \A i \in queue : i.kind # "export" => i \in queue'
  BY <1>2
<1>4. CASE rows[j.of] = None
  <2>1. failed' = failed \cup {j} /\ UNCHANGED work
    BY <1>4 DEF BeginExport
  <2>2. Become(w, None)
    BY <1>1, <1>2, <2>1 DEF Become, SyncTypeOK
  <2> QED BY <1>1, <1>2, <1>3, <2>1, <2>2, ExportGoes
<1>5. CASE rows[j.of] # None
  <2>1. Become(w, u) /\ UNCHANGED failed
    BY <1>5 DEF BeginExport
  <2>2. /\ Fine(t) /\ t.stack # <<>> /\ t.job = j
    BY <1>1, <1>2, <1>5, NewWorkFine
  <2>3. /\ t.stack = <<Frame(j.of)>> /\ t.snap = rows /\ t.view = rows
        /\ t.wrote = {} /\ t.rowLocks = {} /\ Head(t.stack) = Frame(j.of)
    BY NewWorkFields
  <2>4. Frame(j.of).of = j.of /\ Frame(j.of).step = "read" /\ FramesOf(Tail(<<Frame(j.of)>>)) = {}
    BY DEF Frame, FramesOf
  <2> DEFINE b == j.of
  <2>5. b \in Bindings
    BY <1>1, <1>2, JobType
  <2> HIDE DEF t
  <2>6. ExportReadOf(t, u)
    BY <1>1, <1>2, <2>2, <2>3, <2>4, ExportReads DEF t
  <2> HIDE DEF u
  <2>7. u.job = j /\ u.wrote = {} /\ u.view = rows /\ u.snap = rows /\ u.rowLocks = {}
    BY <2>2, <2>3, <2>6 DEF ExportReadOf
  <2>8. PICK g \in FramesOf(u.stack) :
           /\ FramesOf(u.stack) = {g}
           /\ g.of = b /\ g.step = "dependencies" /\ g.link \in {None, rows[b].mid}
           /\ g.link # None /\ ShouldImport(rows[b]) => ImportJob(rows[b].mid, TRUE) \in u.delayed
    BY <2>3, <2>4, <2>6 DEF ExportReadOf
  <2>9. Local(u, rows, magento, overtaken)
    <3>1. Pending(u, rows) /\ Seen(u, rows)
      BY <1>2, <2>7 DEF Pending, Seen
    <3>2. ExportSeen(u, g, rows, magento, overtaken)
      BY <2>8 DEF ExportSeen
    <3> QED BY <1>2, <2>7, <2>8, <3>1, <3>2 DEF Local
  <2>10. GoodWork(w, u, None)
    BY <2>7, <2>9 DEF GoodWork
  <2>11. ASSUME g.link # None, NEW r \in Images(b), Behind(g.link, r), ~Forced(b, g.link)
         PROVE  Owes(r, g.link, u.delayed)
    <3>1. g.link = rows[b].mid /\ rows[b] \in Rows
      BY <1>1, <2>5, <2>8, <2>11 DEF SyncTypeOK
    <3>2. g.link \in MagentoIds
      BY <1>5, <2>11, <3>1, RowType
    <3>3. r.sync < magento[g.link].updated
      BY <2>5, <2>11, <3>2 DEF LostInv, Told, RowsTold
    <3>4. rows[b] \in Images(b)
      BY DEF Images
    <3>5. rows[b].sync # None /\ r.sync # None
      BY <1>5, <2>5, <2>11, <3>1, <3>4 DEF LostInv, Kept, Stamps, Behind
    <3>6. magento[g.link].updated \in Int /\ rows[b].sync \in Int /\ r.sync \in Int
      <4>1. magento[g.link].updated \in Times
        BY <1>1, <2>11, <3>2, Existing DEF Behind
      <4>2. r \in Rows /\ r # None
        BY <1>1, <2>5, <2>11 DEF Images, SyncTypeOK, Busy, Works, Behind
      <4> QED BY <1>5, <3>1, <3>5, <4>1, <4>2, RowType DEF Times
    <3>7. r = rows[b] \/ rows[b].sync <= r.sync
      <4>1. ASSUME NEW o \in Busy, b \in work[o].wrote, r = work[o].view[b]
            PROVE  rows[b].sync <= r.sync
        <5>1. Pending(work[o], rows)
          BY DEF LostInv, Kept, Locals, Local, Busy
        <5> QED BY <1>5, <4>1, <5>1 DEF Pending
      <4> QED BY <4>1 DEF Images
    <3>8. ShouldImport(rows[b])
      BY <2>11, <3>1, <3>3, <3>6, <3>7 DEF ShouldImport
    <3> QED BY <2>8, <2>11, <3>1, <3>3, <3>8 DEF Owes
  <2>12. ExportsKept(w, u)
    BY <2>8, <2>11 DEF ExportsKept
  <2> QED BY <1>1, <1>2, <1>3, <2>1, <2>10, <2>12, ExportGoes
<1> QED BY <1>4, <1>5

\* The frames of an export that goes on: it has the same links, or reads no
\* record of Magento.
FrameMoved(t, g) ==
    \/ g \in FramesOf(t.stack)
    \/ g.step = "read" /\ g.link = None /\ t.view[g.of].mid = None
    \/ /\ g.step # "read"
       /\ \/ g.link = None
          \/ \E h \in FramesOf(t.stack) : h.of = g.of /\ h.link = g.link /\ h.step # "read"

LEMMA ExportMoves ==
    ASSUME LostInv, SyncInv', NEW w \in Workers, work[w] # None, NEW u, Become(w, u),
           UNCHANGED <<clock, magento, opened, rows, fromDate, queue, failed, overtaken>>,
           work[w].job.kind = "export", u.job = work[w].job, u.wrote = work[w].wrote,
           u.view = work[w].view, u.snap = work[w].snap, work[w].delayed \subseteq u.delayed,
           \A g \in FramesOf(u.stack) : FrameMoved(work[w], g),
           \A h \in FramesOf(work[w].stack) : \E g \in FramesOf(u.stack) : g.of = h.of,
           \A b \in u.rowLocks \ work[w].rowLocks :
               /\ rows[b] = work[w].snap[b] /\ \E g \in FramesOf(u.stack) : g.of = b
               /\ \A o \in Workers : o # w /\ work[o] # None => b \notin work[o].wrote
    PROVE  LostInv'
<1> DEFINE t == work[w]
<1>1. Local(t, rows, magento, overtaken) /\ Pending(t, rows) /\ Seen(t, rows)
  BY DEF LostInv, Kept, Locals, Local
<1>2. t.wrote = {} /\ t.snap = t.view
  BY <1>1 DEF Seen
<1>3. Pending(u, rows)
  BY <1>2 DEF Pending
<1>4. Seen(u, rows)
  BY <1>1, <1>2 DEF Seen
<1>5. ASSUME NEW g \in FramesOf(u.stack) PROVE ExportSeen(u, g, rows, magento, overtaken)
  <2>1. FrameMoved(t, g)
    OBVIOUS
  <2>2. ASSUME NEW h \in FramesOf(t.stack) PROVE ExportSeen(t, h, rows, magento, overtaken)
    BY <1>1 DEF Local
  <2>3. CASE g \in FramesOf(t.stack)
    BY <2>2, <2>3 DEF ExportSeen
  <2>4. CASE g \notin FramesOf(t.stack)
    BY <2>1, <2>2, <2>4 DEF ExportSeen, FrameMoved
  <2> QED BY <2>3, <2>4
<1>6. Local(u, rows, magento, overtaken)
  <2>1. u.job.kind # "import"
    OBVIOUS
  <2> QED BY <1>3, <1>4, <1>5, <2>1 DEF Local
<1>7. \A o \in Workers : o # w /\ work[o] # None =>
         /\ t.wrote \cap (work[o].wrote \cup work[o].rowLocks) = {}
         /\ t.rowLocks \cap work[o].wrote = {}
  BY DEF LostInv, Kept, Apart
<1>8. GoodWork(w, u, None)
  BY <1>2, <1>6, <1>7 DEF GoodWork
<1>9. ExportsKept(w, u)
  <2> SUFFICES ASSUME NEW g \in FramesOf(u.stack), g.step # "read", g.link # None
               PROVE  FrameKept(w, g)
    BY DEF ExportsKept
  <2>1. \E h \in FramesOf(t.stack) : h.of = g.of /\ h.link = g.link /\ h.step # "read"
    BY DEF FrameMoved
  <2>2. work'[w] = u
    BY DEF LostInv, SyncInv, SyncTypeOK, Become
  <2> QED BY <2>1, <2>2 DEF FrameKept, Busy
<1> QED BY <1>8, <1>9, ExportGoes

LEMMA ExportDependencyLost ==
    ASSUME LostInv, NEW w \in Workers, ExportDependency(w) PROVE LostInv'
<1> DEFINE t == work[w]
           u == ExportRead(work[w])
           f == Head(t.stack)
<1>1. SyncInv' /\ SyncInv /\ SyncTypeOK /\ At(w, "export", "read")
  BY ExportDependencyKeeps DEF LostInv, SyncInv, ExportDependency
<1>2. /\ t # None /\ Fine(t) /\ t.stack # <<>> /\ t.stack \in Seq(Frames)
      /\ t.job.kind = "export"
  BY <1>1, AtTop
<1>3. /\ f \in FramesOf(t.stack) /\ f.step = "read" /\ Local(t, rows, magento, overtaken)
  BY <1>1, AtLocal
<1>4. t.view[f.of].mid = None
  BY <1>2, <1>3 DEF Local, ExportSeen
<1>5. ExportReadOf(t, u)
  BY <1>1, <1>2, <1>3, ExportReads
<1> HIDE DEF u
<1>6. FramesOf(Tail(t.stack)) \subseteq FramesOf(t.stack)
  BY <1>2, FramesReturned
<1>7. PICK g \in FramesOf(u.stack) :
         /\ FramesOf(u.stack) \subseteq {g} \cup FramesOf(Tail(t.stack))
         /\ g.of = f.of /\ g.step = "dependencies" /\ g.link \in {None, t.view[f.of].mid}
  BY <1>5 DEF ExportReadOf
<1>8. \A h \in FramesOf(u.stack) : FrameMoved(t, h)
  BY <1>4, <1>6, <1>7 DEF FrameMoved
<1>9. \A h \in FramesOf(t.stack) : \E i \in FramesOf(u.stack) : i.of = h.of
  BY <1>5, <1>7 DEF ExportReadOf
<1>10. /\ u.job = t.job /\ u.wrote = t.wrote /\ u.view = t.view /\ u.snap = t.snap
       /\ u.rowLocks = t.rowLocks /\ t.delayed \subseteq u.delayed
  BY <1>5 DEF ExportReadOf
<1>11. /\ Become(w, u)
       /\ UNCHANGED <<clock, magento, opened, rows, fromDate, queue, failed, overtaken>>
  BY DEF ExportDependency, u
<1> QED BY <1>1, <1>2, <1>8, <1>9, <1>10, <1>11, ExportMoves

\* The frame on top goes to another step.
LEMMA GotoMoves ==
    ASSUME SyncInv, NEW w \in Workers, NEW kind, NEW step, At(w, kind, step), NEW g \in Frames,
           g.of = Top(w).of
    PROVE  LET t == work[w]
               u == Goto(w, g)
           IN /\ u \in Works /\ u.job = t.job /\ u.wrote = t.wrote /\ u.view = t.view
              /\ u.snap = t.snap /\ u.rowLocks = t.rowLocks /\ u.delayed = t.delayed
              /\ u.stack = <<g>> \o Tail(t.stack) /\ u.stack \in Seq(Frames)
              /\ FramesOf(u.stack) \subseteq {g} \cup FramesOf(t.stack)
              /\ g \in FramesOf(u.stack)
              /\ \A h \in FramesOf(t.stack) : \E i \in FramesOf(u.stack) : i.of = h.of
<1> DEFINE t == work[w]
           u == Goto(w, g)
<1>1. t \in Works /\ t.stack # <<>> /\ t.stack \in Seq(Frames)
  BY AtTop
<1>2. <<g>> \o Tail(t.stack) \in Seq(Frames)
  BY <1>1, ReplaceTop
<1>3. /\ u \in Works /\ u.job = t.job /\ u.wrote = t.wrote /\ u.view = t.view
      /\ u.snap = t.snap /\ u.rowLocks = t.rowLocks /\ u.delayed = t.delayed
      /\ u.stack = <<g>> \o Tail(t.stack)
  BY <1>1, <1>2 DEF Goto, Works
<1>4. /\ FramesOf(<<g>> \o Tail(t.stack)) \subseteq {g} \cup FramesOf(t.stack)
      /\ g \in FramesOf(<<g>> \o Tail(t.stack))
      /\ \A h \in FramesOf(t.stack) : h = Top(w) \/ h \in FramesOf(<<g>> \o Tail(t.stack))
  BY <1>1, FramesReplaced DEF Top
<1> HIDE DEF u
<1> QED BY <1>2, <1>3, <1>4 DEF u

LEMMA ExportLockLost ==
    ASSUME LostInv, NEW w \in Workers, ExportLock(w) PROVE LostInv'
<1> DEFINE t == work[w]
           b == Top(w).of
           g == Step(Top(w), "send")
           u == [Goto(w, g) EXCEPT !.rowLocks = @ \cup {b}]
<1>1. SyncInv' /\ SyncInv /\ At(w, "export", "lock")
  BY ExportLockKeeps DEF LostInv, ExportLock
<1>2. t # None /\ t.job.kind = "export" /\ Top(w) \in Frames
  BY <1>1, AtTop
<1>3. Top(w) \in FramesOf(t.stack) /\ Top(w).step = "lock"
  BY <1>1, AtLocal
<1>4. CASE b \in Held(w) \/ rows[b] # t.snap[b]
  BY <1>2, <1>4, RollsBackJob DEF ExportLock
<1>5. CASE ~(b \in Held(w) \/ rows[b] # t.snap[b])
  <2>1. /\ Become(w, u)
        /\ UNCHANGED <<clock, magento, opened, rows, fromDate, queue, failed, left, overtaken>>
    BY <1>5 DEF ExportLock
  <2>2. g \in Frames /\ g.of = b /\ g.step = "send" /\ g.link = Top(w).link
    BY <1>2, StepType
  <2> HIDE DEF g
  <2>3. /\ Goto(w, g) \in Works /\ Goto(w, g).job = t.job /\ Goto(w, g).wrote = t.wrote
        /\ Goto(w, g).view = t.view /\ Goto(w, g).snap = t.snap
        /\ Goto(w, g).rowLocks = t.rowLocks /\ Goto(w, g).delayed = t.delayed
        /\ FramesOf(Goto(w, g).stack) \subseteq {g} \cup FramesOf(t.stack)
        /\ g \in FramesOf(Goto(w, g).stack)
        /\ \A h \in FramesOf(t.stack) : \E i \in FramesOf(Goto(w, g).stack) : i.of = h.of
    BY <1>1, <2>2, GotoMoves
  <2>4. /\ u.job = t.job /\ u.wrote = t.wrote /\ u.view = t.view /\ u.snap = t.snap
        /\ u.rowLocks = t.rowLocks \cup {b} /\ u.delayed = t.delayed
        /\ u.stack = Goto(w, g).stack
    BY <2>3 DEF Works
  <2>5. \A o \in Workers : o # w /\ work[o] # None => b \notin work[o].wrote
    BY <1>5 DEF Held, Others, Busy
  <2> HIDE DEF u
  <2>6. \A h \in FramesOf(u.stack) : FrameMoved(t, h)
    BY <1>3, <2>2, <2>3, <2>4 DEF FrameMoved
  <2>7. \A c \in u.rowLocks \ t.rowLocks :
           /\ rows[c] = t.snap[c] /\ \E h \in FramesOf(u.stack) : h.of = c
           /\ \A o \in Workers : o # w /\ work[o] # None => c \notin work[o].wrote
    BY <1>5, <2>2, <2>3, <2>4, <2>5
  <2> QED BY <1>1, <1>2, <2>1, <2>3, <2>4, <2>6, <2>7, ExportMoves
<1> QED BY <1>4, <1>5

\* What a job of another kind does not touch: the imports to come.
LEMMA OtherKind ==
    ASSUME SyncInv, NEW w \in Workers, NEW t, Become(w, t), UNCHANGED <<magento, fromDate>>,
           failed \subseteq failed', queue \subseteq queue',
           work[w] # None, work[w].job.kind = "export", NEW b, NEW m
    PROVE  /\ Forced(b, m) => Forced(b, m)'
           /\ Listed(b, m) => Forced(b, m)' \/ Listed(b, m)'
<1>1. \A force : ImportJob(m, force).kind = "import"
  BY DEF ImportJob
<1>2. OneWork(w, t) /\ GoesOnFor(w, t, b, m, TRUE) /\ GoesOnFor(w, t, b, m, FALSE)
  BY <1>1 DEF OneWork, GoesOnFor, Known, Carries
<1> QED BY <1>2, ForcedStays, ListedStays

\* The row that an export commits.
CommitsRow(w, b, row) ==
    /\ row # None /\ rows'[b] = row /\ \A c \in Bindings : c # b => rows'[c] = rows[c]
    /\ \A o \in Workers : o # w /\ work[o] # None => b \notin work[o].wrote \cup work[o].rowLocks
    /\ \/ row.mid # None
       \/ \A o \in Workers : work[o] # None => \A f \in FramesOf(work[o].stack) : f.of # b
    /\ row.mid # None =>
          /\ row.sync = clock
          /\ \A c \in Bindings : \A s \in Images(c) : s # None /\ s.mid = row.mid => c = b
          /\ \A m \in MagentoIds : Behind(m, row)' => Forced(b, m)'

\* The transaction that follows the commit of an export.
Refreshed(t, u) ==
    /\ u.job = t.job /\ u.wrote = {} /\ u.rowLocks = {} /\ u.view = rows' /\ u.snap = rows'
    /\ FramesOf(u.stack) \subseteq FramesOf(t.stack)
    /\ \A f \in FramesOf(u.stack) : f.step # "read"

LEMMA ExportCommits ==
    ASSUME LostInv, SyncInv', NEW w \in Workers, work[w] # None, work[w].job.kind = "export",
           NEW u, Become(w, u), Refreshed(work[w], u),
           NEW b \in Bindings, NEW row, CommitsRow(w, b, row),
           queue' = queue \cup work[w].delayed, overtaken \subseteq overtaken',
           UNCHANGED <<clock, magento, opened, fromDate, failed>>
    PROVE  LostInv'
<1> DEFINE t == work[w]
<1>1. work'[w] = u /\ \A v \in Workers : v # w => work'[v] = work[v]
  BY DEF Become, LostInv, SyncInv, SyncTypeOK
<1>2. SyncInv /\ SyncTypeOK /\ Dates /\ Stamps /\ OneBinding /\ Apart /\ Locals /\ Told
  BY DEF LostInv, Kept, SyncInv
<1>3. Local(t, rows, magento, overtaken) /\ t.wrote = {}
  BY <1>2 DEF Locals, Local, Seen
<1>4. ASSUME NEW c \in Bindings, NEW r \in Images(c)'
      PROVE  IF c = b THEN r = row ELSE r \in Images(c)
  <2>1. \/ r = rows'[c]
        \/ \E v \in Workers : /\ work'[v] # None /\ c \in work'[v].wrote
                              /\ r = work'[v].view[c]
    BY DEF Images, Busy
  <2>2. CASE r = rows'[c]
    BY <2>2 DEF Images, CommitsRow
  <2>3. ASSUME NEW v \in Workers, work'[v] # None, c \in work'[v].wrote, r = work'[v].view[c]
        PROVE  c # b /\ r \in Images(c)
    <3>1. v # w
      BY <1>1, <2>3 DEF Refreshed
    <3> QED BY <1>1, <2>3, <3>1 DEF CommitsRow, Images, Busy
  <2> QED BY <2>1, <2>2, <2>3
<1>5. \A m, r : Behind(m, r)' => Behind(m, r)
  BY DEF Behind, Exists
<1>6. Dates'
  BY <1>2 DEF Dates, Exists
<1>7. Stamps'
  <2>1. clock \in Int /\ None \notin Times /\ clock \in Times
    BY <1>2, SyncAssumption DEF SyncTypeOK, Times
  <2>2. ASSUME NEW c \in Bindings, NEW r \in Images(c)', r # None, r.mid # None
        PROVE  r.sync # None /\ r.sync <= clock'
    BY <1>2, <1>4, <2>1, <2>2 DEF Stamps, CommitsRow
  <2> QED BY <2>2 DEF Stamps
<1>8. OneBinding'
  <2> SUFFICES ASSUME NEW c \in Bindings, NEW d \in Bindings,
                      NEW r \in Images(c)', NEW s \in Images(d)',
                      r # None, s # None, r.mid # None, r.mid = s.mid, c # d
               PROVE  FALSE
    BY DEF OneBinding
  <2>1. CASE c = b
    BY <1>4, <2>1 DEF CommitsRow
  <2>2. CASE d = b
    BY <1>4, <2>2 DEF CommitsRow
  <2>3. CASE c # b /\ d # b
    BY <1>2, <1>4, <2>3 DEF OneBinding
  <2> QED BY <2>1, <2>2, <2>3
<1>9. Apart'
  <2> SUFFICES ASSUME NEW v \in Workers, NEW o \in Workers, v # o,
                      work'[v] # None, work'[o] # None
               PROVE  work'[v].wrote \cap (work'[o].wrote \cup work'[o].rowLocks) = {}
    BY DEF Apart
  <2>1. CASE v # w /\ o # w
    BY <1>1, <1>2, <2>1 DEF Apart
  <2>2. CASE v = w \/ o = w
    BY <1>1, <2>2 DEF Refreshed
  <2> QED BY <2>1, <2>2
<1>10. ASSUME NEW v \in Workers, work'[v] # None PROVE Local(work'[v], rows', magento', overtaken')
  <2>1. CASE v = w
    <3>1. Pending(u, rows') /\ Seen(u, rows') /\ u.job.kind = "export"
      BY DEF Pending, Seen, Refreshed
    <3>2. ASSUME NEW f \in FramesOf(u.stack) PROVE ExportSeen(u, f, rows', magento', overtaken')
      <4>1. f \in FramesOf(t.stack) /\ f.step # "read"
        BY DEF Refreshed
      <4>2. ExportSeen(t, f, rows, magento, overtaken) /\ f.of \in Bindings
        <5>1. Fine(t)
          BY <1>2, BusyWork
        <5> QED BY <1>3, <4>1, <5>1, FramesFine DEF Local
      <4>3. rows'[f.of] = rows[f.of] \/ rows'[f.of].mid # None
        BY <4>1, <4>2 DEF CommitsRow
      <4> QED BY <4>1, <4>2, <4>3 DEF ExportSeen
    <3> QED BY <1>1, <2>1, <3>1, <3>2 DEF Local
  <2>2. CASE v # w
    <3>1. work'[v] = work[v] /\ Fine(work[v]) /\ Local(work[v], rows, magento, overtaken)
      BY <1>1, <1>2, <1>10, <2>2, BusyWork DEF Locals
    <3>2. \A c \in work[v].wrote \cup work[v].rowLocks : rows'[c] = rows[c]
      <4>1. work[v].wrote \cup work[v].rowLocks \subseteq Bindings
        BY <3>1 DEF Fine, Works
      <4> QED BY <1>10, <2>2, <3>1, <4>1 DEF CommitsRow
    <3>3. \A f \in FramesOf(work[v].stack) : work[v].job.kind = "export" =>
             rows'[f.of] \in {rows[f.of], None} \/ rows'[f.of].mid # None
      <4>1. \A f \in FramesOf(work[v].stack) : work[v].job.kind = "export" => f.of \in Bindings
        BY <3>1, FramesFine
      <4> QED BY <1>10, <3>1, <4>1 DEF CommitsRow
    <3>4. \A m \in MagentoIds : SameRecord(m, magento, magento', overtaken')
      BY DEF SameRecord
    <3> QED BY <3>1, <3>2, <3>3, <3>4, LocalStays
  <2> QED BY <2>1, <2>2
<1>11. Locals'
  BY <1>10 DEF Locals
<1>12. \A c, m : /\ Forced(c, m) => Forced(c, m)'
                 /\ Listed(c, m) => Forced(c, m)' \/ Listed(c, m)'
  BY <1>2, OtherKind
<1>13. Covered
  <2> SUFFICES ASSUME NEW c \in Bindings, NEW r \in Images(c)', NEW m \in MagentoIds, Behind(m, r)'
               PROVE  Forced(c, m)' \/ StillTold(c, r, m)
    BY DEF Covered
  <2>1. CASE c = b
    <3>1. r = row /\ row.mid = m /\ m # None
      BY <1>4, <2>1, SyncAssumption DEF Behind
    <3> QED BY <2>1, <3>1 DEF CommitsRow
  <2>2. CASE c # b
    BY <1>4, <1>5, <1>12, <2>2 DEF StillTold
  <2> QED BY <2>1, <2>2
<1>14. ExportsCovered
  <2> SUFFICES ASSUME NEW v \in Workers, work'[v] # None, work'[v].job.kind = "export",
                      NEW f \in FramesOf(work'[v].stack), f.step # "read", f.link # None
               PROVE  FrameKept(v, f)
    BY DEF ExportsCovered, Busy
  <2>1. CASE v # w
    BY <1>1, <2>1 DEF FrameKept, Busy
  <2>2. CASE v = w
    BY <1>1, <2>2 DEF FrameKept, Busy, Refreshed
  <2> QED BY <2>1, <2>2
<1>15. Told'
  BY <1>2, <1>13, <1>14, ToldStep
<1> QED BY <1>6, <1>7, <1>8, <1>9, <1>11, <1>15 DEF LostInv, Kept

\* What a commit of one row does.
LEMMA CommitRefreshes ==
    ASSUME NEW w \in Workers, NEW t \in Works, t.job = work[w].job,
           NEW b \in Bindings, NEW row, t.wrote = {b}, t.view[b] = row,
           FramesOf(t.stack) \subseteq FramesOf(work[w].stack),
           \A f \in FramesOf(t.stack) : f.step # "read", Commit(w, t)
    PROVE  /\ \E u : Become(w, u) /\ Refreshed(work[w], u)
           /\ rows'[b] = row /\ \A c \in Bindings : c # b => rows'[c] = rows[c]
           /\ queue' = queue \cup t.delayed
<1> DEFINE u == [t EXCEPT !.snap = Committed(t), !.view = Committed(t), !.wrote = {},
                          !.locks = {}, !.rowLocks = {}, !.delayed = {}]
<1>1. rows' = Committed(t) /\ queue' = queue \cup t.delayed /\ Become(w, u)
  BY DEF Commit
<1>2. /\ u.job = t.job /\ u.wrote = {} /\ u.rowLocks = {} /\ u.view = Committed(t)
      /\ u.snap = Committed(t) /\ u.stack = t.stack
  BY DEF Works
<1> HIDE DEF u
<1>3. Refreshed(work[w], u)
  BY <1>1, <1>2 DEF Refreshed
<1>4. Committed(t)[b] = row /\ \A c \in Bindings : c # b => Committed(t)[c] = rows[c]
  BY DEF Committed
<1> QED BY <1>1, <1>3, <1>4

\* Nobody knows a new id.
LEMMA FreshApart ==
    ASSUME LostInv, NEW b \in Fresh, NEW o \in Workers, work[o] # None
    PROVE  /\ b \notin work[o].wrote \cup work[o].rowLocks
           /\ \A f \in FramesOf(work[o].stack) : f.of # b
<1>1. /\ work[o].view[b] = None
      /\ \A i \in 1..Len(work[o].stack) : work[o].stack[i].of # b
  BY DEF Fresh, Busy
<1>2. Pending(work[o], rows) /\ Seen(work[o], rows)
  BY DEF LostInv, Kept, Locals, Local
<1>3. \A g \in FramesOf(work[o].stack) : g.of # b
  BY <1>1 DEF FramesOf
<1> QED BY <1>1, <1>2, <1>3 DEF Pending, Seen

\* The frames below the one on top are not about to read.
LEMMA NotReading ==
    ASSUME NEW t, Fine(t), t.job.kind = "export", t.stack # <<>>, Head(t.stack).step # "read"
    PROVE  \A f \in FramesOf(t.stack) : f.step # "read"
<1>1. t.stack \in Seq(Frames) /\ Head(t.stack) = t.stack[1]
  <2>1. t.stack \in Seq(Frames)
    BY DEF Fine, Works
  <2> QED BY <2>1, TopOfStack
<1>2. ASSUME NEW i \in 1..Len(t.stack) PROVE t.stack[i].step # "read"
  BY <1>1, <1>2, BelowTop
<1> QED BY <1>2 DEF FramesOf

LEMMA ExportDependenciesLost ==
    ASSUME LostInv, NEW w \in Workers, ExportDependencies(w) PROVE LostInv'
<1> DEFINE t == work[w]
           f == Top(w)
           needed == {p \in Parent[f.of] : t.view[p] # None}
           unbound == {p \in needed : t.view[p].mid = None}
           u(p) == [t EXCEPT !.view[p] = Row(None, 0, None), !.wrote = @ \cup {p}]
           g == Step(f, "lock")
           pushed(p) == [t EXCEPT !.stack = <<Frame(p), g>> \o Tail(@)]
<1>1. SyncInv' /\ SyncInv /\ At(w, "export", "dependencies")
  BY ExportDependenciesKeeps DEF LostInv, ExportDependencies
<1>2. /\ t # None /\ Fine(t) /\ t \in Works /\ t.job.kind = "export"
      /\ t.stack # <<>> /\ t.stack \in Seq(Frames) /\ f \in Frames /\ f.of \in Bindings
  BY <1>1, AtTop DEF ExportFrame
<1>3. /\ f \in FramesOf(t.stack) /\ f = Head(t.stack) /\ f.step = "dependencies"
      /\ Local(t, rows, magento, overtaken)
  BY <1>1, AtLocal
<1>4. t.wrote = {}
  BY <1>2, <1>3 DEF Local, Seen
<1>5. \/ Retry(w)
      \/ \E p \in Parent[f.of] \cap Fresh :
            /\ Commit(w, u(p))
            /\ UNCHANGED <<clock, magento, opened, fromDate, failed, left, overtaken>>
      \/ /\ Become(w, Goto(w, g)) \/ \E p \in unbound : Become(w, pushed(p))
         /\ UNCHANGED <<clock, magento, opened, rows, fromDate, queue, failed, left, overtaken>>
  BY DEF ExportDependencies
<1>6. CASE Retry(w)
  BY <1>2, <1>6, RollsBackJob
<1>7. ASSUME NEW p \in Fresh, Commit(w, u(p)),
             UNCHANGED <<clock, magento, opened, fromDate, failed, left, overtaken>>
      PROVE  LostInv'
  <2> DEFINE row == Row(None, 0, None)
  <2>1. row \in Rows /\ row # None /\ row.mid = None /\ p \in Bindings
    BY SyncAssumption DEF Row, Rows, Filled, Fresh
  <2> HIDE DEF row
  <2>2. /\ u(p) \in Works /\ u(p).stack = t.stack /\ u(p).job = t.job
        /\ u(p).wrote = {p} /\ u(p).view[p] = row /\ u(p).delayed = t.delayed
    BY <1>2, <1>4, <2>1 DEF Works, row
  <2>3. \A h \in FramesOf(t.stack) : h.step # "read"
    BY <1>2, <1>3, NotReading
  <2> HIDE DEF u
  <2>4. /\ \E z : Become(w, z) /\ Refreshed(t, z)
        /\ rows'[p] = row /\ \A c \in Bindings : c # p => rows'[c] = rows[c]
        /\ queue' = queue \cup t.delayed
    BY <1>7, <2>1, <2>2, <2>3, CommitRefreshes
  <2>5. CommitsRow(w, p, row)
    BY <2>1, <2>4, FreshApart DEF CommitsRow
  <2> QED BY <1>1, <1>2, <1>7, <2>1, <2>4, <2>5, ExportCommits
<1>8. g \in Frames /\ g.of = f.of /\ g.step = "lock" /\ g.link = f.link
  BY <1>2, StepType
<1> HIDE DEF g
<1>9. /\ Goto(w, g) \in Works /\ Goto(w, g).job = t.job /\ Goto(w, g).wrote = t.wrote
      /\ Goto(w, g).view = t.view /\ Goto(w, g).snap = t.snap
      /\ Goto(w, g).rowLocks = t.rowLocks /\ Goto(w, g).delayed = t.delayed
      /\ Goto(w, g).stack = <<g>> \o Tail(t.stack) /\ Goto(w, g).stack \in Seq(Frames)
      /\ FramesOf(Goto(w, g).stack) \subseteq {g} \cup FramesOf(t.stack)
      /\ \A h \in FramesOf(t.stack) : \E i \in FramesOf(Goto(w, g).stack) : i.of = h.of
  BY <1>1, <1>8, GotoMoves
<1>10. \A h \in {g} \cup FramesOf(t.stack) : FrameMoved(t, h)
  BY <1>3, <1>8 DEF FrameMoved
<1>11. ASSUME Become(w, Goto(w, g)),
              UNCHANGED <<clock, magento, opened, rows, fromDate, queue, failed, left, overtaken>>
       PROVE  LostInv'
  BY <1>1, <1>2, <1>9, <1>10, <1>11, ExportMoves
<1>12. ASSUME NEW p \in unbound, Become(w, pushed(p)),
              UNCHANGED <<clock, magento, opened, rows, fromDate, queue, failed, left, overtaken>>
       PROVE  LostInv'
  <2>1. p \in Bindings /\ t.view[p].mid = None
    BY <1>2, SyncAssumption
  <2> HIDE DEF unbound
  <2>2. Frame(p) \in Frames /\ Frame(p).of = p /\ Frame(p).step = "read"
        /\ Frame(p).link = None
    BY <2>1, FrameType
  <2>3. <<Frame(p), g>> \o Tail(t.stack) = <<Frame(p)>> \o (<<g>> \o Tail(t.stack))
    <3>1. Tail(t.stack) \in Seq(Frames)
      BY <1>2, TopOfStack
    <3> HIDE DEF t
    <3> QED BY <1>8, <2>2, <3>1, PushTwo
  <2>4. /\ <<Frame(p)>> \o Goto(w, g).stack \in Seq(Frames)
        /\ FramesOf(<<Frame(p)>> \o Goto(w, g).stack) = {Frame(p)} \cup FramesOf(Goto(w, g).stack)
    BY <1>9, <2>2, PushOnStack, FramesPushed
  <2>5. /\ pushed(p).stack = <<Frame(p)>> \o Goto(w, g).stack /\ pushed(p).job = t.job
        /\ pushed(p).view = t.view /\ pushed(p).wrote = t.wrote /\ pushed(p).snap = t.snap
        /\ pushed(p).rowLocks = t.rowLocks /\ pushed(p).delayed = t.delayed
    BY <1>2, <1>9, <2>3, <2>4 DEF Works
  <2> HIDE DEF pushed
  <2>6. FrameMoved(t, Frame(p))
    BY <2>1, <2>2 DEF FrameMoved
  <2>7. \A h \in FramesOf(pushed(p).stack) : FrameMoved(t, h)
    BY <1>9, <1>10, <2>4, <2>5, <2>6
  <2>8. \A h \in FramesOf(t.stack) : \E i \in FramesOf(pushed(p).stack) : i.of = h.of
    BY <1>9, <2>4, <2>5
  <2> QED BY <1>1, <1>2, <1>12, <2>5, <2>7, <2>8, ExportMoves
<1> HIDE DEF pushed, unbound, u
<1> QED BY <1>5, <1>6, <1>7, <1>11, <1>12

LEMMA ExportBindLost ==
    ASSUME LostInv, NEW w \in Workers, ExportBind(w) PROVE LostInv'
<1> DEFINE t == work[w]
           f == Top(w)
<1>1. SyncInv' /\ SyncInv /\ SyncTypeOK /\ At(w, "export", "bind")
  BY ExportBindKeeps DEF LostInv, SyncInv, ExportBind
<1>2. /\ t # None /\ Fine(t) /\ Free(w, t) /\ t \in Works /\ t.job.kind = "export"
      /\ t.stack # <<>> /\ t.stack \in Seq(Frames) /\ f \in Frames /\ f.step = "bind"
      /\ f.of \in Bindings /\ f.of \in t.rowLocks /\ f.link \in MagentoIds \cup {None}
  BY <1>1, AtTop DEF ExportFrame
<1>3. PICK b \in Bindings : b = f.of
  BY <1>2
<1>4. PICK m \in MagentoIds \cup {None} : m = f.link
  BY <1>2
<1> DEFINE before == t.view[b]
           version == IF before.mid = m THEN before.version ELSE 0
<1>5. /\ f \in FramesOf(t.stack) /\ f = Head(t.stack) /\ Local(t, rows, magento, overtaken)
      /\ \A o \in Workers : o # w /\ work[o] # None => t.rowLocks \cap work[o].wrote = {}
  BY <1>1, AtLocal
<1>6. t.wrote = {} /\ rows[b] = before /\ ExportSeen(t, f, rows, magento, overtaken)
  BY <1>2, <1>5, <1>3 DEF Local, Seen
<1>7. CASE before = None \/ m = None \/ Bound(rows, m) \ {b} # {}
  BY <1>2, <1>7, <1>3, <1>4, RollsBackJob DEF ExportBind
<1>8. CASE ~(before = None \/ m = None \/ Bound(rows, m) \ {b} # {})
  <2> DEFINE next == [t EXCEPT !.view[b] = Row(m, version, clock), !.wrote = @ \cup {b}]
             u == Return(next)
  <2>1. /\ Commit(w, u)
        /\ overtaken' = IF TakenBack(before, m) THEN overtaken \cup {m} ELSE overtaken
        /\ UNCHANGED <<clock, magento, opened, fromDate, failed, left>>
        /\ \A o \in Others(w) : Bound(work[o].view, m) \cap work[o].wrote = {}
    BY <1>8, <1>3, <1>4 DEF ExportBind
  <2>2. before \in Rows /\ before # None /\ m \in MagentoIds /\ m # None /\ clock \in Times
    BY <1>1, <1>2, <1>8 DEF Works, SyncTypeOK
  <2>3. version \in Nat
    BY <2>2, RowType
  <2>4. PICK row \in Filled : row = Row(m, version, clock)
    BY <2>2, <2>3 DEF Row, Filled
  <2>5. row.mid = m /\ row.version = version /\ row.sync = clock
    BY <2>4 DEF Row
  <2>6. row # None /\ row \in Rows
    BY SyncAssumption DEF Rows
  <2>7. /\ u \in Works /\ u.job = t.job /\ u.wrote = {b} /\ u.view[b] = row
        /\ u.delayed = t.delayed /\ u.stack = Tail(t.stack)
    <3>1. Tail(t.stack) \in Seq(Frames)
      BY <1>2, TopOfStack
    <3> QED BY <1>2, <1>6, <2>4, <2>6, <3>1 DEF Return, Works
  <2> HIDE DEF u
  <2>8. /\ FramesOf(u.stack) \subseteq FramesOf(t.stack)
        /\ \A h \in FramesOf(u.stack) : h.step # "read"
    <3>1. FramesOf(u.stack) \subseteq FramesOf(t.stack)
      BY <1>2, <2>7, FramesReturned
    <3>2. \A h \in FramesOf(t.stack) : h.step # "read"
      BY <1>2, <1>5, NotReading
    <3> QED BY <3>1, <3>2
  <2>9. /\ \E z : Become(w, z) /\ Refreshed(t, z)
        /\ rows'[b] = row /\ \A c \in Bindings : c # b => rows'[c] = rows[c]
        /\ queue' = queue \cup t.delayed
    BY <1>2, <2>1, <2>7, <2>8, CommitRefreshes
  <2>10. PICK z : Become(w, z) /\ Refreshed(t, z)
    BY <2>9
  <2>11. ASSUME NEW o \in Workers, o # w, work[o] # None
         PROVE  b \notin work[o].wrote \cup work[o].rowLocks
    BY <1>2, <1>5, <1>3, <2>11 DEF Free
  <2>12. ASSUME NEW c \in Bindings, NEW s \in Images(c), s # None, s.mid = m PROVE c = b
    <3>1. CASE s = rows[c]
      BY <1>8, <2>12, <3>1 DEF Bound
    <3>2. ASSUME NEW o \in Busy, c \in work[o].wrote, s = work[o].view[c] PROVE c = b
      <4>1. o # w
        BY <1>6, <3>2
      <4> QED BY <2>1, <2>12, <3>2, <4>1 DEF Others, Bound
    <3> QED BY <3>1, <3>2 DEF Images
  <2>13. ASSUME NEW n \in MagentoIds, Behind(n, row)' PROVE Forced(b, n)'
    <3>1. /\ n = m /\ Exists(m) /\ version < magento[m].version /\ m \notin overtaken'
          /\ m \notin overtaken
      BY <2>1, <2>5, <2>13 DEF Behind, Exists
    <3>2. magento[m].version \in Nat
      BY <1>1, <2>2, <3>1, Existing
    <3>3. CASE before.mid = m
      <4>1. Behind(m, before) /\ before \in Images(b)
        BY <1>6, <2>2, <3>1, <3>3 DEF Behind, Images
      <4>2. ExportTold(f, t.delayed) /\ f.step # "read"
        BY <1>2, <1>5 DEF LostInv, Told, ExportsTold, Busy
      <4>3. Forced(b, m) \/ Owes(before, m, t.delayed)
        BY <2>2, <1>3, <1>4, <4>1, <4>2 DEF ExportTold
      <4>4. CASE Forced(b, m)
        BY <1>1, <1>2, <2>1, <2>9, <2>10, <3>1, <4>4, OtherKind
      <4>5. CASE Owes(before, m, t.delayed)
        BY <2>9, <3>1, <4>5 DEF Owes, Forced
      <4> QED BY <4>3, <4>4, <4>5
    <3>4. CASE before.mid # m
      <4>1. version = 0 /\ magento[m].version > 0
        BY <3>1, <3>2, <3>4
      <4>2. before.mid = None
        BY <2>1, <3>1, <3>4, <4>1 DEF TakenBack
      <4> QED BY <1>2, <1>6, <1>3, <1>4, <2>2, <3>1, <4>1, <4>2 DEF ExportSeen, Exists
    <3> QED BY <3>3, <3>4
  <2>14. CommitsRow(w, b, row)
    BY <2>2, <2>5, <2>6, <2>9, <2>11, <2>12, <2>13 DEF CommitsRow
  <2>15. overtaken \subseteq overtaken'
    BY <2>1
  <2> QED BY <1>1, <1>2, <2>1, <2>9, <2>10, <2>14, <2>15, ExportCommits
<1> QED BY <1>7, <1>8

-----------------------------------------------------------------------------
(* The steps of nobody's job                                               *)

LEMMA ImageType ==
    ASSUME SyncTypeOK, NEW b \in Bindings, NEW r \in Images(b) PROVE r \in Rows
BY DEF SyncTypeOK, Images, Busy, Works

LEMMA SameImages ==
    ASSUME UNCHANGED <<rows, work>>, NEW b PROVE Images(b)' = Images(b)
BY DEF Images, Busy

LEMMA LaterStamps ==
    ASSUME LostInv, SyncInv', clock <= clock',
           \A b \in Bindings : Images(b)' \subseteq Images(b) \cup {None}
    PROVE  Stamps'
<1>1. /\ SyncTypeOK /\ clock \in Int /\ clock' \in Int /\ Stamps
  BY DEF LostInv, Kept, SyncInv, SyncTypeOK, Times
<1>2. ASSUME NEW b \in Bindings, NEW r \in Images(b)', r # None, r.mid # None
      PROVE  r.sync # None /\ r.sync <= clock'
  <2>1. r \in Images(b) /\ r.sync # None /\ r.sync <= clock
    BY <1>1, <1>2 DEF Stamps
  <2>2. r.sync \in Int
    BY <1>1, <1>2, <2>1, ImageType, RowType DEF Times
  <2> QED BY <1>1, <2>1, <2>2
<1> QED BY <1>2 DEF Stamps

LEMMA QuietKept ==
    ASSUME LostInv, SyncInv', UNCHANGED <<rows, work>>,
           clock <= clock', overtaken \subseteq overtaken',
           \A w \in Workers : \A m \in MagentoIds :
               work[w] # None /\ Deals(work[w], m) => SameRecord(m, magento, magento', overtaken')
    PROVE  Kept'
<1>1. Stamps'
  BY SameImages, LaterStamps
<1>2. OneBinding'
  BY SameImages DEF OneBinding, LostInv, Kept
<1>3. Apart'
  BY DEF Apart, LostInv, Kept
<1>4. ASSUME NEW w \in Workers, work[w] # None PROVE Local(work[w], rows, magento', overtaken')
  <2>1. Fine(work[w]) /\ Local(work[w], rows, magento, overtaken)
    BY <1>4, BusyWork DEF LostInv, Kept, Locals
  <2> QED BY <1>4, <2>1, LocalStays
<1>5. Locals'
  BY <1>4 DEF Locals
<1> QED BY <1>1, <1>2, <1>3, <1>5 DEF Kept

\* A batch will look for the record.
Dated(m) ==
    \/ magento[m].updated >= fromDate
    \/ \E j \in queue : j.kind = "batch" /\ magento[m].updated \in j.from .. j.to

LEMMA QuietTold ==
    ASSUME LostInv, SyncInv', UNCHANGED <<rows, work>>,
           failed \subseteq failed', overtaken \subseteq overtaken',
           \A m \in MagentoIds : magento'[m] \in {magento[m], Gone},
           \A j \in queue : j.kind = "import" => j \in queue',
           \A b \in Bindings : \A m \in MagentoIds :
               Exists(m) /\ magento'[m] = magento[m] /\ Dated(m) => Listed(b, m)'
    PROVE  Told'
<1>1. \A m, force : ImportJob(m, force).kind = "import"
  BY DEF ImportJob
<1>2. ASSUME NEW b \in Bindings, NEW m \in MagentoIds, magento'[m] = magento[m], NEW force,
             Imports(b, m, force)
      PROVE  Imports(b, m, force)'
  <2>1. PICK w \in Busy : Carries(work[w], b, m, force, magento)
    BY <1>2 DEF Imports
  <2>2. w \in Busy' /\ Carries(work'[w], b, m, force, magento')
    BY <1>2, <2>1 DEF Busy, Carries, Wrote
  <2> QED BY <2>2 DEF Imports
<1>3. Covered
  <2> SUFFICES ASSUME NEW b \in Bindings, NEW r \in Images(b)', NEW m \in MagentoIds, Behind(m, r)'
               PROVE  StillTold(b, r, m)
    BY DEF Covered
  <2>1. r \in Images(b)
    BY SameImages
  <2>2. Exists(m) /\ magento'[m] = magento[m] /\ Behind(m, r)
    BY SyncAssumption DEF Behind, Exists
  <2>3. Forced(b, m) => Forced(b, m)'
    BY <1>1, <1>2, <2>2 DEF Forced
  <2>4. Listed(b, m) => Listed(b, m)'
    BY <1>1, <1>2, <2>2 DEF Listed, Dated
  <2> QED BY <2>1, <2>2, <2>3, <2>4 DEF StillTold
<1>4. ExportsCovered
  BY DEF ExportsCovered, FrameKept, Busy
<1> QED BY <1>3, <1>4, ToldStep DEF LostInv

LEMMA QuietLost ==
    ASSUME LostInv, SyncInv', Dates', UNCHANGED <<rows, work>>, clock <= clock',
           failed \subseteq failed', overtaken \subseteq overtaken',
           \A m \in MagentoIds : magento'[m] \in {magento[m], Gone},
           \A j \in queue : j.kind = "import" => j \in queue',
           \A b \in Bindings : \A m \in MagentoIds :
               Exists(m) /\ magento'[m] = magento[m] /\ Dated(m) => Listed(b, m)'
    PROVE  LostInv'
<1>1. \A m \in MagentoIds : SameRecord(m, magento, magento', overtaken')
  BY DEF SameRecord
<1>2. Kept'
  BY <1>1, QuietKept
<1>3. Told'
  BY QuietTold
<1> QED BY <1>2, <1>3 DEF LostInv

\* The clock and the dates are numbers.
LEMMA DateTypes ==
    ASSUME SyncTypeOK
    PROVE  /\ clock \in Int /\ fromDate \in Int /\ Buffer \in Nat
           /\ \A m \in MagentoIds : /\ Exists(m) => magento[m].updated \in Int
                                    /\ opened[m] # None => opened[m] \in Int
<1>1. \A m \in MagentoIds : Exists(m) => magento[m].updated \in Times
  BY Existing
<1> QED BY <1>1, SyncAssumption DEF SyncTypeOK, Times

LEMMA ImportFromDateLost ==
    ASSUME LostInv, ImportFromDate PROVE LostInv'
<1>1. /\ queue' = queue \cup {BatchJob(fromDate, clock)} /\ fromDate' = clock - Buffer
      /\ UNCHANGED <<clock, magento, opened, rows, failed, work, overtaken>>
  BY DEF ImportFromDate
<1>2. SyncInv' /\ SyncTypeOK /\ Dates
  BY ImportFromDateKeeps DEF LostInv, SyncInv
<1>3. Dates'
  BY <1>1, <1>2, DateTypes DEF Dates, Exists
<1>4. ASSUME NEW b \in Bindings, NEW m \in MagentoIds, Exists(m), Dated(m) PROVE Listed(b, m)'
  <2>1. CASE magento[m].updated >= fromDate
    <3>1. magento[m].updated \in fromDate .. clock
      BY <1>2, <1>4, <2>1, DateTypes DEF Dates
    <3>2. /\ BatchJob(fromDate, clock).kind = "batch" /\ BatchJob(fromDate, clock).from = fromDate
          /\ BatchJob(fromDate, clock).to = clock
      BY DEF BatchJob
    <3> QED BY <1>1, <3>1, <3>2 DEF Listed
  <2>2. CASE \E j \in queue : j.kind = "batch" /\ magento[m].updated \in j.from .. j.to
    BY <1>1, <2>2 DEF Listed
  <2> QED BY <1>4, <2>1, <2>2 DEF Dated
<1> QED BY <1>1, <1>2, <1>3, <1>4, DateTypes, QuietLost

LEMMA RunBatchLost ==
    ASSUME LostInv, NEW j \in queue, RunBatch(j) PROVE LostInv'
<1> DEFINE found == {m \in MagentoIds : Exists(m) /\ magento[m].updated \in j.from .. j.to}
<1>1. /\ queue' = (queue \ {j}) \cup {ImportJob(m, FALSE) : m \in found} /\ j.kind = "batch"
      /\ UNCHANGED <<clock, magento, opened, rows, fromDate, failed, work, left, overtaken>>
  BY DEF RunBatch
<1>2. SyncInv' /\ SyncTypeOK /\ Dates
  BY RunBatchKeeps DEF LostInv, SyncInv
<1>3. Dates'
  BY <1>1, <1>2 DEF Dates, Exists
<1>4. ASSUME NEW b \in Bindings, NEW m \in MagentoIds, Exists(m), Dated(m) PROVE Listed(b, m)'
  <2>1. CASE magento[m].updated \in j.from .. j.to
    <3>1. ImportJob(m, FALSE) \in queue'
      BY <1>1, <1>4, <2>1
    <3> QED BY <3>1 DEF Listed
  <2>2. CASE magento[m].updated \notin j.from .. j.to
    BY <1>1, <1>4, <2>2 DEF Listed, Dated
  <2> QED BY <2>1, <2>2
<1>5. \A i \in queue : i.kind = "import" => i \in queue'
  BY <1>1
<1>6. /\ clock <= clock' /\ failed \subseteq failed' /\ overtaken \subseteq overtaken'
      /\ \A m \in MagentoIds : magento'[m] \in {magento[m], Gone}
      /\ UNCHANGED <<rows, work>>
  BY <1>1, <1>2, DateTypes
<1> QED BY <1>2, <1>3, <1>4, <1>5, <1>6, QuietLost

LEMMA DelayExportLost ==
    ASSUME LostInv, NEW b \in Bindings, DelayExport(b) PROVE LostInv'
<1>1. /\ queue \subseteq queue'
      /\ UNCHANGED <<clock, magento, opened, rows, fromDate, failed, work, overtaken>>
  BY DEF DelayExport
<1>2. SyncInv' /\ SyncTypeOK /\ Dates
  BY DelayExportKeeps DEF LostInv, SyncInv
<1>3. Dates'
  BY <1>1, <1>2 DEF Dates, Exists
<1>4. \A c, m : Dated(m) => Listed(c, m)'
  BY <1>1 DEF Listed, Dated
<1> QED BY <1>1, <1>2, <1>3, <1>4, DateTypes, QuietLost

LEMMA ExportDeleteLost ==
    ASSUME LostInv, NEW j \in queue, ExportDelete(j) PROVE LostInv'
<1>1. /\ j.kind = "delete" /\ queue' = queue \ {j}
      /\ magento' = [magento EXCEPT ![j.of] = Gone] /\ opened' = [opened EXCEPT ![j.of] = None]
      /\ UNCHANGED <<clock, rows, fromDate, failed, work, left, overtaken>>
  BY DEF ExportDelete
<1>2. SyncInv' /\ SyncTypeOK /\ Dates
  BY ExportDeleteKeeps DEF LostInv, SyncInv
<1>3. \A m \in MagentoIds : magento'[m] \in {magento[m], Gone} /\ opened'[m] \in {opened[m], None}
  BY <1>1, <1>2 DEF SyncTypeOK
<1>4. Dates'
  BY <1>1, <1>2, <1>3 DEF Dates, Exists
<1>5. \A c \in Bindings : \A m \in MagentoIds :
         magento'[m] = magento[m] /\ Dated(m) => Listed(c, m)'
  BY <1>1 DEF Listed, Dated
<1>6. \A i \in queue : i.kind = "import" => i \in queue'
  BY <1>1
<1>7. /\ clock <= clock' /\ failed \subseteq failed' /\ overtaken \subseteq overtaken'
      /\ UNCHANGED <<rows, work>>
  BY <1>1, <1>2, DateTypes
<1>8. \A m \in MagentoIds : magento'[m] \in {magento[m], Gone}
  BY <1>3
<1> QED BY <1>2, <1>4, <1>5, <1>6, <1>7, <1>8, QuietLost

LEMMA MagentoBeginLost ==
    ASSUME LostInv, NEW m \in MagentoIds, MagentoBegin(m) PROVE LostInv'
<1>1. /\ opened' = [opened EXCEPT ![m] = clock]
      /\ UNCHANGED <<clock, magento, rows, fromDate, queue, failed, work, overtaken>>
  BY DEF MagentoBegin
<1>2. SyncInv' /\ SyncTypeOK /\ Dates
  BY MagentoKeeps DEF LostInv, SyncInv
<1>3. \A n \in MagentoIds : opened'[n] = IF n = m THEN clock ELSE opened[n]
  BY <1>1, <1>2 DEF SyncTypeOK
<1>4. Dates'
  BY <1>1, <1>2, <1>3, DateTypes DEF Dates, Exists
<1>5. \A c, n : Dated(n) => Listed(c, n)'
  BY <1>1 DEF Listed, Dated
<1> QED BY <1>1, <1>2, <1>4, <1>5, DateTypes, QuietLost

LEMMA MagentoRemoveLost ==
    ASSUME LostInv, NEW m \in MagentoIds, MagentoRemove(m) PROVE LostInv'
<1>1. /\ magento' = [magento EXCEPT ![m] = Gone]
      /\ UNCHANGED <<clock, opened, rows, fromDate, queue, failed, work, overtaken>>
  BY DEF MagentoRemove
<1>2. SyncInv' /\ SyncTypeOK /\ Dates
  BY MagentoKeeps DEF LostInv, SyncInv
<1>3. \A n \in MagentoIds : magento'[n] \in {magento[n], Gone}
  BY <1>1, <1>2 DEF SyncTypeOK
<1>4. Dates'
  BY <1>1, <1>2, <1>3 DEF Dates, Exists
<1>5. \A c \in Bindings : \A n \in MagentoIds :
         magento'[n] = magento[n] /\ Dated(n) => Listed(c, n)'
  BY <1>1 DEF Listed, Dated
<1> QED BY <1>1, <1>2, <1>3, <1>4, <1>5, DateTypes, QuietLost

LEMMA TickLost ==
    ASSUME LostInv, Tick PROVE LostInv'
<1>1. /\ clock' = clock + 1
      /\ \A m \in MagentoIds : opened[m] # None => clock - opened[m] < Buffer
      /\ UNCHANGED <<magento, opened, rows, fromDate, queue, failed, work, overtaken>>
  BY DEF Tick
<1>2. SyncInv' /\ SyncTypeOK /\ Dates
  BY TickKeeps DEF LostInv, SyncInv
<1>3. Dates'
  BY <1>1, <1>2, DateTypes DEF Dates, Exists
<1>4. \A c, n : Dated(n) => Listed(c, n)'
  BY <1>1 DEF Listed, Dated
<1>5. clock <= clock'
  BY <1>1, <1>2, DateTypes
<1> QED BY <1>1, <1>2, <1>3, <1>4, <1>5, QuietLost

LEMMA MagentoCommitLost ==
    ASSUME LostInv, NEW m \in MagentoIds, MagentoCommit(m) PROVE LostInv'
<1>1. /\ opened[m] # None /\ opened' = [opened EXCEPT ![m] = None]
      /\ magento' = [magento EXCEPT ![m] = [version |-> @.version + 1, updated |-> opened[m]]]
      /\ overtaken' = IF \/ Stamped(rows, m)
                         \/ \E w \in Busy : AtRecord(w, m) \/ Stamped(work[w].view, m)
                      THEN overtaken \cup {m} ELSE overtaken
      /\ UNCHANGED <<clock, rows, fromDate, queue, failed, work, left>>
  BY DEF MagentoCommit
<1>2. SyncInv' /\ SyncInv /\ SyncTypeOK /\ Dates /\ Stamps /\ Told
  BY MagentoKeeps DEF LostInv, Kept, SyncInv
<1>3. /\ magento'[m].updated = opened[m] /\ opened'[m] = None
      /\ \A n \in MagentoIds : n # m => magento'[n] = magento[n] /\ opened'[n] = opened[n]
  BY <1>1, <1>2 DEF SyncTypeOK
<1>4. Dates'
  BY <1>1, <1>2, <1>3 DEF Dates, Exists
<1>5. overtaken \subseteq overtaken' /\ clock <= clock'
  BY <1>1, <1>2, DateTypes
<1>6. ASSUME NEW w \in Workers, work[w] # None, Deals(work[w], m) PROVE m \in overtaken'
  <2>1. AtRecord(w, m)
    BY <1>6 DEF Deals, AtRecord, FramesOf
  <2> QED BY <1>1, <1>6, <2>1 DEF Busy
<1>7. Kept'
  <2>1. \A w \in Workers : \A n \in MagentoIds :
           work[w] # None /\ Deals(work[w], n) => SameRecord(n, magento, magento', overtaken')
    BY <1>3, <1>6 DEF SameRecord
  <2> QED BY <1>1, <1>2, <1>5, <2>1, QuietKept
<1>8. ASSUME NEW b \in Bindings, NEW r \in Images(b), Behind(m, r)'
      PROVE  r.sync < magento'[m].updated /\ Listed(b, m)'
  <2>1. r # None /\ r.mid = m /\ m # None /\ m \notin overtaken'
    BY <1>8, SyncAssumption DEF Behind
  <2>2. r.sync # None
    BY <1>2, <2>1 DEF Stamps
  <2>3. ~(r.sync >= opened[m])
    <3>1. CASE r = rows[b]
      BY <1>1, <2>1, <2>2, <3>1 DEF Stamped, Bound
    <3>2. ASSUME NEW w \in Busy, r = work[w].view[b] PROVE ~(r.sync >= opened[m])
      BY <1>1, <2>1, <2>2, <3>2 DEF Stamped, Bound
    <3> QED BY <3>1, <3>2 DEF Images
  <2>4. r.sync \in Int
    BY <1>2, <2>1, <2>2, ImageType, RowType DEF Times
  <2>5. fromDate <= opened[m]
    BY <1>1, <1>2 DEF Dates
  <2>6. opened[m] \in Int /\ fromDate \in Int
    BY <1>1, <1>2, DateTypes
  <2>7. r.sync < opened[m] /\ opened[m] >= fromDate
    BY <2>3, <2>4, <2>5, <2>6
  <2>8. magento'[m].updated >= fromDate'
    BY <1>1, <1>3, <2>7
  <2>9. Listed(b, m)'
    BY <2>8 DEF Listed
  <2> QED BY <1>3, <2>7, <2>9
<1>9. ASSUME NEW b, NEW n \in MagentoIds, n # m
      PROVE  /\ Forced(b, n) => Forced(b, n)'
             /\ Listed(b, n) => Listed(b, n)'
             /\ \A r : Behind(n, r)' => Behind(n, r)
  <2>1. magento'[n] = magento[n]
    BY <1>3, <1>9
  <2>2. \A force : Imports(b, n, force) => Imports(b, n, force)'
    BY <1>1, <2>1 DEF Imports, Carries, Wrote, Busy
  <2>3. Forced(b, n) => Forced(b, n)'
    BY <1>1, <2>2 DEF Forced
  <2>4. Listed(b, n) => Listed(b, n)'
    BY <1>1, <2>1, <2>2 DEF Listed
  <2>5. \A r : Behind(n, r)' => Behind(n, r)
    BY <1>5, <2>1 DEF Behind, Exists
  <2> QED BY <2>3, <2>4, <2>5
<1>10. RowsTold'
  <2> SUFFICES ASSUME NEW b \in Bindings, NEW r \in Images(b)', NEW n \in MagentoIds, Behind(n, r)'
               PROVE  Forced(b, n)' \/ (r.sync < magento'[n].updated /\ Listed(b, n)')
    BY DEF RowsTold
  <2>1. r \in Images(b)
    BY <1>1, SameImages
  <2>2. CASE n = m
    BY <1>8, <2>1, <2>2
  <2>3. CASE n # m
    BY <1>2, <1>3, <1>9, <2>1, <2>3 DEF Told, RowsTold
  <2> QED BY <2>2, <2>3
<1>11. ExportsTold'
  <2> SUFFICES ASSUME NEW w \in Workers, work[w] # None, work[w].job.kind = "export",
                      NEW f \in FramesOf(work[w].stack), f.step # "read", f.link # None,
                      NEW r \in Images(f.of)', Behind(f.link, r)'
               PROVE  Forced(f.of, f.link)' \/ Owes(r, f.link, work[w].delayed)'
    BY <1>1 DEF ExportsTold, ExportTold, Busy
  <2>1. f.link \in MagentoIds
    BY <1>2, BusyWork, FramesFine
  <2>2. f.link # m
    <3>1. Deals(work[w], f.link)
      BY DEF Deals
    <3> QED BY <1>6, <3>1 DEF Behind
  <2>3. r \in Images(f.of) /\ Behind(f.link, r)
    BY <1>1, <1>9, <2>1, <2>2, SameImages
  <2>4. ExportTold(f, work[w].delayed)
    BY <1>2 DEF Told, ExportsTold, Busy
  <2>5. Forced(f.of, f.link) \/ Owes(r, f.link, work[w].delayed)
    BY <2>3, <2>4 DEF ExportTold
  <2>6. Owes(r, f.link, work[w].delayed) => Owes(r, f.link, work[w].delayed)'
    BY <1>1, <1>3, <2>1, <2>2 DEF Owes
  <2> QED BY <1>9, <2>1, <2>2, <2>5, <2>6
<1> QED BY <1>2, <1>4, <1>7, <1>10, <1>11 DEF LostInv, Told

LEMMA DelayUnlinkLost ==
    ASSUME LostInv, NEW b \in Bindings, DelayUnlink(b) PROVE LostInv'
<1>1. /\ rows' = [rows EXCEPT ![b] = None] /\ queue \subseteq queue'
      /\ \A w \in Busy : b \notin work[w].wrote \cup work[w].rowLocks
      /\ UNCHANGED <<clock, magento, opened, fromDate, failed, work, overtaken>>
  BY DEF DelayUnlink
<1>2. SyncInv' /\ SyncInv /\ SyncTypeOK /\ Dates /\ Told
  BY DelayUnlinkKeeps DEF LostInv, SyncInv
<1>3. \A c \in Bindings : rows'[c] = IF c = b THEN None ELSE rows[c]
  BY <1>1, <1>2 DEF SyncTypeOK
<1>4. ASSUME NEW c \in Bindings PROVE Images(c)' \subseteq Images(c) \cup {None}
  BY <1>1, <1>3 DEF Images, Busy
<1>5. Dates'
  BY <1>1, <1>2 DEF Dates, Exists
<1>6. Stamps'
  BY <1>1, <1>2, <1>4, DateTypes, LaterStamps
<1>7. OneBinding'
  BY <1>4 DEF OneBinding, LostInv, Kept
<1>8. Apart'
  BY <1>1 DEF Apart, LostInv, Kept
<1>9. ASSUME NEW w \in Workers, work[w] # None PROVE Local(work[w], rows', magento, overtaken)
  <2>1. Fine(work[w]) /\ Local(work[w], rows, magento, overtaken)
    BY <1>2, <1>9, BusyWork DEF LostInv, Kept, Locals
  <2>2. \A c \in work[w].wrote \cup work[w].rowLocks : rows'[c] = rows[c]
    BY <1>1, <1>3, <1>9, <2>1 DEF Busy, Fine, Works
  <2>3. \A f \in FramesOf(work[w].stack) :
           work[w].job.kind = "export" => rows'[f.of] \in {rows[f.of], None}
    BY <1>3, <2>1, FramesFine
  <2>4. \A m : SameRecord(m, magento, magento, overtaken)
    BY DEF SameRecord
  <2> QED BY <2>1, <2>2, <2>3, <2>4, LocalStays
<1>10. Locals'
  BY <1>1, <1>9 DEF Locals
<1>11. \A c, m : /\ Forced(c, m) => Forced(c, m)'
                 /\ Listed(c, m) => Listed(c, m)'
  <2> SUFFICES ASSUME NEW c, NEW m
               PROVE  /\ Forced(c, m) => Forced(c, m)'
                      /\ Listed(c, m) => Listed(c, m)'
    OBVIOUS
  <2>1. \A force : Imports(c, m, force) => Imports(c, m, force)'
    BY <1>1 DEF Imports, Carries, Wrote, Busy
  <2>2. Forced(c, m) => Forced(c, m)'
    BY <1>1, <2>1 DEF Forced
  <2>3. Listed(c, m) => Listed(c, m)'
    BY <1>1, <2>1 DEF Listed
  <2> QED BY <2>2, <2>3
<1>12. Covered
  <2> SUFFICES ASSUME NEW c \in Bindings, NEW r \in Images(c)', NEW m \in MagentoIds, Behind(m, r)'
               PROVE  StillTold(c, r, m)
    BY DEF Covered
  <2>1. Behind(m, r) /\ r \in Images(c)
    BY <1>1, <1>4 DEF Behind, Exists
  <2> QED BY <1>1, <1>11, <2>1 DEF StillTold
<1>13. ExportsCovered
  BY <1>1 DEF ExportsCovered, FrameKept, Busy
<1>14. Told'
  BY <1>2, <1>12, <1>13, ToldStep
<1> QED BY <1>2, <1>5, <1>6, <1>7, <1>8, <1>10, <1>14 DEF LostInv, Kept

-----------------------------------------------------------------------------
(* The ends of jobs                                                        *)

LEMMA CrashLost ==
    ASSUME LostInv, NEW w \in Workers, Crash(w) PROVE LostInv'
<1>1. SyncInv'
  BY CrashKeeps DEF LostInv
<1> QED BY <1>1, RollsBack DEF Crash

LEMMA FinishLost ==
    ASSUME LostInv, NEW w \in Workers, Finish(w) PROVE LostInv'
<1> DEFINE t == work[w]
<1>1. /\ t # None /\ t.stack = <<>> /\ rows' = Committed(t) /\ queue' = queue \cup t.delayed
      /\ Become(w, None)
      /\ UNCHANGED <<clock, magento, opened, fromDate, failed, left, overtaken>>
  BY DEF Finish
<1>2. SyncInv' /\ SyncInv /\ SyncTypeOK /\ Dates /\ Told /\ Apart
  BY FinishKeeps DEF LostInv, Kept, SyncInv
<1>3. work'[w] = None /\ \A v \in Workers : v # w => work'[v] = work[v]
  BY <1>1, <1>2 DEF Become, SyncTypeOK
<1>4. \A c \in Bindings : rows'[c] = IF c \in t.wrote THEN t.view[c] ELSE rows[c]
  BY <1>1 DEF Committed
<1>5. Pending(t, rows) /\ t.wrote \subseteq Bindings
  <2>1. Local(t, rows, magento, overtaken) /\ Fine(t)
    BY <1>1, <1>2, BusyWork DEF LostInv, Kept, Locals
  <2> QED BY <2>1 DEF Local, Fine, Works
<1>6. ASSUME NEW v \in Workers, v # w, work[v] # None
      PROVE  t.wrote \cap (work[v].wrote \cup work[v].rowLocks) = {}
  BY <1>1, <1>2, <1>6 DEF Apart
<1>7. ASSUME NEW c \in Bindings, NEW r \in Images(c)'
      PROVE  r \in Images(c) /\ (c \in t.wrote => r = t.view[c])
  <2>1. CASE r = rows'[c]
    BY <1>1, <1>4, <2>1 DEF Images, Busy
  <2>2. ASSUME NEW v \in Workers, work'[v] # None, c \in work'[v].wrote, r = work'[v].view[c]
        PROVE  r \in Images(c) /\ c \notin t.wrote
    <3>1. v # w /\ work'[v] = work[v]
      BY <1>3, <2>2
    <3> QED BY <1>6, <2>2, <3>1 DEF Images, Busy
  <2> QED BY <2>1, <2>2 DEF Images, Busy
<1>8. Dates'
  BY <1>1, <1>2 DEF Dates, Exists
<1>9. Stamps'
  BY <1>1, <1>2, <1>7, DateTypes, LaterStamps
<1>10. OneBinding'
  BY <1>7 DEF OneBinding, LostInv, Kept
<1>11. Apart'
  BY <1>2, <1>3 DEF Apart
<1>12. ASSUME NEW v \in Workers, work'[v] # None PROVE Local(work'[v], rows', magento, overtaken)
  <2>1. v # w /\ work'[v] = work[v]
    BY <1>3, <1>12
  <2>2. Fine(work[v]) /\ Local(work[v], rows, magento, overtaken)
    BY <1>2, <1>12, <2>1, BusyWork DEF LostInv, Kept, Locals
  <2>3. \A c \in work[v].wrote \cup work[v].rowLocks : rows'[c] = rows[c]
    BY <1>4, <1>6, <1>12, <2>1, <2>2 DEF Fine, Works
  <2>4. \A f \in FramesOf(work[v].stack) : work[v].job.kind = "export" =>
           rows'[f.of] \in {rows[f.of], None} \/ rows'[f.of].mid # None
    BY <1>4, <1>5, <2>2, FramesFine DEF Pending
  <2>5. \A m : SameRecord(m, magento, magento, overtaken)
    BY DEF SameRecord
  <2>6. Local(work[v], rows', magento, overtaken)
    BY <2>2, <2>3, <2>4, <2>5, LocalStays
  <2> QED BY <2>1, <2>6
<1>13. Locals'
  BY <1>1, <1>12 DEF Locals
<1>14. ASSUME NEW c \in Bindings, NEW r \in Images(c)', NEW m \in MagentoIds, Behind(m, r),
              NEW force, Imports(c, m, force)
       PROVE  Imports(c, m, force)'
  <2>1. PICK v \in Busy : Carries(work[v], c, m, force, magento)
    BY <1>14 DEF Imports
  <2>2. CASE v = w
    <3>1. ~Reads(t, m)
      BY <1>1 DEF Reads, FramesOf
    <3>2. c \in t.wrote /\ t.view[c].version = magento[m].version
      BY <2>1, <2>2, <3>1 DEF Carries, Wrote
    <3>3. r.version = magento[m].version /\ r.version < magento[m].version /\ Exists(m)
      BY <1>7, <1>14, <3>2 DEF Behind
    <3>4. magento[m].version \in Nat
      BY <1>2, <3>3, Existing
    <3> QED BY <3>3, <3>4
  <2>3. CASE v # w
    <3>1. v \in Busy' /\ Carries(work'[v], c, m, force, magento')
      BY <1>1, <1>3, <2>1, <2>3 DEF Busy
    <3> QED BY <3>1 DEF Imports
  <2> QED BY <2>2, <2>3
<1>15. Covered
  <2> SUFFICES ASSUME NEW c \in Bindings, NEW r \in Images(c)', NEW m \in MagentoIds, Behind(m, r)'
               PROVE  StillTold(c, r, m)
    BY DEF Covered
  <2>1. Behind(m, r) /\ r \in Images(c)
    BY <1>1, <1>7 DEF Behind, Exists
  <2>2. Forced(c, m) => Forced(c, m)'
    BY <1>1, <1>14, <2>1 DEF Forced
  <2>3. Listed(c, m) => Listed(c, m)'
    BY <1>1, <1>14, <2>1 DEF Listed
  <2> QED BY <1>1, <2>1, <2>2, <2>3 DEF StillTold
<1>16. ExportsCovered
  BY <1>3 DEF ExportsCovered, FrameKept, Busy
<1>17. Told'
  BY <1>2, <1>15, <1>16, ToldStep
<1> QED BY <1>2, <1>8, <1>9, <1>10, <1>11, <1>13, <1>17 DEF LostInv, Kept

-----------------------------------------------------------------------------
(* What an export sends                                                    *)

\* The record that an export writes keeps its version; one that it creates
\* has none.
Sends(link, m, version) ==
    \/ m = link /\ Exists(m) /\ version = magento[m].version
    \/ link = None /\ magento[m] = None /\ version = 0

LEMMA ExportSent ==
    ASSUME LostInv, SyncInv', NEW w \in Workers, At(w, "export", "send"),
           NEW m \in MagentoIds, NEW version \in Nat, Sends(Top(w).link, m, version),
           magento' = [magento EXCEPT ![m] = [version |-> version, updated |-> clock]],
           NEW g \in Frames, g.of = Top(w).of, g.link = m, g.step = "bind",
           Become(w, Goto(w, g)),
           UNCHANGED <<clock, opened, rows, fromDate, queue, failed, left, overtaken>>
    PROVE  LostInv'
<1> DEFINE t == work[w]
           f == Top(w)
           u == Goto(w, g)
<1>1. /\ SyncInv /\ SyncTypeOK /\ Dates /\ Told /\ Apart
      /\ Local(t, rows, magento, overtaken) /\ f \in FramesOf(t.stack) /\ f.step = "send"
  BY AtLocal DEF LostInv, Kept
<1>2. t # None /\ Fine(t) /\ t.job.kind = "export"
  BY <1>1, AtTop
<1>3. /\ u.job = t.job /\ u.wrote = t.wrote /\ u.view = t.view
      /\ u.snap = t.snap /\ u.rowLocks = t.rowLocks /\ u.delayed = t.delayed
      /\ FramesOf(u.stack) \subseteq {g} \cup FramesOf(t.stack)
      /\ \A h \in FramesOf(t.stack) : \E i \in FramesOf(u.stack) : i.of = h.of
  BY <1>1, GotoMoves
<1> HIDE DEF u
<1>4. t.wrote = {} /\ Seen(t, rows)
  BY <1>1, <1>2 DEF Local, Seen
<1>5. work'[w] = u /\ \A v \in Workers : v # w => work'[v] = work[v]
  BY <1>1 DEF u, Become, SyncTypeOK
<1>6. /\ magento'[m] = [version |-> version, updated |-> clock]
      /\ magento'[m] \notin {None, Gone} /\ \A n \in MagentoIds : n # m => magento'[n] = magento[n]
  <2>1. magento'[m] = [version |-> version, updated |-> clock]
        /\ \A n \in MagentoIds : n # m => magento'[n] = magento[n]
    BY <1>1 DEF SyncTypeOK
  <2>2. [version |-> version, updated |-> clock] \notin {None, Gone}
    <3>1. [version |-> version, updated |-> clock] \in [version : Nat, updated : Times]
      BY <1>1 DEF SyncTypeOK
    <3> QED BY <3>1, SyncAssumption
  <2> QED BY <2>1, <2>2
<1>7. /\ magento'[m].version = version /\ magento'[m].updated = clock
      /\ \A n \in MagentoIds : SameRecord(n, magento, magento', overtaken)
  <2>1. magento'[m].version = version /\ magento'[m].updated = clock
    BY <1>6
  <2>2. ASSUME NEW n \in MagentoIds PROVE SameRecord(n, magento, magento', overtaken)
    <3>1. CASE n = m
      BY <1>6, <2>1, <3>1 DEF Sends, SameRecord, Exists
    <3>2. CASE n # m
      BY <1>6, <3>2 DEF SameRecord
    <3> QED BY <3>1, <3>2
  <2> QED BY <2>1, <2>2
<1>8. \A b : Images(b)' = Images(b)
  BY <1>2, <1>3, <1>4, <1>5 DEF Images, Busy
<1>9. Dates'
  BY <1>1, <1>6, <1>7, DateTypes DEF Dates, Exists
<1>10. Stamps'
  BY <1>1, <1>8, DateTypes, LaterStamps
<1>11. OneBinding'
  BY <1>8 DEF OneBinding, LostInv, Kept
<1>12. Apart'
  BY <1>1, <1>2, <1>3, <1>5 DEF Apart
<1>13. ASSUME NEW v \in Workers, work[v] # None PROVE Local(work[v], rows, magento', overtaken)
  <2>1. Fine(work[v]) /\ Local(work[v], rows, magento, overtaken)
    BY <1>1, <1>13, BusyWork DEF LostInv, Kept, Locals
  <2>2. PICK shop : shop = magento'
    OBVIOUS
  <2>3. \A n \in MagentoIds : SameRecord(n, magento, shop, overtaken)
    BY <1>7, <2>2
  <2>4. Local(work[v], rows, shop, overtaken)
    BY <2>1, <2>3, LocalStays
  <2> QED BY <2>2, <2>4
<1>14. Local(u, rows, magento', overtaken)
  <2>1. Local(t, rows, magento', overtaken)
    BY <1>2, <1>13
  <2>2. Pending(u, rows) /\ Seen(u, rows)
    BY <1>2, <1>3, <1>4 DEF Pending, Seen
  <2>3. ASSUME NEW h \in FramesOf(t.stack) PROVE ExportSeen(u, h, rows, magento', overtaken)
    BY <1>2, <1>3, <2>1 DEF Local, ExportSeen
  <2>4. ExportSeen(u, g, rows, magento', overtaken)
    <3>1. CASE m = f.link
      BY <1>1, <2>3, <3>1 DEF ExportSeen
    <3>2. CASE version = 0
      BY <1>7, <3>2 DEF ExportSeen
    <3> QED BY <3>1, <3>2 DEF Sends
  <2> QED BY <1>2, <1>3, <2>2, <2>3, <2>4 DEF Local
<1>15. Locals'
  BY <1>5, <1>13, <1>14 DEF Locals
<1>16. ASSUME NEW b \in Bindings, NEW r \in Images(b), NEW n \in MagentoIds, Behind(n, r)'
       PROVE  /\ Exists(n) /\ magento'[n].version = magento[n].version /\ Behind(n, r)
              /\ n = m => m = f.link
  <2>1. CASE n = m
    <3>1. r # None /\ r.version < version
      BY <1>7, <1>16, <2>1 DEF Behind
    <3>2. r.version \in Nat
      BY <1>1, <3>1, ImageType, RowType
    <3>3. m = f.link /\ Exists(m) /\ version = magento[m].version
      BY <3>1, <3>2 DEF Sends
    <3> QED BY <1>7, <1>16, <2>1, <3>3 DEF Behind
  <2>2. CASE n # m
    BY <1>6, <1>16, <2>2 DEF Behind, Exists
  <2> QED BY <2>1, <2>2
<1>17. ASSUME NEW b, NEW n, NEW force, magento'[n].version = magento[n].version,
              Imports(b, n, force)
       PROVE  Imports(b, n, force)'
  <2>1. PICK v \in Busy : Carries(work[v], b, n, force, magento)
    BY <1>17 DEF Imports
  <2>2. v # w
    <3>1. ImportJob(n, force).kind = "import"
      BY DEF ImportJob
    <3> QED BY <1>2, <2>1, <3>1 DEF Carries
  <2>3. v \in Busy' /\ Carries(work'[v], b, n, force, magento')
    BY <1>5, <1>17, <2>1, <2>2 DEF Busy, Carries, Wrote
  <2> QED BY <2>3 DEF Imports
<1>18. Covered
  <2> SUFFICES ASSUME NEW b \in Bindings, NEW r \in Images(b)', NEW n \in MagentoIds, Behind(n, r)'
               PROVE  StillTold(b, r, n)
    BY DEF Covered
  <2>1. r \in Images(b)
    BY <1>8
  <2>2. Exists(n) /\ magento'[n].version = magento[n].version /\ Behind(n, r)
    BY <1>16, <2>1
  <2>3. Forced(b, n) => Forced(b, n)'
    BY <1>17, <2>2 DEF Forced
  <2>4. ASSUME r.sync < magento[n].updated
        PROVE  r.sync < magento'[n].updated /\ (Listed(b, n) => Listed(b, n)')
    <3>1. CASE n # m
      BY <1>6, <1>17, <2>2, <2>4, <3>1 DEF Listed
    <3>2. CASE n = m
      <4>1. r # None /\ r.mid # None /\ r \in Rows
        BY <1>1, <2>1, <2>2, ImageType, SyncAssumption DEF Behind
      <4>2. r.sync \in Int
        BY <2>1, <4>1, RowType DEF LostInv, Kept, Stamps, Times
      <4>3. magento'[n].updated = clock /\ magento[n].updated <= clock /\ fromDate <= clock
        BY <1>1, <1>7, <2>2, <3>2 DEF Dates
      <4>4. clock \in Int /\ fromDate \in Int /\ magento[n].updated \in Int
        BY <1>1, <2>2, DateTypes
      <4>5. r.sync < magento'[n].updated /\ magento'[n].updated >= fromDate'
        BY <2>4, <4>2, <4>3, <4>4
      <4> QED BY <4>5 DEF Listed
    <3> QED BY <3>1, <3>2
  <2> QED BY <2>1, <2>2, <2>3, <2>4 DEF StillTold
<1>19. ExportsCovered
  <2> SUFFICES ASSUME NEW v \in Workers, work'[v] # None, work'[v].job.kind = "export",
                      NEW h \in FramesOf(work'[v].stack), h.step # "read", h.link # None
               PROVE  FrameKept(v, h) \/ \A r \in Images(h.of)' : ~Behind(h.link, r)'
    BY DEF ExportsCovered, Busy
  <2>1. CASE v # w
    BY <1>5, <2>1 DEF FrameKept, Busy
  <2>2. CASE v = w /\ h \in FramesOf(t.stack)
    BY <1>2, <1>3, <1>5, <2>2 DEF FrameKept, Busy
  <2>3. CASE v = w /\ h = g /\ m = f.link
    BY <1>1, <1>2, <1>3, <1>5, <2>3 DEF FrameKept, Busy
  <2>4. CASE v = w /\ h = g /\ m # f.link
    <3>1. f.of \in Bindings
      BY <1>1, <1>2, FramesFine
    <3> QED BY <1>8, <1>16, <2>4, <3>1
  <2> QED BY <1>3, <1>5, <2>1, <2>2, <2>3, <2>4
<1>20. Told'
  BY <1>1, <1>18, <1>19, ToldStep
<1> QED BY <1>9, <1>10, <1>11, <1>12, <1>15, <1>20 DEF LostInv, Kept

LEMMA ExportSendLost ==
    ASSUME LostInv, NEW w \in Workers, ExportSend(w) PROVE LostInv'
<1> DEFINE t == work[w]
           f == Top(w)
           g(m) == [f EXCEPT !.link = m, !.step = "bind"]
<1>1. SyncInv' /\ SyncInv /\ SyncTypeOK /\ At(w, "export", "send")
  BY ExportSendKeeps DEF LostInv, SyncInv, ExportSend
<1>2. /\ t # None /\ t.job.kind = "export" /\ f \in Frames
      /\ f.link \in MagentoIds \cup {None}
  BY <1>1, AtTop DEF ExportFrame
<1>3. f \in FramesOf(t.stack) /\ f.step = "send"
  BY <1>1, AtLocal
<1>4. \/ Fail(w)
      \/ \E m \in MagentoIds, version \in Nat :
            /\ Sends(f.link, m, version)
            /\ magento' = [magento EXCEPT ![m] = [version |-> version, updated |-> clock]]
            /\ Become(w, Goto(w, g(m)))
            /\ UNCHANGED <<clock, opened, rows, fromDate, queue, failed, left, overtaken>>
      \/ /\ Become(w, Goto(w, Step(f, "bind")))
         /\ UNCHANGED <<clock, magento, opened, rows, fromDate, queue, failed, left, overtaken>>
  <2>1. Unused # {} =>
           /\ (CHOOSE m \in Unused : TRUE) \in MagentoIds
           /\ magento[CHOOSE m \in Unused : TRUE] = None
    BY DEF Unused
  <2>2. \A m \in MagentoIds : Exists(m) => magento[m].version \in Nat
    BY <1>1, Existing
  <2> QED BY <1>1, <1>2, <2>1, <2>2 DEF ExportSend, Sends
<1>5. CASE Fail(w)
  BY <1>2, <1>5, RollsBackJob
<1>6. ASSUME NEW m \in MagentoIds, NEW version \in Nat, Sends(f.link, m, version),
             magento' = [magento EXCEPT ![m] = [version |-> version, updated |-> clock]],
             Become(w, Goto(w, g(m))),
             UNCHANGED <<clock, opened, rows, fromDate, queue, failed, left, overtaken>>
      PROVE  LostInv'
  <2>1. g(m) \in Frames /\ g(m).of = f.of /\ g(m).step = "bind" /\ g(m).link = m
    BY <1>2 DEF Frames
  <2>2. PICK h \in Frames : h = g(m)
    BY <2>1
  <2> HIDE DEF g
  <2> QED BY <1>1, <1>6, <2>1, <2>2, ExportSent
<1>7. CASE /\ Become(w, Goto(w, Step(f, "bind")))
           /\ UNCHANGED <<clock, magento, opened, rows, fromDate, queue, failed, left, overtaken>>
  <2> DEFINE h == Step(f, "bind")
             u == Goto(w, h)
  <2>1. h \in Frames /\ h.of = f.of /\ h.step = "bind" /\ h.link = f.link
    BY <1>2, StepType
  <2> HIDE DEF h
  <2>2. /\ u.job = t.job /\ u.wrote = t.wrote /\ u.view = t.view /\ u.snap = t.snap
        /\ u.rowLocks = t.rowLocks /\ u.delayed = t.delayed
        /\ FramesOf(u.stack) \subseteq {h} \cup FramesOf(t.stack)
        /\ \A k \in FramesOf(t.stack) : \E i \in FramesOf(u.stack) : i.of = k.of
    BY <1>1, <2>1, GotoMoves
  <2>3. Become(w, u)
    BY <1>7 DEF h
  <2> HIDE DEF u
  <2>4. \A k \in FramesOf(u.stack) : FrameMoved(t, k)
    BY <1>3, <2>1, <2>2 DEF FrameMoved
  <2> QED BY <1>1, <1>2, <1>7, <2>2, <2>3, <2>4, ExportMoves
<1> HIDE DEF g
<1> QED BY <1>4, <1>5, <1>6, <1>7

-----------------------------------------------------------------------------
(* No change is lost                                                       *)

LEMMA LostInit == ASSUME Init PROVE LostInv
<1>1. SyncInv /\ SyncTypeOK
  BY SyncInit DEF SyncInv
<1>2. /\ clock = 1 /\ fromDate = 1 /\ Busy = {} /\ \A w \in Workers : work[w] = None
      /\ \A m \in MagentoIds :
            /\ opened[m] = None
            /\ magento[m] = IF m \in Shop THEN [version |-> 1, updated |-> 0] ELSE None
  BY DEF Init, Busy
<1>3. ASSUME NEW b \in Bindings, NEW r \in Images(b), r # None, r.mid # None
      PROVE  /\ b \in Bindings \ Products /\ r.mid = Linked[b] /\ r.version = 1 /\ r.sync = 0
             /\ r.sync # None
  <2>1. r = rows[b]
    BY <1>2 DEF Images
  <2>2. b \in Bindings \ Products /\ rows[b] = Row(Linked[b], 1, 0)
    BY <1>3, <2>1, SyncAssumption DEF Init, Row
  <2>3. 0 \in Times
    BY SyncAssumption DEF Times
  <2> QED BY <2>1, <2>2, <2>3, SyncAssumption DEF Row
<1>4. Dates
  BY <1>2, SyncAssumption DEF Dates, Exists
<1>5. Stamps
  BY <1>2, <1>3 DEF Stamps
<1>6. OneBinding
  <2> SUFFICES ASSUME NEW b \in Bindings, NEW c \in Bindings,
                      NEW r \in Images(b), NEW s \in Images(c),
                      r # None, s # None, r.mid # None, r.mid = s.mid
               PROVE  b = c
    BY DEF OneBinding
  <2>1. b \in Bindings \ Products /\ c \in Bindings \ Products /\ Linked[b] = Linked[c]
        /\ Linked[b] # None
    BY <1>3
  <2> QED BY <2>1, SyncAssumption
<1>7. Apart /\ Locals
  BY <1>2 DEF Apart, Locals
<1>8. RowsTold
  <2> SUFFICES ASSUME NEW b \in Bindings, NEW r \in Images(b), NEW m \in MagentoIds, Behind(m, r)
               PROVE  FALSE
    BY DEF RowsTold
  <2>1. r # None /\ r.mid = m /\ m # None /\ Exists(m) /\ r.version < magento[m].version
    BY SyncAssumption DEF Behind
  <2>2. r.version = 1 /\ magento[m].version = 1
    BY <1>2, <1>3, <2>1 DEF Exists
  <2> QED BY <2>1, <2>2
<1>9. ExportsTold
  BY <1>2 DEF ExportsTold
<1> QED BY <1>1, <1>4, <1>5, <1>6, <1>7, <1>8, <1>9 DEF LostInv, Kept, Told

LEMMA LostNext == ASSUME LostInv, [Next]_vars PROVE LostInv'
<1>1. ASSUME NEW w \in Workers, JobStep(w) \/ Crash(w) PROVE LostInv'
  BY <1>1, BeginImportLost, BeginExportLost, ImportDependencyLost, ImportLockLost,
     ImportWriteLost, ExportDependencyLost, ExportDependenciesLost, ExportLockLost,
     ExportSendLost, ExportBindLost, FinishLost, CrashLost DEF JobStep
<1>2. ASSUME NEW m \in MagentoIds, MagentoBegin(m) \/ MagentoCommit(m) \/ MagentoRemove(m)
      PROVE  LostInv'
  BY <1>2, MagentoBeginLost, MagentoCommitLost, MagentoRemoveLost
<1>3. CASE UNCHANGED vars
  <2>1. /\ UNCHANGED <<rows, work>> /\ clock <= clock'
        /\ UNCHANGED <<clock, magento, opened, rows, fromDate, queue, failed, work, overtaken>>
    BY <1>3, DateTypes DEF vars, LostInv, SyncInv
  <2>2. SyncInv' /\ Dates
    BY SyncNext DEF LostInv
  <2>3. Dates'
    BY <2>1, <2>2 DEF Dates, Exists
  <2>4. \A c, n : Dated(n) => Listed(c, n)'
    BY <2>1 DEF Listed, Dated
  <2> QED BY <2>1, <2>2, <2>3, <2>4, QuietLost
<1> QED BY <1>1, <1>2, <1>3, ImportFromDateLost, RunBatchLost, ExportDeleteLost, DelayExportLost,
           DelayUnlinkLost, TickLost DEF Next

LEMMA LostAlways == Spec => []LostInv
<1>1. Init => LostInv
  BY LostInit
<1>2. LostInv /\ [Next]_vars => LostInv'
  BY LostNext
<1> QED BY <1>1, <1>2, PTL DEF Spec

LEMMA NothingLost == ASSUME LostInv PROVE NoLostChange
<1>1. SyncTypeOK
  BY DEF LostInv, SyncInv
<1> SUFFICES ASSUME NEW b \in Bindings, NEW m, m = rows[b].mid,
                    rows[b] # None, m # None, Exists(m),
                    rows[b].version < magento[m].version, m \notin overtaken
             PROVE  \/ Awaited(m, TRUE) \/ Coming(b, m)
                    \/ \E force \in BOOLEAN : ImportJob(m, force) \in failed
                    \/ magento[m].updated >= rows[b].sync /\ Awaited(m, FALSE)
  BY DEF NoLostChange
<1>2. m \in MagentoIds /\ rows[b] \in Rows
  BY <1>1, RowType DEF SyncTypeOK
<1>3. Behind(m, rows[b]) /\ rows[b] \in Images(b)
  BY DEF Behind, Images
<1>4. Forced(b, m) \/ (rows[b].sync < magento[m].updated /\ Listed(b, m))
  BY <1>2, <1>3 DEF LostInv, Told, RowsTold
<1>5. ASSUME NEW force, Imports(b, m, force) PROVE Coming(b, m)
  <2>1. PICK w \in Busy : Carries(work[w], b, m, force, magento)
    BY <1>5 DEF Imports
  <2>2. work[w].job.kind = "import"
    BY <2>1 DEF Carries, ImportJob
  <2>3. CASE Wrote(work[w], b, m, magento)
    BY <2>2, <2>3 DEF Coming, Wrote
  <2>4. CASE Reads(work[w], m)
    <3>1. PICK f \in FramesOf(work[w].stack) : f.of = m /\ f.step # "read"
      BY <2>4 DEF Reads
    <3>2. ImportSeen(work[w], f, magento, overtaken)
      BY <2>2 DEF LostInv, Kept, Locals, Local, Busy
    <3>3. f.version = magento[m].version
      BY <3>1, <3>2 DEF ImportSeen, Exists
    <3> QED BY <2>2, <3>1, <3>3 DEF Coming, FramesOf
  <2> QED BY <2>1, <2>3, <2>4 DEF Carries
<1>6. ASSUME NEW force \in BOOLEAN, ImportJob(m, force) \in queue PROVE Awaited(m, force)
  BY <1>6 DEF Awaited, ImportJob
<1>7. CASE Forced(b, m)
  BY <1>5, <1>6, <1>7 DEF Forced
<1>8. CASE rows[b].sync < magento[m].updated /\ Listed(b, m)
  <2>1. Awaited(m, FALSE) \/ Coming(b, m)
    BY <1>5, <1>6, <1>8 DEF Listed, Awaited
  <2>2. rows[b].sync \in Int /\ magento[m].updated \in Int
    <3>1. rows[b].sync # None
      BY <1>3 DEF LostInv, Kept, Stamps
    <3> QED BY <1>1, <1>2, <3>1, RowType, DateTypes DEF Times
  <2>3. magento[m].updated >= rows[b].sync
    BY <1>8, <2>2
  <2> QED BY <2>1, <2>3
<1> QED BY <1>4, <1>7, <1>8

\* A record changed on Magento after it was imported always has an import to
\* come that will not skip it, or a failed job that tells the users: across the
\* batches and their buffer, the forced imports that the exports ask for, the
\* retries, the crashes and the commits of the other jobs. Only a change that
\* overtook a job at the record is excused, or one to a record that an export
\* took back (import_synchronizer.py, _is_uptodate and run;
\* export_synchronizer.py, run; magento_model.py, _import_from_date).
THEOREM NoChangeLost == Spec => []NoLostChange
<1>1. LostInv => NoLostChange
  BY NothingLost
<1> QED BY <1>1, LostAlways, PTL
=============================================================================
