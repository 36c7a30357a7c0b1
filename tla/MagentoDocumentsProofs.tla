----------------------- MODULE MagentoDocumentsProofs -----------------------
(***************************************************************************)
(* The deliveries and invoices of an order on Magento, for any number of   *)
(* backorders, invoices and jobs: what a document with lines of the order  *)
(* is bound to is its own, no two are bound to the same, and a tracking    *)
(* number is sent once.                                                    *)
(***************************************************************************)
EXTENDS MagentoDocuments, FiniteSetTheorems, SequenceTheorems, TLAPS

-----------------------------------------------------------------------------
(* The inductive invariant                                                 *)

DocRows == [state : {"draft", "done", "open", "paid"},
            method : {"none", "partial", "complete", "bound"}, bound : Nat, ref : Nat,
            lines : BOOLEAN]
RemoteRows == [kind : {"shipment", "invoice"}, items : SUBSET Docs, tracks : Seq(Nat)]
JobRows == [task : {"picking", "tracking", "invoice"}, doc : Docs, with : BOOLEAN, prio : Nat,
            step : {"pending", "create", "bind", "track", "commit", "end", "failed"},
            id : Nat, ref : Nat]

RowTypes ==
    /\ doc \in [Docs -> DocRows] /\ remote \in Seq(RemoteRows) /\ jobs \in Seq(JobRows)
    /\ refs \in Nat /\ crashes \in Nat

Done(p) == doc[p].state = "done"

DocsFit ==
    /\ \A p \in Deliveries :
          /\ doc[p].state \in {"draft", "done"}
          /\ IF Done(p) THEN doc[p].method \in {"partial", "complete"} ELSE doc[p].method = "none"
    /\ \A i \in Invoices : doc[i].method \in {"none", "bound"}

\* A shipment has the one item of a partial delivery, or nothing is left after it.
Shipped ==
    \A n \in Documents("shipment") :
        \/ Left("shipment") = {}
        \/ \E p \in Deliveries : doc[p].method = "partial" /\ remote[n].items = {p}

\* This document on Magento holds what d is about, if d has a line of the order.
Owner(d, n) == n \in DOMAIN remote /\ (doc[d].lines => d \in remote[n].items)

JobShape(t) ==
    /\ t.doc \in Docs /\ (t.task = "invoice" <=> t.doc \in Invoices)
    /\ t.doc \in Deliveries => Done(t.doc)
    /\ t.step \in {"bind", "track"} => Owner(t.doc, t.id)
    /\ t.step = "end" => t.task = "picking"
    /\ t.step \in {"track", "commit"} => t.task = "tracking"

Owned ==
    /\ \A d \in Docs : doc[d].bound # 0 => Owner(d, doc[d].bound)
    /\ \A j \in DOMAIN jobs : JobShape(jobs[j])

\* No two documents have the id of the same one on Magento.
Apart == \A d, e \in Docs : doc[d].bound # 0 /\ doc[d].bound = doc[e].bound => d = e

OwnInv == RowTypes /\ DocsFit /\ Shipped /\ Owned /\ Apart

\* With one tracking number at most, and no job killed: one job at most is going to
\* send it, and when there is one the number was not sent yet.
Claims(t) == \/ t.task = "picking" /\ t.with
             \/ t.task = "tracking" /\ t.step # "commit"
NoneSent == \A n \in DOMAIN remote : remote[n].tracks = <<>>
Unclaimed == NoneSent /\ \A j \in DOMAIN jobs : ~Claims(jobs[j])
OneNumber ==
    /\ refs = 0 => Unclaimed /\ \A p \in Deliveries : doc[p].ref = 0
    /\ \A p, q \in Deliveries : doc[p].ref # 0 /\ doc[q].ref # 0 => p = q
    /\ \A p \in Deliveries : doc[p].ref # 0 /\ ~Done(p) => Unclaimed
    /\ \A i, j \in DOMAIN jobs : Claims(jobs[i]) /\ Claims(jobs[j]) => i = j
    /\ (\E j \in DOMAIN jobs : Claims(jobs[j])) => NoneSent
    /\ \A n \in DOMAIN remote : Len(remote[n].tracks) <= 1
SentInv == refs <= 1 /\ crashes = 0 => OneNumber

-----------------------------------------------------------------------------
(* Lists of jobs                                                           *)

\* Where each job of the next state comes from, 0 for a new one: job j is gone or
\* in At, the new one in New, the others are as they were.
JobsMove(old, j, At, New) ==
    /\ old \in [DOMAIN jobs' -> {0} \cup DOMAIN jobs]
    /\ \A i, k \in DOMAIN jobs' : old[i] = old[k] => i = k
    /\ \A i \in DOMAIN jobs' :
          /\ old[i] # 0 /\ old[i] # j => jobs'[i] = jobs[old[i]]
          /\ old[i] # 0 /\ old[i] = j => jobs'[i] \in At
          /\ old[i] = 0 => jobs'[i] \in New

LEMMA RemovedAt ==
    ASSUME NEW S, NEW s \in Seq(S), NEW j \in DOMAIN s
    PROVE  /\ RemoveAt(s, j) \in Seq(S) /\ Len(RemoveAt(s, j)) = Len(s) - 1
           /\ \A i \in 1..(Len(s) - 1) :
                 RemoveAt(s, j)[i] = IF i < j THEN s[i] ELSE s[i + 1]
<1>1. DOMAIN s = 1..Len(s) /\ Len(s) \in Nat /\ j \in 1..Len(s)
  OBVIOUS
<1> DEFINE a == SubSeq(s, 1, j - 1)
           b == SubSeq(s, j + 1, Len(s))
<1>2. a \in Seq(S) /\ Len(a) = j - 1 /\ \A i \in 1..(j - 1) : a[i] = s[i]
  <2>1. 1 \in 1..(Len(s) + 1) /\ j - 1 \in 0..Len(s) /\ \A i \in 1..(j - 1) : i \in 1..Len(s)
    BY <1>1
  <2> QED BY <1>1, <2>1, SubSeqProperties
<1>3. b \in Seq(S) /\ Len(b) = Len(s) - j /\ \A i \in 1..(Len(s) - j) : b[i] = s[j + i]
  <2> DEFINE n == Len(s)
             m == j + 1
  <2>1. n \in Nat /\ j \in 1..n /\ m = j + 1
    BY <1>1
  <2>2. /\ SubSeq(s, m, n) \in Seq(S)
        /\ Len(SubSeq(s, m, n)) = IF m <= n THEN n - m + 1 ELSE 0
        /\ \A i \in 1..(n - m + 1) : SubSeq(s, m, n)[i] = s[m + i - 1]
    <3>1. m \in Int /\ n \in Int /\ \A i \in m..n : i \in 1..n
      <4> HIDE DEF n, m
      <4> QED BY <2>1
    <3>2. \A i \in 1..n : s[i] \in S
      BY <1>1
    <3>3. \A i \in m..n : s[i] \in S
      BY <3>1, <3>2
    <3> HIDE DEF m, n
    <3> QED BY <3>1, <3>3, SubSeqProperties
  <2>3. (IF m <= n THEN n - m + 1 ELSE 0) = n - j /\ n - m + 1 = n - j
        /\ \A i \in 1..(n - j) : m + i - 1 = j + i
    <3> HIDE DEF n, m
    <3> QED BY <2>1
  <2>4. b = SubSeq(s, m, n)
    OBVIOUS
  <2> HIDE DEF n, m, b
  <2>5. b \in Seq(S) /\ Len(b) = n - j /\ \A i \in 1..(n - j) : b[i] = s[j + i]
    BY <2>2, <2>3, <2>4
  <2> QED BY <2>5 DEF n
<1>4. RemoveAt(s, j) = a \o b
  BY DEF RemoveAt
<1> HIDE DEF a, b
<1>5. /\ a \o b \in Seq(S) /\ Len(a \o b) = Len(a) + Len(b)
      /\ \A i \in 1..(Len(a) + Len(b)) :
            (a \o b)[i] = IF i <= Len(a) THEN a[i] ELSE b[i - Len(a)]
  BY <1>2, <1>3, ConcatProperties
<1>6. ASSUME NEW i \in 1..(Len(s) - 1)
      PROVE  (a \o b)[i] = IF i < j THEN s[i] ELSE s[i + 1]
  <2>1. CASE i < j
    BY <1>1, <1>2, <1>3, <1>5, <2>1
  <2>2. CASE ~(i < j)
    <3> DEFINE la == Len(a)
               lb == Len(b)
               n == Len(s)
    <3>1. la = j - 1 /\ lb = n - j /\ n \in Nat /\ j \in 1..n /\ i \in 1..(n - 1)
      BY <1>1, <1>2, <1>3
    <3>2. (a \o b)[i] = IF i <= la THEN a[i] ELSE b[i - la]
      <4>1. la + lb = n - 1
        <5> HIDE DEF la, lb, n
        <5> QED BY <3>1
      <4> QED BY <1>5, <4>1
    <3>3. \A k \in 1..(n - j) : b[k] = s[j + k]
      BY <1>3
    <3> HIDE DEF la, lb, n
    <3>4. i - la \in 1..(n - j) /\ j + (i - la) = i + 1 /\ ~(i <= la)
      BY <2>2, <3>1
    <3> QED BY <2>2, <3>2, <3>3, <3>4
  <2> QED BY <2>1, <2>2
<1> QED BY <1>1, <1>2, <1>3, <1>4, <1>5, <1>6

\* A job that ends, and the one it leaves.
LEMMA MoveReplaced ==
    ASSUME RowTypes, NEW j \in DOMAIN jobs, NEW t \in JobRows,
           jobs' = RemoveAt(jobs, j) \o <<t>>
    PROVE  jobs' \in Seq(JobRows) /\ \E old : JobsMove(old, j, {}, {t})
<1> DEFINE n == Len(jobs)
           rest == RemoveAt(jobs, j)
           old == [i \in DOMAIN jobs' |-> IF i < j THEN i ELSE IF i < n THEN i + 1 ELSE 0]
<1>1. jobs \in Seq(JobRows) /\ DOMAIN jobs = 1..n /\ n \in Nat /\ j \in 1..n
  BY DEF RowTypes
<1>2. /\ rest \in Seq(JobRows) /\ Len(rest) = n - 1
      /\ \A i \in 1..(n - 1) : rest[i] = IF i < j THEN jobs[i] ELSE jobs[i + 1]
  BY <1>1, RemovedAt
<1> HIDE DEF n, rest
<1>3. jobs' = Append(rest, t)
  BY <1>2, AppendIsConcat DEF rest
<1>4. /\ jobs' \in Seq(JobRows) /\ DOMAIN jobs' = 1..n /\ jobs'[n] = t
      /\ \A i \in 1..(n - 1) : jobs'[i] = rest[i]
  <2> DEFINE longer == Append(rest, t)
  <2>0. /\ longer \in Seq(JobRows) /\ Len(longer) = Len(rest) + 1 /\ longer[Len(rest) + 1] = t
        /\ \A i \in 1..Len(rest) : longer[i] = rest[i]
    <3>1. rest \in Seq(JobRows)
      BY <1>2
    <3> QED BY ONLY <3>1, t \in JobRows, AppendProperties
  <2> HIDE DEF longer
  <2>1. /\ jobs' \in Seq(JobRows) /\ Len(jobs') = Len(rest) + 1 /\ jobs'[Len(rest) + 1] = t
        /\ \A i \in 1..Len(rest) : jobs'[i] = rest[i]
    <3>1. jobs' = longer
      BY <1>3 DEF longer
    <3> QED BY ONLY <2>0, <3>1
  <2>2. Len(rest) + 1 = n /\ Len(rest) = n - 1
    BY <1>1, <1>2
  <2>3. DOMAIN jobs' = 1..Len(jobs')
    BY <2>1
  <2>4. Len(jobs') = n /\ jobs'[n] = t
    BY <2>1, <2>2
  <2> QED BY <2>1, <2>2, <2>3, <2>4
<1>5. \A i \in 1..n : /\ i < j => i \in 1..(n - 1) /\ jobs'[i] = jobs[i] /\ old[i] = i
                      /\ ~(i < j) /\ i < n => /\ i \in 1..(n - 1) /\ jobs'[i] = jobs[i + 1]
                                              /\ old[i] = i + 1 /\ i + 1 \in 1..n
                      /\ ~(i < j) /\ ~(i < n) => i = n /\ jobs'[i] = t /\ old[i] = 0
  BY <1>1, <1>2, <1>4
<1>6. old \in [DOMAIN jobs' -> {0} \cup DOMAIN jobs]
  <2>1. \A i \in 1..n : old[i] \in {0} \cup 1..n
    BY <1>5
  <2>2. old = [i \in 1..n |-> old[i]]
    BY <1>4
  <2> HIDE DEF old
  <2> QED BY <1>1, <1>4, <2>1, <2>2
<1> HIDE DEF old
<1>7. \A i, k \in 1..n : old[i] = old[k] => i = k
  BY <1>1, <1>5
<1>8. ASSUME NEW i \in 1..n
      PROVE  /\ old[i] # 0 /\ old[i] # j => jobs'[i] = jobs[old[i]]
             /\ old[i] # 0 /\ old[i] = j => jobs'[i] \in {}
             /\ old[i] = 0 => jobs'[i] \in {t}
  <2>1. CASE i < j
    <3>1. jobs'[i] = jobs[i] /\ old[i] = i
      BY <1>5, <2>1
    <3>2. i # 0 /\ i # j
      BY <1>1, <2>1
    <3> QED BY <3>1, <3>2
  <2>2. CASE ~(i < j) /\ i < n
    <3>1. jobs'[i] = jobs[i + 1] /\ old[i] = i + 1
      BY <1>5, <2>2
    <3>2. i + 1 # j /\ i + 1 # 0
      BY <1>1, <2>2
    <3> QED BY <3>1, <3>2
  <2>3. CASE ~(i < j) /\ ~(i < n)
    <3>1. jobs'[i] = t /\ old[i] = 0
      BY <1>5, <2>3
    <3> QED BY <1>1, <3>1
  <2> QED BY <2>1, <2>2, <2>3
<1>9. JobsMove(old, j, {}, {t})
  BY <1>4, <1>6, <1>7, <1>8 DEF JobsMove
<1> QED BY <1>4, <1>9

LEMMA MoveRemoved ==
    ASSUME RowTypes, NEW j \in DOMAIN jobs, jobs' = RemoveAt(jobs, j)
    PROVE  jobs' \in Seq(JobRows) /\ \E old : JobsMove(old, j, {}, {})
<1> DEFINE n == Len(jobs)
           old == [i \in DOMAIN jobs' |-> IF i < j THEN i ELSE i + 1]
<1>1. jobs \in Seq(JobRows) /\ DOMAIN jobs = 1..n /\ n \in Nat /\ j \in 1..n
  BY DEF RowTypes
<1>2. /\ jobs' \in Seq(JobRows) /\ Len(jobs') = n - 1 /\ DOMAIN jobs' = 1..(n - 1)
      /\ \A i \in 1..(n - 1) : jobs'[i] = IF i < j THEN jobs[i] ELSE jobs[i + 1]
  <2>1. /\ jobs' \in Seq(JobRows) /\ Len(jobs') = n - 1
        /\ \A i \in 1..(n - 1) : jobs'[i] = IF i < j THEN jobs[i] ELSE jobs[i + 1]
    BY <1>1, RemovedAt
  <2> QED BY <2>1
<1> HIDE DEF n
<1>3. \A i \in 1..(n - 1) : /\ i < j => i \in 1..n /\ old[i] = i
                            /\ ~(i < j) => i + 1 \in 1..n /\ old[i] = i + 1
  BY <1>1, <1>2
<1>4. old \in [DOMAIN jobs' -> {0} \cup DOMAIN jobs]
  BY <1>1, <1>2
<1> HIDE DEF old
<1>5. \A i, k \in 1..(n - 1) : old[i] = old[k] => i = k
  BY <1>1, <1>3
<1>6. \A i \in 1..(n - 1) : old[i] # 0 /\ old[i] # j /\ jobs'[i] = jobs[old[i]]
  BY <1>1, <1>2, <1>3
<1>7. JobsMove(old, j, {}, {})
  BY <1>2, <1>4, <1>5, <1>6 DEF JobsMove
<1> QED BY <1>2, <1>7

LEMMA MoveAppended ==
    ASSUME RowTypes, NEW t \in JobRows, jobs' = Append(jobs, t)
    PROVE  jobs' \in Seq(JobRows) /\ \E old : JobsMove(old, 0, {}, {t})
<1> DEFINE n == Len(jobs)
           old == [i \in DOMAIN jobs' |-> IF i <= n THEN i ELSE 0]
<1>1. jobs \in Seq(JobRows) /\ DOMAIN jobs = 1..n /\ n \in Nat
  BY DEF RowTypes
<1>2. /\ jobs' \in Seq(JobRows) /\ DOMAIN jobs' = 1..(n + 1) /\ jobs'[n + 1] = t
      /\ \A i \in 1..n : jobs'[i] = jobs[i]
  BY <1>1, AppendProperties
<1> HIDE DEF n
<1>3. \A i \in 1..(n + 1) : /\ i <= n => i \in 1..n /\ old[i] = i
                            /\ ~(i <= n) => i = n + 1 /\ old[i] = 0
  BY <1>1, <1>2
<1>4. old \in [DOMAIN jobs' -> {0} \cup DOMAIN jobs]
  BY <1>1, <1>2
<1> HIDE DEF old
<1>5. \A i, k \in 1..(n + 1) : old[i] = old[k] => i = k
  BY <1>1, <1>3
<1>6. JobsMove(old, 0, {}, {t})
  BY <1>1, <1>2, <1>3, <1>4, <1>5 DEF JobsMove
<1> QED BY <1>2, <1>6

LEMMA MoveOne ==
    ASSUME RowTypes, NEW j \in DOMAIN jobs, NEW r \in JobRows, jobs' = [jobs EXCEPT ![j] = r]
    PROVE  jobs' \in Seq(JobRows) /\ \E old : JobsMove(old, j, {r}, {})
<1> DEFINE old == [i \in DOMAIN jobs |-> i]
<1>1. jobs \in Seq(JobRows) /\ DOMAIN jobs = 1..Len(jobs)
  BY DEF RowTypes
<1>2. jobs' \in Seq(JobRows) /\ DOMAIN jobs' = DOMAIN jobs /\ jobs'[j] = r
      /\ \A i \in DOMAIN jobs : i # j => jobs'[i] = jobs[i]
  BY <1>1, ExceptSeq
<1>3. JobsMove(old, j, {r}, {})
  BY <1>1, <1>2 DEF JobsMove
<1> QED BY <1>2, <1>3

LEMMA MoveNone ==
    ASSUME RowTypes, UNCHANGED jobs
    PROVE  jobs' \in Seq(JobRows) /\ \E old : JobsMove(old, 0, {}, {})
<1> DEFINE old == [i \in DOMAIN jobs |-> i]
<1>1. jobs \in Seq(JobRows) /\ DOMAIN jobs = 1..Len(jobs) /\ DOMAIN jobs' = DOMAIN jobs
      /\ \A i \in DOMAIN jobs : jobs'[i] = jobs[i]
  BY DEF RowTypes
<1>2. JobsMove(old, 0, {}, {})
  BY <1>1 DEF JobsMove
<1> QED BY <1>1, <1>2

-----------------------------------------------------------------------------
(* What stays owned                                                        *)

\* Documents on Magento keep their items, deliveries that are done stay so.
Grows ==
    /\ \A n \in DOMAIN remote : /\ n \in DOMAIN remote'
                                /\ remote'[n].items = remote[n].items
    /\ \A d \in Docs : doc'[d].lines = doc[d].lines
    /\ \A p \in Deliveries : Done(p) => Done(p)'

LEMMA OwnerStays ==
    ASSUME Grows, NEW d \in Docs, NEW n, Owner(d, n)
    PROVE  Owner(d, n)'
BY DEF Grows, Owner

\* The shapes of jobs that a step leaves alone.
LEMMA ShapesStay ==
    ASSUME RowTypes, Owned, Grows, NEW old, NEW j, NEW At, NEW New, JobsMove(old, j, At, New),
           \A t \in At \cup New : JobShape(t)'
    PROVE  (\A i \in DOMAIN jobs : JobShape(jobs[i]))'
<1>1. ASSUME NEW t, JobShape(t) PROVE JobShape(t)'
  <2>1. t.doc \in Deliveries /\ Done(t.doc) => Done(t.doc)'
    BY DEF Grows
  <2>2. \A d \in Docs : \A n : Owner(d, n) => Owner(d, n)'
    BY OwnerStays
  <2> QED BY <1>1, <2>1, <2>2 DEF JobShape
<1>2. ASSUME NEW i \in DOMAIN jobs', NEW t, t = jobs'[i] PROVE JobShape(t)'
  <2>1. CASE t \in At \cup New
    BY <2>1
  <2>2. CASE t \notin At \cup New
    <3>1. old[i] \in DOMAIN jobs /\ t = jobs[old[i]]
      BY <1>2, <2>2 DEF JobsMove
    <3>2. JobShape(t)
      BY <3>1 DEF Owned
    <3> QED BY <1>1, <3>2
  <2> QED BY <2>1, <2>2
<1> QED BY <1>2

\* A step that leaves the documents and Magento alone, or what is said of them here.
QuietStep ==
    /\ RowTypes' /\ Grows
    /\ \A p \in Deliveries : doc'[p].state = doc[p].state /\ doc'[p].method = doc[p].method
    /\ \A i \in Invoices : doc'[i].method \in {"none", "bound"}
    /\ \A d \in Docs : doc'[d].bound # doc[d].bound =>
          Owner(d, doc'[d].bound) /\ ~Taken(d, doc'[d].bound)
    /\ \A d, e \in Docs : doc'[d].bound = doc[d].bound \/ doc'[e].bound = doc[e].bound \/ d = e
    /\ DOMAIN remote' = DOMAIN remote
    /\ \A n \in DOMAIN remote : remote'[n].kind = remote[n].kind

LEMMA OwnStays ==
    ASSUME OwnInv, QuietStep, NEW old, NEW j, NEW At, NEW New, JobsMove(old, j, At, New),
           \A t \in At \cup New : JobShape(t)
    PROVE  OwnInv'
<1>1. \A p \in Deliveries : Done(p)' <=> Done(p)
  BY DEF Done, QuietStep
<1>2. \A d \in Deliveries \cup Invoices : d \in Docs
  BY DEF Docs
<1>3. Apart'
  <2> SUFFICES ASSUME NEW d \in Docs, NEW e \in Docs, doc'[d].bound # 0,
                      doc'[d].bound = doc'[e].bound, d # e
               PROVE  FALSE
    BY DEF Apart
  <2>1. CASE doc'[d].bound = doc[d].bound /\ doc'[e].bound = doc[e].bound
    BY <2>1 DEF OwnInv, Apart
  <2>2. CASE doc'[d].bound # doc[d].bound
    BY <2>2 DEF QuietStep, Taken
  <2>3. CASE doc'[e].bound # doc[e].bound
    BY <2>3 DEF QuietStep, Taken
  <2> QED BY <2>1, <2>2, <2>3
<1>4. DocsFit'
  BY <1>1 DEF DocsFit, OwnInv, Done, QuietStep
<1>5. Shipped'
  <2>1. \A kind : Documents(kind)' = Documents(kind)
    BY DEF Documents, QuietStep
  <2>2. Left("shipment")' = Left("shipment")
    <3>1. \A n \in Documents("shipment") : remote'[n].items = remote[n].items
      BY DEF Documents, Grows, QuietStep
    <3>2. {remote'[n].items : n \in Documents("shipment")} = {remote[n].items : n \in Documents("shipment")}
      BY <3>1
    <3>3. \A p \in Deliveries : doc'[p].lines = doc[p].lines
      BY <1>2 DEF Grows, QuietStep
    <3> QED BY <2>1, <3>2, <3>3 DEF Left
  <2>3. \A n \in Documents("shipment") : remote'[n].items = remote[n].items
    BY DEF Documents, Grows, QuietStep
  <2> QED BY <1>1, <2>1, <2>2, <2>3 DEF Shipped, OwnInv, QuietStep
<1>6. Owned'
  <2>1. \A t \in At \cup New : JobShape(t)'
    <3>1. \A d \in Docs : \A n : Owner(d, n) => Owner(d, n)'
      BY OwnerStays DEF QuietStep
    <3> QED BY <1>1, <3>1 DEF JobShape
  <2>2. (\A i \in DOMAIN jobs : JobShape(jobs[i]))'
    BY <2>1, ShapesStay DEF OwnInv, QuietStep
  <2>3. ASSUME NEW d \in Docs, NEW n, n = doc'[d].bound, n # 0 PROVE Owner(d, n)'
    <3>1. Owner(d, n)
      BY <2>3 DEF OwnInv, Owned, QuietStep
    <3> QED BY <3>1, OwnerStays DEF QuietStep
  <2> QED BY <2>2, <2>3 DEF Owned
<1> QED BY <1>3, <1>4, <1>5, <1>6 DEF OwnInv, QuietStep

\* The jobs that are going to send a number are the same, or one less.
Follow(old, j, At, New) ==
    /\ JobsMove(old, j, At, New) /\ (At = {} \/ New = {})
    /\ \A t \in At \cup New : Claims(t) => j \in DOMAIN jobs /\ Claims(jobs[j])
SameNumbers ==
    /\ refs' = refs /\ crashes' = crashes
    /\ \A p \in Deliveries : doc'[p].ref = doc[p].ref /\ (Done(p) => Done(p)')
    /\ \A n \in DOMAIN remote' :
          (n \in DOMAIN remote /\ remote'[n].tracks = remote[n].tracks) \/ remote'[n].tracks = <<>>

LEMMA SentStays ==
    ASSUME OneNumber, SameNumbers, NEW old, NEW j, NEW At, NEW New, Follow(old, j, At, New)
    PROVE  OneNumber'
<1> DEFINE from(i) == IF old[i] = 0 THEN j ELSE old[i]
<1>1. ASSUME NEW i \in DOMAIN jobs', NEW t, t = jobs'[i], Claims(t)
      PROVE  from(i) \in DOMAIN jobs /\ Claims(jobs[from(i)])
  <2>1. CASE t \in At \cup New /\ (old[i] = 0 \/ old[i] = j)
    BY <1>1, <2>1 DEF Follow
  <2>2. CASE ~(t \in At \cup New /\ (old[i] = 0 \/ old[i] = j))
    <3>1. old[i] # 0 /\ old[i] \in DOMAIN jobs /\ t = jobs[old[i]]
      BY <1>1, <2>2 DEF Follow, JobsMove
    <3> QED BY <1>1, <3>1
  <2> QED BY <2>1, <2>2
<1>2. ASSUME NEW i \in DOMAIN jobs', NEW k \in DOMAIN jobs', from(i) = from(k) PROVE i = k
  <2>1. ~(old[i] = 0 /\ old[k] = j /\ j # 0)
    BY DEF Follow, JobsMove
  <2>2. ~(old[k] = 0 /\ old[i] = j /\ j # 0)
    BY DEF Follow, JobsMove
  <2>3. old[i] = old[k]
    BY <1>2, <2>1, <2>2
  <2> QED BY <2>3 DEF Follow, JobsMove
<1> HIDE DEF from
<1>3. NoneSent => NoneSent'
  BY DEF NoneSent, SameNumbers
<1>4. Unclaimed => Unclaimed'
  <2> SUFFICES ASSUME Unclaimed PROVE Unclaimed'
    OBVIOUS
  <2>1. ASSUME NEW i \in DOMAIN jobs', NEW t, t = jobs'[i] PROVE ~Claims(t)
    BY <1>1, <2>1 DEF Unclaimed
  <2>2. (\A i \in DOMAIN jobs : ~Claims(jobs[i]))'
    BY <2>1 DEF Claims
  <2> QED BY <1>3, <2>2 DEF Unclaimed
<1>5. ASSUME NEW i \in DOMAIN jobs', Claims(jobs'[i]) PROVE from(i) \in DOMAIN jobs /\ Claims(jobs[from(i)])
  BY <1>1, <1>5
<1>6. \A i, k \in DOMAIN jobs' : Claims(jobs'[i]) /\ Claims(jobs'[k]) => i = k
  BY <1>2, <1>5 DEF OneNumber
<1>7. (\E i \in DOMAIN jobs' : Claims(jobs'[i])) => NoneSent'
  BY <1>3, <1>5 DEF OneNumber
<1>8. /\ (\A i, k \in DOMAIN jobs : Claims(jobs[i]) /\ Claims(jobs[k]) => i = k)'
      /\ ((\E k \in DOMAIN jobs : Claims(jobs[k])) => NoneSent)'
  BY <1>6, <1>7 DEF Claims
<1>9. \A n \in DOMAIN remote' : Len(remote'[n].tracks) <= 1
  BY DEF OneNumber, SameNumbers
<1>10. \A p \in Deliveries : doc'[p].ref = doc[p].ref /\ (Done(p) => Done(p)')
  BY DEF SameNumbers
<1>11. (\A p \in Deliveries : doc[p].ref # 0 /\ ~Done(p) => Unclaimed)'
  BY <1>4, <1>10 DEF OneNumber
<1>12. (refs = 0 => Unclaimed /\ \A p \in Deliveries : doc[p].ref = 0)'
  BY <1>4, <1>10 DEF OneNumber, SameNumbers
<1>13. (\A p, q \in Deliveries : doc[p].ref # 0 /\ doc[q].ref # 0 => p = q)'
  BY <1>10 DEF OneNumber
<1> QED BY <1>8, <1>9, <1>11, <1>12, <1>13 DEF OneNumber

-----------------------------------------------------------------------------
(* The steps of a job                                                      *)

LEMMA JobAt ==
    ASSUME OwnInv, NEW j \in DOMAIN jobs
    PROVE  /\ jobs[j] \in JobRows /\ JobShape(jobs[j]) /\ jobs[j].doc \in Docs
           /\ jobs[j].with \in BOOLEAN /\ jobs[j].id \in Nat /\ jobs[j].ref \in Nat
           /\ jobs[j].task \in {"picking", "tracking", "invoice"}
<1>1. jobs \in Seq(JobRows)
  BY DEF OwnInv, RowTypes
<1>2. jobs[j] \in JobRows
  BY <1>1
<1>3. JobShape(jobs[j])
  BY DEF OwnInv, Owned
<1> QED BY <1>2, <1>3 DEF JobRows

LEMMA DocAt ==
    ASSUME OwnInv, NEW d \in Docs
    PROVE  /\ doc[d] \in DocRows /\ doc[d].ref \in Nat /\ doc[d].bound \in Nat
           /\ doc[d].bound # 0 => Owner(d, doc[d].bound)
BY DEF OwnInv, RowTypes, Owned, DocRows

\* Job j at another step.
AtStep(j, r, step) ==
    /\ r \in JobRows /\ r.task = jobs[j].task /\ r.doc = jobs[j].doc /\ r.with = jobs[j].with
    /\ r.step = step
Unsent(j, step) == step = "commit" \/ jobs[j].step # "commit"

\* A step that only changes the job it is of.
LEMMA GoesOn ==
    ASSUME OwnInv, NEW j \in DOMAIN jobs, NEW step, NEW r, AtStep(j, r, step), Unsent(j, step),
           jobs' = [jobs EXCEPT ![j] = r]
    PROVE  jobs' \in Seq(JobRows) /\ \E old : Follow(old, j, {r}, {})
<1>1. jobs' \in Seq(JobRows) /\ \E old : JobsMove(old, j, {r}, {})
  BY MoveOne DEF AtStep, OwnInv
<1>2. Claims(r) => Claims(jobs[j])
  BY JobAt DEF Claims, AtStep, Unsent
<1> QED BY <1>1, <1>2 DEF Follow

LEMMA Ends ==
    ASSUME OwnInv, NEW j \in DOMAIN jobs, jobs' = RemoveAt(jobs, j)
    PROVE  jobs' \in Seq(JobRows) /\ \E old : Follow(old, j, {}, {})
<1>1. jobs' \in Seq(JobRows) /\ \E old : JobsMove(old, j, {}, {})
  BY MoveRemoved DEF OwnInv
<1> QED BY <1>1 DEF Follow

LEMMA NextStep ==
    ASSUME OwnInv, NEW j \in DOMAIN jobs,
           NEW step \in {"pending", "create", "bind", "track", "commit", "end", "failed"},
           Unsent(j, step), jobs' = [jobs EXCEPT ![j].step = step]
    PROVE  \E r : /\ AtStep(j, r, step) /\ r.id = jobs[j].id
                  /\ jobs' \in Seq(JobRows) /\ \E old : Follow(old, j, {r}, {})
<1> DEFINE r == [jobs[j] EXCEPT !.step = step]
<1>1. AtStep(j, r, step) /\ r.id = jobs[j].id
  BY JobAt DEF AtStep, JobRows
<1>2. jobs' = [jobs EXCEPT ![j] = r]
  OBVIOUS
<1> HIDE DEF r
<1> QED BY <1>1, <1>2, GoesOn

LEMMA NextId ==
    ASSUME OwnInv, NEW j \in DOMAIN jobs,
           NEW step \in {"pending", "create", "bind", "track", "commit", "end", "failed"},
           NEW id \in Nat, Unsent(j, step), jobs' = [jobs EXCEPT ![j].step = step, ![j].id = id]
    PROVE  \E r : /\ AtStep(j, r, step) /\ r.id = id
                  /\ jobs' \in Seq(JobRows) /\ \E old : Follow(old, j, {r}, {})
<1> DEFINE r == [jobs[j] EXCEPT !.step = step, !.id = id]
<1>1. AtStep(j, r, step) /\ r.id = id
  BY JobAt DEF AtStep, JobRows
<1>2. jobs' = [jobs EXCEPT ![j] = r]
  OBVIOUS
<1> HIDE DEF r
<1> QED BY <1>1, <1>2, GoesOn

LEMMA NextIdAndRef ==
    ASSUME OwnInv, NEW j \in DOMAIN jobs,
           NEW step \in {"pending", "create", "bind", "track", "commit", "end", "failed"},
           NEW id \in Nat, NEW ref \in Nat, Unsent(j, step),
           jobs' = [jobs EXCEPT ![j].step = step, ![j].ref = ref, ![j].id = id]
    PROVE  \E r : /\ AtStep(j, r, step) /\ r.id = id
                  /\ jobs' \in Seq(JobRows) /\ \E old : Follow(old, j, {r}, {})
<1> DEFINE r == [jobs[j] EXCEPT !.step = step, !.ref = ref, !.id = id]
<1>1. AtStep(j, r, step) /\ r.id = id
  BY JobAt DEF AtStep, JobRows
<1>2. jobs' = [jobs EXCEPT ![j] = r]
  OBVIOUS
<1> HIDE DEF r
<1> QED BY <1>1, <1>2, GoesOn

LEMMA Quiet ==
    ASSUME OwnInv, UNCHANGED <<doc, remote>>, jobs' \in Seq(JobRows), refs' \in Nat, crashes' \in Nat
    PROVE  QuietStep
<1>1. RowTypes'
  BY DEF RowTypes, OwnInv
<1>2. Grows
  BY DEF Grows, Done
<1>3. \A i \in Invoices : doc'[i].method \in {"none", "bound"}
  BY DEF OwnInv, DocsFit
<1> QED BY <1>1, <1>2, <1>3 DEF QuietStep

LEMMA SameAll ==
    ASSUME UNCHANGED <<doc, remote, refs, crashes>>
    PROVE  SameNumbers
BY DEF SameNumbers, Done

\* What a step of a job keeps: the invariant, and the count of what is to be sent.
Keeps == OwnInv' /\ SameNumbers /\ \E old, j, At, New : Follow(old, j, At, New)

LEMMA JobKeeps ==
    ASSUME OwnInv, QuietStep, SameNumbers, NEW old, NEW j, NEW At, Follow(old, j, At, {}),
           \A t \in At : JobShape(t)
    PROVE  Keeps
<1>1. JobsMove(old, j, At, {})
  BY DEF Follow
<1>2. OwnInv'
  BY <1>1, OwnStays
<1> QED BY <1>2 DEF Keeps

LEMMA QuietTypes == OwnInv => refs \in Nat /\ crashes \in Nat
BY DEF OwnInv, RowTypes

LEMMA BeginKeeps ==
    ASSUME OwnInv, NEW j \in DOMAIN jobs, Begin(j)
    PROVE  Keeps
<1> DEFINE d == jobs[j].doc
           step == FirstStep(j)
<1>1. UNCHANGED <<doc, remote, refs, crashes>> /\ jobs[j].step = "pending"
  BY DEF Begin, IsNext
<1>2. SameNumbers
  BY <1>1, SameAll
<1>3. CASE jobs' = RemoveAt(jobs, j)
  <2>1. jobs' \in Seq(JobRows) /\ \E old : Follow(old, j, {}, {})
    BY <1>3, Ends
  <2>2. QuietStep
    BY <1>1, <2>1, Quiet, QuietTypes
  <2> QED BY <1>2, <2>1, <2>2, JobKeeps
<1>4. CASE /\ step # "done"
           /\ jobs' = [jobs EXCEPT ![j].step = step, ![j].ref = doc[d].ref, ![j].id = doc[d].bound]
  <2>1. d \in Docs /\ jobs[j] \in JobRows /\ JobShape(jobs[j])
    BY JobAt
  <2>2. doc[d].ref \in Nat /\ doc[d].bound \in Nat /\ (doc[d].bound # 0 => Owner(d, doc[d].bound))
    BY <2>1, DocAt
  <2>3. /\ step \in {"create", "track", "end"}
        /\ step = "track" => jobs[j].task = "tracking" /\ doc[d].bound # 0
        /\ step = "end" => jobs[j].task = "picking"
    <3> DEFINE a == jobs[j].task = "tracking" /\ doc[d].ref = 0
               b == jobs[j].task = "tracking" /\ doc[d].bound # 0
               c == jobs[j].task = "picking" /\ doc[d].bound # 0
    <3>1. step = CASE a -> "done" [] b -> "track" [] c -> "end" [] OTHER -> "create"
      BY DEF FirstStep
    <3>2. ~(a /\ c) /\ ~(b /\ c)
      OBVIOUS
    <3>3. b => jobs[j].task = "tracking" /\ doc[d].bound # 0
      OBVIOUS
    <3>4. c => jobs[j].task = "picking"
      OBVIOUS
    <3> HIDE DEF a, b, c, step
    <3> QED BY <1>4, <3>1, <3>2, <3>3, <3>4
  <2> HIDE DEF step
  <2>4. Unsent(j, step)
    BY <1>1 DEF Unsent
  <2>5. PICK r : /\ AtStep(j, r, step) /\ r.id = doc[d].bound
                 /\ jobs' \in Seq(JobRows) /\ \E old : Follow(old, j, {r}, {})
    <3>1. step \in {"pending", "create", "bind", "track", "commit", "end", "failed"}
      BY <2>3
    <3> QED BY <1>4, <2>2, <2>4, <3>1, NextIdAndRef
  <2>6. JobShape(r)
    BY <2>1, <2>2, <2>3, <2>5 DEF JobShape, AtStep
  <2>7. QuietStep
    BY <1>1, <2>5, Quiet, QuietTypes
  <2> QED BY <1>2, <2>5, <2>6, <2>7, JobKeeps
<1> QED BY <1>3, <1>4 DEF Begin

LEMMA CommitKeeps ==
    ASSUME OwnInv, NEW j \in DOMAIN jobs, Commit(j)
    PROVE  Keeps
<1>1. UNCHANGED <<doc, remote, refs, crashes>> /\ jobs' = RemoveAt(jobs, j)
  BY DEF Commit, Step
<1>2. jobs' \in Seq(JobRows) /\ \E old : Follow(old, j, {}, {})
  BY <1>1, Ends
<1>3. QuietStep
  BY <1>1, <1>2, Quiet, QuietTypes
<1> QED BY <1>1, <1>2, <1>3, JobKeeps, SameAll

\* A job of another kind that does what this one has left to do.
LEMMA EndKeeps ==
    ASSUME OwnInv, NEW j \in DOMAIN jobs, End(j)
    PROVE  Keeps
<1> DEFINE t == Job("tracking", jobs[j].doc, FALSE, 10)
<1>1. UNCHANGED <<doc, remote, refs, crashes>> /\ jobs[j].step = "end"
  BY DEF End
<1>2. /\ jobs[j].task = "picking" /\ JobShape(jobs[j]) /\ jobs[j].doc \in Docs
      /\ jobs[j] \in JobRows
  BY <1>1, JobAt DEF JobShape
<1>3. CASE TracksToo(j)
  <2>1. jobs' = RemoveAt(jobs, j) \o <<t>>
    BY <1>3 DEF End
  <2>2. t \in JobRows /\ t.task = "tracking" /\ t.doc = jobs[j].doc /\ t.step = "pending"
    BY <1>2 DEF Job, JobRows
  <2> HIDE DEF t
  <2>3. jobs' \in Seq(JobRows) /\ \E old : JobsMove(old, j, {}, {t})
    BY <2>1, <2>2, MoveReplaced DEF OwnInv
  <2>4. JobShape(t)
    BY <1>2, <2>2 DEF JobShape
  <2>5. Claims(jobs[j])
    BY <1>2, <1>3 DEF TracksToo, Claims
  <2>6. QuietStep
    BY <1>1, <2>3, Quiet, QuietTypes
  <2>7. PICK old : JobsMove(old, j, {}, {t})
    BY <2>3
  <2>8. Follow(old, j, {}, {t})
    BY <2>5, <2>7 DEF Follow
  <2>9. OwnInv'
    BY <2>4, <2>6, <2>7, OwnStays
  <2> QED BY <1>1, <2>8, <2>9, SameAll DEF Keeps
<1>4. CASE ~TracksToo(j)
  <2>1. jobs' = RemoveAt(jobs, j) \o <<>>
    BY <1>4 DEF End
  <2>2. RemoveAt(jobs, j) \in Seq(JobRows)
    BY RemovedAt DEF OwnInv, RowTypes
  <2>3. jobs' = RemoveAt(jobs, j)
    BY <2>1, <2>2, ConcatEmptySeq
  <2>4. jobs' \in Seq(JobRows) /\ \E old : Follow(old, j, {}, {})
    BY <2>3, Ends
  <2>5. QuietStep
    BY <1>1, <2>4, Quiet, QuietTypes
  <2> QED BY <1>1, <2>4, <2>5, JobKeeps, SameAll
<1> QED BY <1>3, <1>4

\* A job that fails is not run again.
LEMMA StepFailed ==
    ASSUME OwnInv, NEW j \in DOMAIN jobs, jobs[j].step # "commit", Step(j, "failed"),
           UNCHANGED <<doc, remote, refs, crashes>>
    PROVE  Keeps
<1>1. jobs' = [jobs EXCEPT ![j].step = "failed"] /\ Unsent(j, "failed")
  BY DEF Step, Unsent
<1>2. PICK r : /\ AtStep(j, r, "failed") /\ r.id = jobs[j].id
               /\ jobs' \in Seq(JobRows) /\ \E old : Follow(old, j, {r}, {})
  BY <1>1, NextStep
<1>3. JobShape(r)
  BY <1>2, JobAt DEF JobShape, AtStep
<1>4. QuietStep
  BY <1>2, Quiet, QuietTypes
<1> QED BY <1>2, <1>3, <1>4, JobKeeps, SameAll

\* The id is the document's own and no other has it.
LEMMA BindMade ==
    ASSUME OwnInv, NEW j \in DOMAIN jobs, Bind(j), ~Taken(jobs[j].doc, jobs[j].id)
    PROVE  Keeps
<1> DEFINE d == jobs[j].doc
           id == jobs[j].id
           step == CASE jobs[j].task = "picking" -> "end"
                     [] jobs[j].task = "tracking" -> "track"
                     [] OTHER -> "done"
<1>1. /\ doc' = [doc EXCEPT ![d].bound = id] /\ Step(j, step) /\ jobs[j].step = "bind"
      /\ remote' = remote /\ refs' = refs /\ crashes' = crashes
  BY DEF Bind
<1>2. d \in Docs /\ id \in Nat /\ Owner(d, id) /\ JobShape(jobs[j])
      /\ jobs[j].task \in {"picking", "tracking", "invoice"}
  BY <1>1, JobAt DEF JobShape
<1>3. doc \in [Docs -> DocRows]
  BY DEF OwnInv, RowTypes
<1>4. /\ doc' \in [Docs -> DocRows]
      /\ \A x \in Docs : /\ doc'[x].state = doc[x].state /\ doc'[x].method = doc[x].method
                         /\ doc'[x].ref = doc[x].ref /\ doc'[x].lines = doc[x].lines
                         /\ doc'[x].bound = IF x = d THEN id ELSE doc[x].bound
  <2> DEFINE r == [doc[d] EXCEPT !.bound = id]
  <2>1. r \in DocRows /\ r.state = doc[d].state /\ r.method = doc[d].method
        /\ r.ref = doc[d].ref /\ r.bound = id /\ r.lines = doc[d].lines
    BY <1>2, <1>3 DEF DocRows
  <2>2. doc' = [doc EXCEPT ![d] = r]
    BY <1>1
  <2> HIDE DEF r
  <2> QED BY <1>2, <1>3, <2>1, <2>2
<1>5. \A x \in Deliveries \cup Invoices : x \in Docs
  BY DEF Docs
<1>6. Grows
  BY <1>1, <1>4, <1>5 DEF Grows, Done
<1>7. SameNumbers
  BY <1>1, <1>4, <1>5 DEF SameNumbers, Done
<1>8. ASSUME jobs' \in Seq(JobRows) PROVE QuietStep
  <2>1. RowTypes'
    BY <1>1, <1>4, <1>8 DEF RowTypes, OwnInv
  <2>2. \A i \in Invoices : doc'[i].method \in {"none", "bound"}
    BY <1>4, <1>5 DEF OwnInv, DocsFit
  <2>3. \A x \in Docs : doc'[x].bound # doc[x].bound =>
           Owner(x, doc'[x].bound) /\ ~Taken(x, doc'[x].bound)
    BY <1>2, <1>4
  <2>4. \A x, e \in Docs : doc'[x].bound = doc[x].bound \/ doc'[e].bound = doc[e].bound \/ x = e
    BY <1>4
  <2> QED BY <1>1, <1>4, <1>5, <1>6, <2>1, <2>2, <2>3, <2>4 DEF QuietStep
<1>9. CASE step = "done"
  <2>1. jobs' = RemoveAt(jobs, j)
    BY <1>1, <1>9 DEF Step
  <2>2. jobs' \in Seq(JobRows) /\ \E old : Follow(old, j, {}, {})
    BY <2>1, Ends
  <2> QED BY <1>7, <1>8, <2>2, JobKeeps
<1>10. CASE step # "done"
  <2>1. /\ step \in {"end", "track"} /\ (step = "end" => jobs[j].task = "picking")
        /\ (step = "track" => jobs[j].task = "tracking")
    BY <1>10
  <2> HIDE DEF step
  <2>2. jobs' = [jobs EXCEPT ![j].step = step]
    BY <1>1, <1>10 DEF Step
  <2>3. Unsent(j, step)
    BY <1>1 DEF Unsent
  <2>4. step \in {"pending", "create", "bind", "track", "commit", "end", "failed"}
    BY <2>1
  <2>5. PICK r : /\ AtStep(j, r, step) /\ r.id = id
                 /\ jobs' \in Seq(JobRows) /\ \E old : Follow(old, j, {r}, {})
    BY <2>2, <2>3, <2>4, NextStep
  <2>6. JobShape(r)
    BY <1>2, <2>1, <2>5 DEF JobShape, AtStep
  <2> QED BY <1>7, <1>8, <2>5, <2>6, JobKeeps
<1> QED BY <1>9, <1>10

LEMMA BindKeeps ==
    ASSUME OwnInv, NEW j \in DOMAIN jobs, Bind(j)
    PROVE  Keeps
<1>1. CASE ~Taken(jobs[j].doc, jobs[j].id)
  BY <1>1, BindMade
<1>2. CASE Taken(jobs[j].doc, jobs[j].id)
  <2>1. Step(j, "failed") /\ UNCHANGED <<doc, remote, refs, crashes>> /\ jobs[j].step # "commit"
    BY <1>2 DEF Bind
  <2> QED BY <2>1, StepFailed
<1> QED BY <1>1, <1>2

\* The number is sent, and the job has no more than its commit left.
LEMMA TrackMove ==
    ASSUME OwnInv, NEW j \in DOMAIN jobs, Track(j)
    PROVE  /\ OwnInv' /\ refs' = refs /\ crashes' = crashes /\ UNCHANGED doc
           /\ DOMAIN remote' = DOMAIN remote
           /\ \A n \in DOMAIN remote : /\ remote[n].tracks \in Seq(Nat)
                                       /\ \/ remote'[n].tracks = remote[n].tracks
                                          \/ \E ref \in Nat : remote'[n].tracks = Append(remote[n].tracks, ref)
           /\ Claims(jobs[j])
           /\ \E old, r : ~Claims(r) /\ Follow(old, j, {r}, {})
<1> DEFINE d == jobs[j].doc
           id == jobs[j].id
           ref == jobs[j].ref
<1>1. /\ remote' = [remote EXCEPT ![id].tracks = Append(@, ref)] /\ Step(j, "commit")
      /\ jobs[j].step = "track" /\ doc' = doc /\ refs' = refs /\ crashes' = crashes
  BY DEF Track
<1>2. /\ d \in Docs /\ id \in DOMAIN remote /\ ref \in Nat /\ JobShape(jobs[j])
      /\ jobs[j].task = "tracking"
  BY <1>1, JobAt DEF JobShape, Owner
<1>3. remote \in Seq(RemoteRows) /\ remote[id] \in RemoteRows /\ remote[id].tracks \in Seq(Nat)
  <2>1. remote \in Seq(RemoteRows)
    BY DEF OwnInv, RowTypes
  <2>2. remote[id] \in RemoteRows
    BY <1>2, <2>1
  <2> QED BY <2>1, <2>2 DEF RemoteRows
<1>4. /\ remote' \in Seq(RemoteRows) /\ DOMAIN remote' = DOMAIN remote
      /\ \A n \in DOMAIN remote :
            /\ remote'[n].kind = remote[n].kind /\ remote'[n].items = remote[n].items
            /\ remote'[n].tracks = IF n = id THEN Append(remote[n].tracks, ref) ELSE remote[n].tracks
  <2> DEFINE more == Append(remote[id].tracks, ref)
             r == [remote[id] EXCEPT !.tracks = more]
  <2>1. more \in Seq(Nat)
    BY <1>2, <1>3, AppendProperties
  <2>2. remote' = [remote EXCEPT ![id] = [remote[id] EXCEPT !.tracks = more]]
    BY <1>1
  <2> HIDE DEF more
  <2>3. r \in RemoteRows /\ r.kind = remote[id].kind /\ r.items = remote[id].items /\ r.tracks = more
    BY <1>3, <2>1 DEF RemoteRows
  <2>4. remote' = [remote EXCEPT ![id] = r]
    BY <2>2
  <2> HIDE DEF r
  <2>5. remote' \in Seq(RemoteRows) /\ DOMAIN remote' = DOMAIN remote /\ remote'[id] = r
        /\ \A n \in DOMAIN remote : n # id => remote'[n] = remote[n]
    BY <1>2, <1>3, <2>3, <2>4, ExceptSeq
  <2> QED BY <2>3, <2>5 DEF more
<1>5. PICK r : /\ AtStep(j, r, "commit") /\ r.id = id
               /\ jobs' \in Seq(JobRows) /\ \E old : Follow(old, j, {r}, {})
  <2>1. jobs' = [jobs EXCEPT ![j].step = "commit"] /\ Unsent(j, "commit")
    BY <1>1 DEF Step, Unsent
  <2> QED BY <2>1, NextStep
<1>6. JobShape(r) /\ ~Claims(r) /\ Claims(jobs[j])
  BY <1>1, <1>2, <1>5 DEF JobShape, AtStep, Claims
<1>7. QuietStep
  <2>1. RowTypes'
    BY <1>1, <1>4, <1>5 DEF RowTypes, OwnInv
  <2>2. Grows
    BY <1>1, <1>4 DEF Grows, Done
  <2>3. \A i \in Invoices : doc'[i].method \in {"none", "bound"}
    BY <1>1 DEF OwnInv, DocsFit
  <2> QED BY <1>1, <1>4, <2>1, <2>2, <2>3 DEF QuietStep
<1>8. PICK old : Follow(old, j, {r}, {})
  BY <1>5
<1>9. OwnInv'
  <2>1. JobsMove(old, j, {r}, {})
    BY <1>8 DEF Follow
  <2> QED BY <1>6, <1>7, <2>1, OwnStays
<1>10. ASSUME NEW n \in DOMAIN remote
       PROVE  /\ remote[n].tracks \in Seq(Nat)
              /\ \/ remote'[n].tracks = remote[n].tracks
                 \/ \E x \in Nat : remote'[n].tracks = Append(remote[n].tracks, x)
  <2>1. remote[n] \in RemoteRows
    BY <1>3
  <2> QED BY <1>2, <1>4, <2>1 DEF RemoteRows
<1> QED BY <1>1, <1>4, <1>6, <1>8, <1>9, <1>10

LEMMA CrashOwn ==
    ASSUME OwnInv, NEW j \in DOMAIN jobs, Crash(j)
    PROVE  OwnInv'
<1>1. /\ doc' = doc /\ remote' = remote /\ refs' = refs /\ crashes' = crashes + 1
      /\ Step(j, "pending")
  BY DEF Crash
<1>2. jobs' = [jobs EXCEPT ![j] = [jobs[j] EXCEPT !.step = "pending"]]
  BY <1>1 DEF Step
<1> DEFINE r == [jobs[j] EXCEPT !.step = "pending"]
<1>3. r \in JobRows /\ r.task = jobs[j].task /\ r.doc = jobs[j].doc /\ r.step = "pending"
      /\ JobShape(jobs[j])
  BY JobAt DEF JobRows
<1>4. jobs' = [jobs EXCEPT ![j] = r]
  BY <1>2
<1> HIDE DEF r
<1>5. jobs' \in Seq(JobRows) /\ \E old : JobsMove(old, j, {r}, {})
  BY <1>3, <1>4, MoveOne DEF OwnInv
<1>6. JobShape(r)
  BY <1>3 DEF JobShape
<1>7. QuietStep
  <2>1. crashes' \in Nat
    BY <1>1, QuietTypes
  <2> QED BY <1>1, <1>5, <2>1, Quiet, QuietTypes
<1> QED BY <1>5, <1>6, <1>7, OwnStays

\* The delivery is given up, or the invoice is not found.
LEMMA CreateLost ==
    ASSUME OwnInv, NEW j \in DOMAIN jobs, Step(j, "done"), UNCHANGED <<doc, remote, refs, crashes>>
    PROVE  Keeps
<1>1. jobs' = RemoveAt(jobs, j)
  BY DEF Step
<1>2. jobs' \in Seq(JobRows) /\ \E old : Follow(old, j, {}, {})
  BY <1>1, Ends
<1>3. QuietStep
  BY <1>2, Quiet, QuietTypes
<1> QED BY <1>2, <1>3, JobKeeps, SameAll

LEMMA KindOf ==
    ASSUME OwnInv
    PROVE  /\ \A i \in Invoices : i \in Docs /\ Kind(i) = "invoice" /\ doc[i].method \in {"none", "bound"}
           /\ \A p \in Deliveries : p \in Docs /\ p \notin Invoices /\ Kind(p) = "shipment"
           /\ \A n \in DOMAIN remote : remote[n].kind \in {"shipment", "invoice"}
                                       /\ remote[n].items \subseteq Docs
<1>1. ASSUME NEW n \in DOMAIN remote
      PROVE  remote[n].kind \in {"shipment", "invoice"} /\ remote[n].items \subseteq Docs
  <2>1. remote \in Seq(RemoteRows)
    BY DEF OwnInv, RowTypes
  <2>2. remote[n] \in RemoteRows
    BY <2>1
  <2> QED BY <2>2 DEF RemoteRows
<1> QED BY <1>1, DocumentsAssumption DEF Kind, Docs, OwnInv, DocsFit

LEMMA ExistingNat == OwnInv => Existing \in Nat /\ (Existing # 0 => Existing \in DOMAIN remote)
<1>0. Existing = 0 => Existing \in Nat
  OBVIOUS
<1> SUFFICES ASSUME OwnInv, Existing # 0 PROVE Existing \in Nat /\ Existing \in DOMAIN remote
  BY <1>0
<1>1. DOMAIN remote = 1..Len(remote) /\ Len(remote) \in Nat
  BY DEF OwnInv, RowTypes
<1>2. Documents("invoice") # {}
  <2>1. Cardinality(Documents("invoice")) = 1
    BY DEF Existing
  <2> QED BY <2>1, FS_EmptySet
<1>3. Existing \in Documents("invoice")
  BY <1>2 DEF Existing
<1> QED BY <1>1, <1>3 DEF Documents

\* The only invoice there is on Magento has what this one is about, if it is not left.
LEMMA ExistingIsOwn ==
    ASSUME OwnInv, NEW i \in Invoices, Items(i) = {}, Existing # 0
    PROVE  Owner(i, Existing)
<1>0. SUFFICES ASSUME doc[i].lines PROVE Owner(i, Existing)
  BY ExistingNat DEF Owner
<1> DEFINE S == Documents("invoice")
<1>1. Kind(i) = "invoice" /\ doc[i].method # "complete" /\ i \notin Deliveries
  BY KindOf
<1>2. i \notin Left("invoice")
  BY <1>1 DEF Items
<1>3. PICK n \in S : i \in remote[n].items
  BY <1>0, <1>2 DEF Left
<1>4. Cardinality(S) = 1 /\ Existing = (CHOOSE m \in S : TRUE)
  BY DEF Existing
<1>5. IsFiniteSet(S)
  <2>1. DOMAIN remote = 1..Len(remote) /\ Len(remote) \in Nat
    BY DEF OwnInv, RowTypes
  <2>2. IsFiniteSet(1..Len(remote))
    BY <2>1, FS_Interval
  <2>3. S \subseteq 1..Len(remote)
    BY <2>1 DEF Documents
  <2> QED BY <2>2, <2>3, FS_Subset
<1>6. PICK x : S = {x}
  BY <1>4, <1>5, FS_Singleton
<1>7. Existing = n
  BY <1>3, <1>4, <1>6
<1>8. n \in DOMAIN remote
  BY <1>3 DEF Documents
<1> QED BY <1>1, <1>3, <1>7, <1>8 DEF Owner

\* The invoice is looked for and found.
LEMMA CreateFound ==
    ASSUME OwnInv, NEW j \in DOMAIN jobs, jobs[j].step = "create", Items(jobs[j].doc) = {},
           jobs[j].doc \in Invoices, UNCHANGED <<doc, remote, refs, crashes>>, Existing # 0,
           jobs' = [jobs EXCEPT ![j].step = "bind", ![j].id = Existing]
    PROVE  Keeps
<1>1. Existing \in Nat /\ Unsent(j, "bind")
  BY ExistingNat DEF Unsent
<1>2. PICK r : /\ AtStep(j, r, "bind") /\ r.id = Existing
               /\ jobs' \in Seq(JobRows) /\ \E old : Follow(old, j, {r}, {})
  BY <1>1, NextId
<1>3. JobShape(r)
  <2>1. Owner(r.doc, r.id)
    BY <1>2, ExistingIsOwn DEF AtStep
  <2> QED BY <1>2, <2>1, JobAt DEF JobShape, AtStep
<1>4. QuietStep
  BY <1>2, Quiet, QuietTypes
<1> QED BY <1>2, <1>3, <1>4, JobKeeps, SameAll

\* The document that is made has what the job is about: all that is left, and then
\* that too, or only that if the delivery is partial.
LEMMA MadeIsOwn ==
    ASSUME OwnInv, NEW d \in Docs, Items(d) # {}, d \in Deliveries => Done(d)
    PROVE  /\ (doc[d].lines => d \in Items(d)) /\ Items(d) \subseteq Docs
           /\ d \in Invoices => Kind(d) = "invoice"
           /\ d \in Deliveries =>
                 /\ Kind(d) = "shipment"
                 /\ \/ doc[d].method = "complete" /\ Items(d) = Left("shipment")
                    \/ doc[d].method = "partial" /\ Items(d) = {d}
<1>1. CASE d \in Invoices
  <2>1. Kind(d) = "invoice" /\ doc[d].method # "complete" /\ d \notin Deliveries
    BY <1>1, KindOf
  <2> QED BY <1>1, <2>1 DEF Items
<1>2. CASE d \notin Invoices /\ doc[d].method # "complete"
  <2>1. d \in Deliveries /\ Kind(d) = "shipment"
    BY <1>2, KindOf DEF Docs
  <2>2. doc[d].method = "partial"
    BY <1>2, <2>1 DEF OwnInv, DocsFit
  <2> QED BY <1>2, <2>1, <2>2 DEF Items
<1>3. CASE d \notin Invoices /\ doc[d].method = "complete"
  <2>1. d \in Deliveries /\ Kind(d) = "shipment" /\ Items(d) = Left("shipment")
    BY <1>3, KindOf DEF Docs, Items
  <2>2. \A n \in Documents("shipment") : d \notin remote[n].items
    BY <1>3, <2>1 DEF OwnInv, Shipped
  <2>3. (doc[d].lines => d \in Left("shipment")) /\ Left("shipment") \subseteq Deliveries
    BY <2>1, <2>2 DEF Left
  <2> QED BY <1>3, <2>1, <2>3 DEF Docs
<1> QED BY <1>1, <1>2, <1>3

LEMMA CreateMade ==
    ASSUME OwnInv, NEW j \in DOMAIN jobs, jobs[j].step = "create", Items(jobs[j].doc) # {},
           NEW d, d = jobs[j].doc, NEW n, n = Len(remote), UNCHANGED <<doc, refs, crashes>>,
           remote' = Append(remote, [kind |-> Kind(jobs[j].doc), items |-> Items(jobs[j].doc),
                                     tracks |-> <<>>]),
           jobs' = [jobs EXCEPT ![j].step = "bind", ![j].id = Len(remote')]
    PROVE  Keeps
<1> DEFINE items == Items(d)
           kind == Kind(d)
           new == [kind |-> kind, items |-> items, tracks |-> <<>>]
<1>1. d \in Docs /\ JobShape(jobs[j]) /\ (d \in Deliveries => Done(d))
  BY JobAt DEF JobShape
<1>2. /\ (doc[d].lines => d \in items) /\ items \subseteq Docs
      /\ d \in Invoices => kind = "invoice"
      /\ d \in Deliveries =>
            /\ kind = "shipment"
            /\ \/ doc[d].method = "complete" /\ items = Left("shipment")
               \/ doc[d].method = "partial" /\ items = {d}
  BY <1>1, MadeIsOwn
<1>3. remote \in Seq(RemoteRows) /\ n \in Nat /\ DOMAIN remote = 1..n
  BY DEF OwnInv, RowTypes
<1>4. new \in RemoteRows /\ new.kind = kind /\ new.items = items /\ new.tracks = <<>>
  <2>1. kind \in {"shipment", "invoice"} /\ <<>> \in Seq(Nat)
    BY DEF Kind
  <2> HIDE DEF kind, items
  <2> QED BY <1>2, <2>1 DEF RemoteRows
<1>5. remote' = Append(remote, new)
  OBVIOUS
<1> HIDE DEF new, items, kind
<1>6. /\ remote' \in Seq(RemoteRows) /\ Len(remote') = n + 1 /\ DOMAIN remote' = 1..(n + 1)
      /\ remote'[n + 1] = new /\ \A m \in 1..n : remote'[m] = remote[m]
  BY <1>3, <1>4, <1>5, AppendProperties
<1>7. PICK r : /\ AtStep(j, r, "bind") /\ r.id = n + 1
               /\ jobs' \in Seq(JobRows) /\ \E old : Follow(old, j, {r}, {})
  <2>1. Unsent(j, "bind") /\ n + 1 \in Nat
    BY <1>3 DEF Unsent
  <2>2. jobs' = [jobs EXCEPT ![j].step = "bind", ![j].id = n + 1]
    BY <1>6
  <2> QED BY <2>1, <2>2, NextId
<1>8. Grows
  BY <1>3, <1>6 DEF Grows, Done
<1>9. RowTypes'
  BY <1>6, <1>7 DEF RowTypes, OwnInv
<1>10. SameNumbers
  <2>1. \A m \in DOMAIN remote' :
           (m \in DOMAIN remote /\ remote'[m].tracks = remote[m].tracks) \/ remote'[m].tracks = <<>>
    BY <1>3, <1>4, <1>6
  <2> QED BY <2>1 DEF SameNumbers, Done
<1>11. Shipped'
  <2>1. \A m \in DOMAIN remote' : m \in DOMAIN remote \/ m = n + 1
    BY <1>3, <1>6
  <2>2. ASSUME NEW x \in Deliveries, x \in Left("shipment")'
        PROVE  x \in Left("shipment") /\ (d \in Deliveries => x \notin items)
    <3>1. ASSUME NEW m \in DOMAIN remote', remote'[m].kind = "shipment"
          PROVE  x \notin remote'[m].items
      BY <2>2, <3>1 DEF Left, Documents
    <3>2. ASSUME NEW m \in DOMAIN remote, remote[m].kind = "shipment"
          PROVE  x \notin remote[m].items
      <4>1. m \in DOMAIN remote' /\ remote'[m] = remote[m]
        BY <1>3, <1>6
      <4> QED BY <3>1, <3>2, <4>1
    <3>3. d \in Deliveries => x \notin items
      <4>1. n + 1 \in DOMAIN remote'
        BY <1>3, <1>6
      <4> QED BY <1>2, <1>4, <1>6, <3>1, <4>1
    <3>4. doc[x].lines
      BY <2>2 DEF Left
    <3> QED BY <3>2, <3>3, <3>4 DEF Left, Documents
  <2>3. Left("shipment")' \subseteq Deliveries
    BY DEF Left
  <2>4. ASSUME NEW m \in DOMAIN remote', remote'[m].kind = "shipment", Left("shipment")' # {}
        PROVE  \E p \in Deliveries : doc'[p].method = "partial" /\ remote'[m].items = {p}
    <3>1. CASE m \in DOMAIN remote
      <4>1. remote'[m] = remote[m] /\ m \in Documents("shipment")
        BY <1>3, <1>6, <2>4, <3>1 DEF Documents
      <4>2. Left("shipment") # {}
        BY <2>2, <2>3, <2>4
      <4> QED BY <4>1, <4>2 DEF OwnInv, Shipped
    <3>2. CASE m = n + 1
      <4>1. kind = "shipment" /\ remote'[m].items = items
        BY <1>4, <1>6, <2>4, <3>2
      <4>2. d \in Deliveries
        BY <1>1, <1>2, <4>1 DEF Docs
      <4>3. items # Left("shipment")
        BY <2>2, <2>3, <2>4, <4>2
      <4> QED BY <1>2, <4>1, <4>2, <4>3
    <3> QED BY <2>1, <3>1, <3>2
  <2> QED BY <2>4 DEF Shipped, Documents
<1>12. Owned'
  <2>1. ASSUME NEW x \in Docs, NEW m, m = doc'[x].bound, m # 0 PROVE Owner(x, m)'
    <3>1. Owner(x, m)
      BY <2>1 DEF OwnInv, Owned
    <3> QED BY <1>8, <3>1, OwnerStays
  <2>2. Owner(d, n + 1)'
    <3>1. n + 1 \in DOMAIN remote' /\ remote'[n + 1].items = items
      BY <1>3, <1>4, <1>6
    <3> QED BY <1>2, <3>1 DEF Owner
  <2>3. JobShape(r)'
    <3>1. d \in Deliveries => Done(d)'
      BY <1>1 DEF Done
    <3> QED BY <1>1, <1>7, <2>2, <3>1 DEF JobShape, AtStep
  <2>4. \E old : JobsMove(old, j, {r}, {})
    BY <1>7 DEF Follow
  <2>5. (\A i \in DOMAIN jobs : JobShape(jobs[i]))'
    BY <1>8, <2>3, <2>4, ShapesStay DEF OwnInv
  <2> QED BY <2>1, <2>5 DEF Owned
<1>13. Apart' /\ DocsFit'
  BY DEF OwnInv, Apart, DocsFit, Done
<1>14. OwnInv'
  BY <1>9, <1>11, <1>12, <1>13 DEF OwnInv
<1> QED BY <1>7, <1>10, <1>14 DEF Keeps

LEMMA CreateKeeps ==
    ASSUME OwnInv, NEW j \in DOMAIN jobs, Create(j)
    PROVE  Keeps
<1> DEFINE d == jobs[j].doc
<1>1. jobs[j].step = "create" /\ UNCHANGED <<doc, refs, crashes>>
  BY DEF Create
<1>2. CASE Items(d) # {}
  BY <1>1, <1>2, CreateMade DEF Create
<1>3. CASE Items(d) = {} /\ Step(j, "done") /\ UNCHANGED remote
  BY <1>1, <1>3, CreateLost
<1>4. CASE /\ Items(d) = {} /\ d \in Invoices /\ Existing # 0 /\ UNCHANGED remote
           /\ jobs' = [jobs EXCEPT ![j].step = "bind", ![j].id = Existing]
  BY <1>1, <1>4, CreateFound
<1>5. CASE Items(d) = {} /\ Step(j, "failed") /\ UNCHANGED remote
  BY <1>1, <1>5, StepFailed
<1> QED BY <1>2, <1>3, <1>4, <1>5 DEF Create

-----------------------------------------------------------------------------
(* Users                                                                   *)

\* A new job of a task for document d.
NewJob(t, task, d, with) ==
    /\ t \in JobRows /\ t.task = task /\ t.doc = d /\ t.with = with /\ t.step = "pending"

LEMMA JobIsNew ==
    ASSUME NEW task \in {"picking", "tracking", "invoice"}, NEW d \in Docs, NEW with \in BOOLEAN,
           NEW prio \in Nat
    PROVE  NewJob(Job(task, d, with, prio), task, d, with)
BY DEF NewJob, Job, JobRows

\* A delivery is done.
LEMMA TransferOwn ==
    ASSUME OwnInv, NEW n \in DOMAIN Pickings, NEW method \in {"partial", "complete"},
           Transfer(n, method), NEW p, p = Pickings[n]
    PROVE  /\ OwnInv' /\ refs' = refs /\ crashes' = crashes /\ remote' = remote
           /\ \A q \in Deliveries : doc'[q].ref = doc[q].ref /\ (Done(q) => Done(q)')
           /\ p \in Deliveries /\ ~Done(p) /\ Done(p)'
           /\ \E old, t : /\ NewJob(t, "picking", p, doc[p].ref # 0)
                          /\ JobsMove(old, 0, {}, {t})
<1>1. /\ doc[p].state = "draft"
      /\ n > 1 => doc[Pickings[n - 1]].state = "done" /\ doc[Pickings[n - 1]].method = "partial"
      /\ doc' = [doc EXCEPT ![p].state = "done", ![p].method = method]
      /\ jobs' = Append(jobs, Job("picking", p, doc[p].ref # 0, 10))
      /\ remote' = remote /\ refs' = refs /\ crashes' = crashes
  BY DEF Transfer
<1>2. p \in Deliveries /\ p \in Docs /\ p \notin Invoices
  BY DocumentsAssumption DEF Docs, Deliveries, Range
<1>3. doc \in [Docs -> DocRows]
  BY DEF OwnInv, RowTypes
<1>4. /\ doc' \in [Docs -> DocRows]
      /\ \A x \in Docs : /\ doc'[x].bound = doc[x].bound /\ doc'[x].ref = doc[x].ref
                         /\ doc'[x].lines = doc[x].lines
      /\ \A x \in Docs \ {p} : doc'[x] = doc[x]
      /\ doc'[p].state = "done" /\ doc'[p].method = method
  <2> DEFINE r == [doc[p] EXCEPT !.state = "done", !.method = method]
  <2>1. r \in DocRows /\ r.state = "done" /\ r.method = method
        /\ r.ref = doc[p].ref /\ r.bound = doc[p].bound /\ r.lines = doc[p].lines
    BY <1>2, <1>3 DEF DocRows
  <2>2. doc' = [doc EXCEPT ![p] = r]
    BY <1>1
  <2> HIDE DEF r
  <2> QED BY <1>2, <1>3, <2>1, <2>2
<1>5. \A x \in Deliveries \cup Invoices : x \in Docs
  BY DEF Docs
<1>6. ~Done(p) /\ doc[p].method = "none" /\ Done(p)'
      /\ \A q \in Deliveries : Done(q) => q # p /\ Done(q)'
  BY <1>1, <1>2, <1>4, <1>5 DEF Done, OwnInv, DocsFit
<1>7. PICK t : NewJob(t, "picking", p, doc[p].ref # 0) /\ jobs' = Append(jobs, t)
  BY <1>1, <1>2, JobIsNew
<1>8. jobs' \in Seq(JobRows) /\ \E old : JobsMove(old, 0, {}, {t})
  BY <1>7, MoveAppended DEF OwnInv, NewJob
<1>9. RowTypes'
  BY <1>1, <1>4, <1>8 DEF RowTypes, OwnInv
<1>10. Apart'
  BY <1>4 DEF OwnInv, Apart
<1>11. DocsFit'
  <2>1. ASSUME NEW q \in Deliveries
        PROVE  /\ doc'[q].state \in {"draft", "done"}
               /\ IF doc'[q].state = "done" THEN doc'[q].method \in {"partial", "complete"}
                  ELSE doc'[q].method = "none"
    <3>1. CASE q = p
      BY <1>4, <3>1
    <3>2. CASE q # p
      <4>1. doc'[q] = doc[q]
        BY <1>4, <1>5, <3>2
      <4> QED BY <4>1 DEF OwnInv, DocsFit, Done
    <3> QED BY <3>1, <3>2
  <2>2. \A i \in Invoices : doc'[i].method \in {"none", "bound"}
    BY <1>2, <1>4, <1>5 DEF OwnInv, DocsFit
  <2> QED BY <2>1, <2>2 DEF DocsFit, Done
<1>12. Grows
  BY <1>1, <1>4, <1>5, <1>6 DEF Grows
<1>13. Shipped'
  <2>1. Documents("shipment")' = Documents("shipment") /\ Left("shipment")' = Left("shipment")
    BY <1>1, <1>4, <1>5 DEF Left, Documents
  <2>2. \A q \in Deliveries : doc[q].method = "partial" => doc'[q].method = "partial"
    BY <1>4, <1>5, <1>6
  <2> QED BY <1>1, <2>1, <2>2 DEF OwnInv, Shipped
<1>14. Owned'
  <2>1. ASSUME NEW x \in Docs, NEW m, m = doc'[x].bound, m # 0 PROVE Owner(x, m)'
    <3>1. Owner(x, m)
      BY <1>4, <2>1 DEF OwnInv, Owned
    <3> QED BY <1>12, <3>1, OwnerStays
  <2>2. JobShape(t)'
    BY <1>2, <1>6, <1>7 DEF JobShape, NewJob
  <2>3. (\A i \in DOMAIN jobs : JobShape(jobs[i]))'
    BY <1>8, <1>12, <2>2, ShapesStay DEF OwnInv
  <2> QED BY <2>1, <2>3 DEF Owned
<1>15. OwnInv'
  BY <1>9, <1>10, <1>11, <1>13, <1>14 DEF OwnInv
<1> QED BY <1>1, <1>2, <1>4, <1>5, <1>6, <1>7, <1>8, <1>15

LEMMA SetTrackingRefOwn ==
    ASSUME OwnInv, NEW p \in Deliveries, SetTrackingRef(p)
    PROVE  /\ OwnInv' /\ refs' = refs + 1 /\ crashes' = crashes /\ remote' = remote
           /\ doc'[p].ref = refs'
           /\ \A q \in Deliveries : (q # p => doc'[q].ref = doc[q].ref) /\ (Done(q)' <=> Done(q))
           /\ \/ Done(p) /\ \E old, t : NewJob(t, "tracking", p, FALSE) /\ JobsMove(old, 0, {}, {t})
              \/ ~Done(p) /\ jobs' = jobs
<1>1. /\ doc' = [doc EXCEPT ![p].ref = refs'] /\ refs' = refs + 1
      /\ jobs' = IF Done(p) THEN Append(jobs, Job("tracking", p, FALSE, 20)) ELSE jobs
      /\ remote' = remote /\ crashes' = crashes
  BY DEF SetTrackingRef, Done
<1>2. p \in Docs /\ p \notin Invoices /\ refs' \in Nat
  BY <1>1, DocumentsAssumption, QuietTypes DEF Docs
<1>3. doc \in [Docs -> DocRows]
  BY DEF OwnInv, RowTypes
<1>4. /\ doc' \in [Docs -> DocRows]
      /\ \A x \in Docs : /\ doc'[x].state = doc[x].state /\ doc'[x].method = doc[x].method
                         /\ doc'[x].bound = doc[x].bound /\ doc'[x].lines = doc[x].lines
                         /\ doc'[x].ref = IF x = p THEN refs' ELSE doc[x].ref
  <2> DEFINE f == refs'
             r == [doc[p] EXCEPT !.ref = f]
  <2> HIDE DEF f
  <2>1. f \in Nat
    BY <1>2 DEF f
  <2>2. r \in DocRows /\ r.state = doc[p].state /\ r.method = doc[p].method
        /\ r.ref = f /\ r.bound = doc[p].bound /\ r.lines = doc[p].lines
    BY <1>2, <1>3, <2>1 DEF DocRows
  <2>3. doc' = [doc EXCEPT ![p] = r]
    BY <1>1 DEF f
  <2> HIDE DEF r
  <2> QED BY <1>2, <1>3, <2>2, <2>3 DEF f
<1>5. \A x \in Deliveries \cup Invoices : x \in Docs
  BY DEF Docs
<1>6. ASSUME jobs' \in Seq(JobRows) PROVE QuietStep
  <2>1. RowTypes'
    BY <1>1, <1>2, <1>4, <1>6 DEF RowTypes, OwnInv
  <2>2. Grows
    BY <1>1, <1>4, <1>5 DEF Grows, Done
  <2>3. \A i \in Invoices : doc'[i].method \in {"none", "bound"}
    BY <1>4, <1>5 DEF OwnInv, DocsFit
  <2> QED BY <1>1, <1>4, <1>5, <2>1, <2>2, <2>3 DEF QuietStep
<1>7. CASE Done(p)
  <2>1. PICK t : NewJob(t, "tracking", p, FALSE) /\ jobs' = Append(jobs, t)
    BY <1>1, <1>2, <1>7, JobIsNew
  <2>2. jobs' \in Seq(JobRows) /\ \E old : JobsMove(old, 0, {}, {t})
    BY <2>1, MoveAppended DEF OwnInv, NewJob
  <2>3. JobShape(t)
    BY <1>2, <1>7, <2>1 DEF JobShape, NewJob
  <2>4. OwnInv'
    BY <1>6, <2>2, <2>3, OwnStays
  <2> QED BY <1>1, <1>4, <1>5, <1>7, <2>1, <2>2, <2>4 DEF Done
<1>8. CASE ~Done(p)
  <2>1. jobs' = jobs /\ jobs' \in Seq(JobRows) /\ \E old : JobsMove(old, 0, {}, {})
    BY <1>1, <1>8, MoveNone DEF OwnInv
  <2>2. OwnInv'
    BY <1>6, <2>1, OwnStays
  <2> QED BY <1>1, <1>4, <1>5, <1>8, <2>1, <2>2 DEF Done
<1> QED BY <1>7, <1>8

\* What users do to an invoice.
LEMMA InvoiceWritten ==
    ASSUME OwnInv, NEW i \in Invoices, NEW r, r \in DocRows, r.method \in {"none", "bound"},
           r.bound = doc[i].bound, r.lines = doc[i].lines, doc' = [doc EXCEPT ![i] = r],
           UNCHANGED <<remote, refs, crashes>>, jobs' \in Seq(JobRows)
    PROVE  QuietStep /\ SameNumbers
<1>1. doc \in [Docs -> DocRows] /\ i \in Docs /\ i \notin Deliveries
  BY DocumentsAssumption DEF OwnInv, RowTypes, Docs
<1>2. /\ doc' \in [Docs -> DocRows]
      /\ \A x \in Docs : doc'[x].bound = doc[x].bound /\ doc'[x].lines = doc[x].lines
      /\ doc'[i] = r /\ \A x \in Docs \ {i} : doc'[x] = doc[x]
  BY <1>1
<1>3. \A x \in Deliveries : x \in Docs \ {i} /\ doc'[x] = doc[x]
  BY <1>1, <1>2 DEF Docs
<1>4. RowTypes'
  BY <1>2 DEF RowTypes, OwnInv
<1>5. Grows /\ SameNumbers
  BY <1>2, <1>3 DEF Grows, SameNumbers, Done
<1>6. \A x \in Invoices : doc'[x].method \in {"none", "bound"}
  <2>1. \A x \in Invoices : x = i \/ x \in Docs \ {i}
    BY DEF Docs
  <2> QED BY <1>2, <2>1 DEF OwnInv, DocsFit
<1> QED BY <1>2, <1>3, <1>4, <1>5, <1>6 DEF QuietStep

LEMMA InvoiceToKeeps ==
    ASSUME OwnInv, NEW i \in Invoices, NEW state \in {"open", "paid"}, InvoiceTo(i, state)
    PROVE  Keeps
<1>1. UNCHANGED <<remote, refs, crashes>>
  BY DEF InvoiceTo
<1>2. doc[i] \in DocRows /\ i \in Docs /\ i \notin Deliveries /\ doc[i].method \in {"none", "bound"}
  BY KindOf, DocAt
<1>3. CASE /\ doc' = [doc EXCEPT ![i].state = state, ![i].method = "bound"]
           /\ jobs' = Append(jobs, Job("invoice", i, FALSE, 10))
  <2> DEFINE r == [doc[i] EXCEPT !.state = state, !.method = "bound"]
  <2>1. r \in DocRows /\ r.method = "bound" /\ r.bound = doc[i].bound /\ r.lines = doc[i].lines
    BY <1>2 DEF DocRows
  <2>2. doc' = [doc EXCEPT ![i] = r]
    BY <1>3
  <2> HIDE DEF r
  <2>3. PICK t : NewJob(t, "invoice", i, FALSE) /\ jobs' = Append(jobs, t)
    BY <1>2, <1>3, JobIsNew
  <2>4. jobs' \in Seq(JobRows) /\ \E old : JobsMove(old, 0, {}, {t})
    BY <2>3, MoveAppended DEF OwnInv, NewJob
  <2>5. QuietStep /\ SameNumbers
    BY <1>1, <2>1, <2>2, <2>4, InvoiceWritten
  <2>6. JobShape(t) /\ ~Claims(t)
    BY <1>2, <2>3 DEF JobShape, NewJob, Claims
  <2>7. PICK old : JobsMove(old, 0, {}, {t})
    BY <2>4
  <2>8. Follow(old, 0, {}, {t})
    BY <2>6, <2>7 DEF Follow
  <2>9. OwnInv'
    BY <2>5, <2>6, <2>7, OwnStays
  <2> QED BY <2>5, <2>8, <2>9 DEF Keeps
<1>4. CASE doc' = [doc EXCEPT ![i].state = state] /\ jobs' = jobs
  <2> DEFINE r == [doc[i] EXCEPT !.state = state]
  <2>1. r \in DocRows /\ r.method = doc[i].method /\ r.bound = doc[i].bound /\ r.lines = doc[i].lines
    BY <1>2 DEF DocRows
  <2>2. doc' = [doc EXCEPT ![i] = r]
    BY <1>4
  <2> HIDE DEF r
  <2>3. jobs' \in Seq(JobRows) /\ \E old : JobsMove(old, 0, {}, {})
    BY <1>4, MoveNone DEF OwnInv
  <2>4. QuietStep /\ SameNumbers
    BY <1>1, <1>2, <2>1, <2>2, <2>3, InvoiceWritten
  <2>5. \E old : Follow(old, 0, {}, {})
    BY <2>3 DEF Follow
  <2> QED BY <2>4, <2>5, JobKeeps
<1> QED BY <1>3, <1>4 DEF InvoiceTo

LEMMA InvoiceUnpaidKeeps ==
    ASSUME OwnInv, NEW i \in Invoices, InvoiceUnpaid(i)
    PROVE  Keeps
<1>1. UNCHANGED <<remote, refs, crashes>> /\ jobs' = jobs
      /\ doc' = [doc EXCEPT ![i].state = "open"]
  BY DEF InvoiceUnpaid
<1>2. doc[i] \in DocRows /\ doc[i].method \in {"none", "bound"}
  BY KindOf, DocAt
<1> DEFINE r == [doc[i] EXCEPT !.state = "open"]
<1>3. r \in DocRows /\ r.method = doc[i].method /\ r.bound = doc[i].bound /\ r.lines = doc[i].lines
  BY <1>2 DEF DocRows
<1>4. doc' = [doc EXCEPT ![i] = r]
  BY <1>1
<1> HIDE DEF r
<1>5. jobs' \in Seq(JobRows) /\ \E old : JobsMove(old, 0, {}, {})
  BY <1>1, MoveNone DEF OwnInv
<1>6. QuietStep /\ SameNumbers
  BY <1>1, <1>2, <1>3, <1>4, <1>5, InvoiceWritten
<1>7. \E old : Follow(old, 0, {}, {})
  BY <1>5 DEF Follow
<1> QED BY <1>6, <1>7, JobKeeps

LEMMA StutterKeeps ==
    ASSUME OwnInv, UNCHANGED vars
    PROVE  Keeps
<1>1. UNCHANGED <<doc, remote, refs, crashes>> /\ jobs' = jobs
  BY DEF vars
<1>2. jobs' \in Seq(JobRows) /\ \E old : JobsMove(old, 0, {}, {})
  BY <1>1, MoveNone DEF OwnInv
<1>3. QuietStep
  BY <1>1, <1>2, Quiet, QuietTypes
<1>4. \E old : Follow(old, 0, {}, {})
  BY <1>2 DEF Follow
<1> QED BY <1>1, <1>3, <1>4, JobKeeps, SameAll

-----------------------------------------------------------------------------
(* Tracking numbers                                                        *)

LEMMA KeepsBoth ==
    ASSUME SentInv, Keeps
    PROVE  OwnInv' /\ SentInv'
<1>1. OwnInv' /\ SameNumbers
  BY DEF Keeps
<1>2. PICK old, j, At, New : Follow(old, j, At, New)
  BY DEF Keeps
<1>3. refs' = refs /\ crashes' = crashes
  BY <1>1 DEF SameNumbers
<1>4. OneNumber => OneNumber'
  BY <1>1, <1>2, SentStays
<1> QED BY <1>1, <1>3, <1>4 DEF SentInv

\* A new job claims the number, if no job did.
LEMMA ClaimMade ==
    ASSUME NEW old, NEW t, JobsMove(old, 0, {}, {t}), \A j \in DOMAIN jobs : ~Claims(jobs[j]),
           DOMAIN jobs = 1..Len(jobs)
    PROVE  /\ (\A i, j \in DOMAIN jobs : Claims(jobs[i]) /\ Claims(jobs[j]) => i = j)'
           /\ ~Claims(t) => (\A j \in DOMAIN jobs : ~Claims(jobs[j]))'
<1>1. ASSUME NEW i \in DOMAIN jobs', NEW u, u = jobs'[i], Claims(u) PROVE old[i] = 0 /\ u = t
  <2>1. old[i] = 0 \/ old[i] \in DOMAIN jobs
    BY DEF JobsMove
  <2>2. old[i] # 0 => u = jobs[old[i]]
    BY <1>1 DEF JobsMove
  <2> QED BY <1>1, <2>1, <2>2 DEF JobsMove
<1>2. \A i \in DOMAIN jobs' : Claims(jobs'[i]) => old[i] = 0 /\ jobs'[i] = t
  BY <1>1
<1>3. \A i, j \in DOMAIN jobs' : Claims(jobs'[i]) /\ Claims(jobs'[j]) => i = j
  BY <1>2 DEF JobsMove
<1>4. ~Claims(t) => \A j \in DOMAIN jobs' : ~Claims(jobs'[j])
  BY <1>2
<1> QED BY <1>3, <1>4 DEF Claims

LEMMA TransferSent ==
    ASSUME OwnInv, SentInv, NEW n \in DOMAIN Pickings, NEW method \in {"partial", "complete"},
           Transfer(n, method)
    PROVE  OwnInv' /\ SentInv'
<1>1. PICK p : p = Pickings[n]
  OBVIOUS
<1>2. /\ OwnInv' /\ refs' = refs /\ crashes' = crashes /\ remote' = remote
      /\ \A q \in Deliveries : doc'[q].ref = doc[q].ref /\ (Done(q) => Done(q)')
      /\ p \in Deliveries /\ ~Done(p) /\ Done(p)'
  BY <1>1, TransferOwn
<1>3. PICK old, t : NewJob(t, "picking", p, doc[p].ref # 0) /\ JobsMove(old, 0, {}, {t})
  BY <1>1, TransferOwn
<1>4. CASE ~OneNumber
  BY <1>2, <1>4 DEF SentInv
<1>5. CASE doc[p].ref = 0
  <2>1. ~Claims(t)
    BY <1>3, <1>5 DEF NewJob, Claims
  <2>2. Follow(old, 0, {}, {t})
    BY <1>3, <2>1 DEF Follow
  <2>3. SameNumbers
    BY <1>2 DEF SameNumbers
  <2> QED BY <1>2, <2>2, <2>3, KeepsBoth DEF Keeps
<1>6. CASE OneNumber /\ doc[p].ref # 0
  <2>1. Unclaimed /\ refs # 0
    BY <1>2, <1>6 DEF OneNumber
  <2>2. NoneSent'
    BY <1>2, <2>1 DEF Unclaimed, NoneSent
  <2>3. DOMAIN jobs = 1..Len(jobs)
    BY DEF OwnInv, RowTypes
  <2>4. (\A i, j \in DOMAIN jobs : Claims(jobs[i]) /\ Claims(jobs[j]) => i = j)'
    BY <1>3, <2>1, <2>3, ClaimMade DEF Unclaimed
  <2>5. ASSUME NEW q \in Deliveries, doc'[q].ref # 0 PROVE Done(q)'
    BY <1>2, <1>6, <2>5 DEF OneNumber
  <2>6. \A a, b \in Deliveries : doc'[a].ref # 0 /\ doc'[b].ref # 0 => a = b
    BY <1>2, <1>6 DEF OneNumber
  <2>7. \A m \in DOMAIN remote' : Len(remote'[m].tracks) <= 1
    BY <1>2, <1>6 DEF OneNumber
  <2>8. OneNumber'
    BY <1>2, <2>1, <2>2, <2>4, <2>5, <2>6, <2>7 DEF OneNumber
  <2> QED BY <1>2, <2>8 DEF SentInv
<1> QED BY <1>4, <1>5, <1>6

LEMMA SetTrackingRefSent ==
    ASSUME OwnInv, SentInv, NEW p \in Deliveries, SetTrackingRef(p)
    PROVE  OwnInv' /\ SentInv'
<1>1. /\ OwnInv' /\ refs' = refs + 1 /\ crashes' = crashes /\ remote' = remote
      /\ \A q \in Deliveries : (q # p => doc'[q].ref = doc[q].ref) /\ (Done(q)' <=> Done(q))
      /\ \/ Done(p) /\ \E old, t : NewJob(t, "tracking", p, FALSE) /\ JobsMove(old, 0, {}, {t})
         \/ ~Done(p) /\ jobs' = jobs
  BY SetTrackingRefOwn
<1>2. refs \in Nat
  BY QuietTypes
<1>3. CASE ~(refs' <= 1 /\ crashes' = 0)
  BY <1>1, <1>3 DEF SentInv
<1>4. CASE refs' <= 1 /\ crashes' = 0
  <2>1. refs = 0 /\ refs' # 0
    BY <1>1, <1>2, <1>4
  <2>2. Unclaimed /\ \A q \in Deliveries : doc[q].ref = 0
    BY <1>1, <1>4, <2>1 DEF SentInv, OneNumber
  <2>3. NoneSent /\ NoneSent'
    BY <1>1, <2>2 DEF Unclaimed, NoneSent
  <2>4. DOMAIN jobs = 1..Len(jobs) /\ \A j \in DOMAIN jobs : ~Claims(jobs[j])
    BY <2>2 DEF OwnInv, RowTypes, Unclaimed
  <2>5. /\ (\A i, j \in DOMAIN jobs : Claims(jobs[i]) /\ Claims(jobs[j]) => i = j)'
        /\ ~Done(p) => Unclaimed'
    <3>1. CASE Done(p)
      BY <1>1, <2>4, <3>1, ClaimMade
    <3>2. CASE ~Done(p)
      <4>1. jobs' = jobs
        BY <1>1, <3>2
      <4> QED BY <2>3, <2>4, <4>1 DEF Unclaimed, Claims
    <3> QED BY <3>1, <3>2
  <2>6. \A a, b \in Deliveries : doc'[a].ref # 0 /\ doc'[b].ref # 0 => a = b
    BY <1>1, <2>2
  <2>7. (\A q \in Deliveries : doc[q].ref # 0 /\ ~Done(q) => Unclaimed)'
    <3>1. \A q \in Deliveries : doc'[q].ref # 0 => q = p
      BY <1>1, <2>2
    <3> QED BY <1>1, <2>5, <3>1
  <2>8. \A n \in DOMAIN remote' : Len(remote'[n].tracks) <= 1
    BY <2>3 DEF NoneSent
  <2>9. OneNumber'
    BY <2>1, <2>3, <2>5, <2>6, <2>7, <2>8 DEF OneNumber
  <2> QED BY <1>1, <2>9 DEF SentInv
<1> QED BY <1>3, <1>4

LEMMA TrackSent ==
    ASSUME OwnInv, SentInv, NEW j \in DOMAIN jobs, Track(j)
    PROVE  OwnInv' /\ SentInv'
<1>1. /\ OwnInv' /\ refs' = refs /\ crashes' = crashes /\ UNCHANGED doc
      /\ DOMAIN remote' = DOMAIN remote
      /\ \A n \in DOMAIN remote : /\ remote[n].tracks \in Seq(Nat)
                                  /\ \/ remote'[n].tracks = remote[n].tracks
                                     \/ \E ref \in Nat : remote'[n].tracks = Append(remote[n].tracks, ref)
      /\ Claims(jobs[j])
  BY TrackMove
<1>2. PICK old, r : ~Claims(r) /\ Follow(old, j, {r}, {})
  BY TrackMove
<1>3. CASE ~OneNumber
  BY <1>1, <1>3 DEF SentInv
<1>4. CASE OneNumber
  <2>1. NoneSent /\ refs # 0
    BY <1>1, <1>4 DEF OneNumber, Unclaimed
  <2>2. ASSUME NEW i \in DOMAIN jobs', NEW u, u = jobs'[i] PROVE ~Claims(u)
    <3>1. old[i] \in DOMAIN jobs \/ old[i] = 0
      BY <1>2 DEF Follow, JobsMove
    <3>2. CASE old[i] = 0
      BY <1>2, <3>2 DEF Follow, JobsMove
    <3>3. CASE old[i] # 0 /\ old[i] = j
      BY <1>2, <2>2, <3>3 DEF Follow, JobsMove
    <3>4. CASE old[i] # 0 /\ old[i] # j
      <4>1. u = jobs[old[i]] /\ old[i] \in DOMAIN jobs
        BY <1>2, <2>2, <3>1, <3>4 DEF Follow, JobsMove
      <4> QED BY <1>1, <1>4, <3>4, <4>1 DEF OneNumber
    <3> QED BY <3>2, <3>3, <3>4
  <2>3. (\A i \in DOMAIN jobs : ~Claims(jobs[i]))'
    BY <2>2 DEF Claims
  <2>4. ASSUME NEW n \in DOMAIN remote' PROVE Len(remote'[n].tracks) <= 1
    <3>1. remote[n].tracks = <<>>
      BY <1>1, <2>1 DEF NoneSent
    <3> QED BY <1>1, <3>1
  <2>5. (\A p \in Deliveries : doc[p].ref # 0 /\ ~Done(p) => Unclaimed)'
    <3>1. ~Unclaimed
      BY <1>1 DEF Unclaimed
    <3> QED BY <1>1, <1>4, <3>1 DEF OneNumber, Done
  <2>6. OneNumber'
    BY <1>1, <1>4, <2>1, <2>3, <2>4, <2>5 DEF OneNumber
  <2> QED BY <1>1, <2>6 DEF SentInv
<1> QED BY <1>3, <1>4

LEMMA CrashSent ==
    ASSUME OwnInv, NEW j \in DOMAIN jobs, Crash(j)
    PROVE  OwnInv' /\ SentInv'
<1>1. crashes' = crashes + 1 /\ crashes \in Nat
  BY QuietTypes DEF Crash
<1> QED BY <1>1, CrashOwn DEF SentInv

-----------------------------------------------------------------------------
(* The theorems                                                            *)

LEMMA AtFirst == Init => OwnInv /\ SentInv
<1> SUFFICES ASSUME Init PROVE OwnInv /\ SentInv
  OBVIOUS
<1>1. PICK M \in SUBSET Manual :
           doc = [d \in Docs |-> [state |-> "draft", method |-> "none", bound |-> 0, ref |-> 0,
                                  lines |-> d \notin M]]
  BY DEF Init
<1>9. remote = <<>> /\ jobs = <<>> /\ refs = 0 /\ crashes = 0
  BY DEF Init
<1>2. RowTypes
  BY <1>1, <1>9 DEF RowTypes, DocRows
<1>3. DOMAIN jobs = {} /\ DOMAIN remote = {}
  BY <1>9
<1>4. \A d \in Docs : /\ doc[d].state = "draft" /\ doc[d].method = "none"
                      /\ doc[d].bound = 0 /\ doc[d].ref = 0
  BY <1>1
<1>5. \A p \in Deliveries \cup Invoices : p \in Docs
  BY DEF Docs
<1>6. Apart /\ DocsFit
  BY <1>4, <1>5 DEF Apart, DocsFit, Done
<1>7. Shipped /\ Owned
  BY <1>3, <1>4 DEF Shipped, Owned, Documents
<1>8. OneNumber
  BY <1>3, <1>4, <1>5 DEF OneNumber, Unclaimed, NoneSent
<1> QED BY <1>2, <1>6, <1>7, <1>8 DEF OwnInv, SentInv

LEMMA OneStep == OwnInv /\ SentInv /\ [Next]_vars => OwnInv' /\ SentInv'
<1> SUFFICES ASSUME OwnInv, SentInv, [Next]_vars PROVE OwnInv' /\ SentInv'
  OBVIOUS
<1>1. ASSUME NEW j \in DOMAIN jobs, JobStep(j) PROVE OwnInv' /\ SentInv'
  <2>1. CASE Begin(j)
    BY <2>1, BeginKeeps, KeepsBoth
  <2>2. CASE Create(j)
    BY <2>2, CreateKeeps, KeepsBoth
  <2>3. CASE Bind(j)
    BY <2>3, BindKeeps, KeepsBoth
  <2>4. CASE Track(j)
    BY <2>4, TrackSent
  <2>5. CASE Commit(j)
    BY <2>5, CommitKeeps, KeepsBoth
  <2>6. CASE End(j)
    BY <2>6, EndKeeps, KeepsBoth
  <2> QED BY <1>1, <2>1, <2>2, <2>3, <2>4, <2>5, <2>6 DEF JobStep
<1>2. ASSUME NEW j \in DOMAIN jobs, Crash(j) PROVE OwnInv' /\ SentInv'
  BY <1>2, CrashSent
<1>3. ASSUME NEW n \in DOMAIN Pickings, NEW method \in {"partial", "complete"}, Transfer(n, method)
      PROVE  OwnInv' /\ SentInv'
  BY <1>3, TransferSent
<1>4. ASSUME NEW p \in Deliveries, SetTrackingRef(p) PROVE OwnInv' /\ SentInv'
  BY <1>4, SetTrackingRefSent
<1>5. ASSUME NEW i \in Invoices, InvoiceUnpaid(i) PROVE OwnInv' /\ SentInv'
  BY <1>5, InvoiceUnpaidKeeps, KeepsBoth
<1>6. ASSUME NEW i \in Invoices, NEW s \in {"open", "paid"}, InvoiceTo(i, s) PROVE OwnInv' /\ SentInv'
  BY <1>6, InvoiceToKeeps, KeepsBoth
<1>7. CASE UNCHANGED vars
  BY <1>7, StutterKeeps, KeepsBoth
<1> QED BY <1>1, <1>2, <1>3, <1>4, <1>5, <1>6, <1>7 DEF Next

LEMMA AlwaysOwned == Spec => [](OwnInv /\ SentInv)
BY AtFirst, OneStep, PTL DEF Spec

\* Whatever a document with lines of the order is bound to on Magento has its items,
\* also when an answer was lost and the only invoice there is was taken, and no two
\* documents are bound to the same, whatever was taken by an invoice without lines
\* (MagentoInvoiceExporter.run, MagentoPickingExporter.run, magento_uniq).
THEOREM DocumentsAreOwn == Spec => []BoundToItsOwn
<1>1. OwnInv => BoundToItsOwn
  <2> SUFFICES ASSUME OwnInv PROVE BoundToItsOwn
    OBVIOUS
  <2>1. \A d \in Docs : doc[d].bound # 0 => Owner(d, doc[d].bound)
    BY DEF OwnInv, Owned
  <2>2. Apart
    BY DEF OwnInv
  <2> QED BY <2>1, <2>2 DEF BoundToItsOwn, Owner, Apart
<1> QED BY <1>1, AlwaysOwned, PTL

\* With no more than one tracking number written and no job killed, no delivery has
\* its number twice on Magento: one job at a time is to send it, the export of the
\* delivery or the job that the number has made (delay_export_picking_out,
\* on_tracking_number_added, export_picking_done).
THEOREM NumberSentOnce == Spec => []TrackSentOnce
<1>1. OwnInv /\ SentInv => TrackSentOnce
  <2> SUFFICES ASSUME OwnInv, SentInv, NEW p \in Deliveries, refs <= 1, crashes = 0 PROVE Sent(p) <= 1
    BY DEF TrackSentOnce
  <2>1. doc[p].bound # 0 => doc[p].bound \in DOMAIN remote
    BY DEF OwnInv, Owned, Owner, Docs
  <2>2. \A n \in DOMAIN remote : Len(remote[n].tracks) <= 1
    BY DEF SentInv, OneNumber
  <2> QED BY <2>1, <2>2 DEF Sent
<1> QED BY <1>1, AlwaysOwned, PTL
=============================================================================
