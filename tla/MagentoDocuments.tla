-------------------------- MODULE MagentoDocuments -------------------------
(***************************************************************************)
(* The delivery orders, tracking numbers and invoices of one Magento order *)
(* (magentoerpconnect/stock_picking.py, stock_tracking.py, invoice.py and  *)
(* connector_ecommerce/stock.py): what users do makes bindings and jobs,   *)
(* the jobs create documents on Magento and then store their ids.  What a  *)
(* job does on Magento stays when the job is killed before it commits.     *)
(* Each document is about one item of the order, or about none when all its *)
(* lines were added by hand; a complete delivery takes the items left.     *)
(***************************************************************************)
EXTENDS Integers, Sequences, FiniteSets, SequencesExt

CONSTANTS
    Pickings,       \* the sequence of deliveries, each backorder of the last
    Invoices,       \* the invoices of the order
    Manual,         \* deliveries and invoices that may have no line of the order
    CreateOn,       \* create_invoice_on of the payment method or the shop
    MaxRunning,     \* jobs that run at the same time
    MaxRefs,        \* bound of the tracking numbers that are written
    MaxUnpaid,      \* bound of the payments that are taken back
    MaxCrashes,     \* bound of the jobs that are killed
    MaxBoth         \* bound of the last two together

Deliveries == Range(Pickings)
Docs == Deliveries \cup Invoices

ASSUME DocumentsAssumption ==
    /\ Pickings \in Seq(Deliveries) /\ IsInjective(Pickings) /\ Deliveries \cap Invoices = {}
    /\ Manual \subseteq Docs /\ CreateOn \in {"open", "paid"}
    /\ {MaxRunning, MaxRefs, MaxUnpaid, MaxCrashes, MaxBoth} \subseteq Nat

VARIABLES
    doc,        \* stock.picking, account.invoice with their Magento binding
    remote,     \* the shipments and invoices of the order on Magento
    jobs,       \* queue.job in the order of creation
    refs,       \* how many tracking numbers were written
    unpaid, crashes,
    lost        \* history: deliveries of which a job met fault 102

vars == <<doc, remote, jobs, refs, unpaid, crashes, lost>>

-----------------------------------------------------------------------------
(* Magento *)

Kind(d) == IF d \in Invoices THEN "invoice" ELSE "shipment"
Documents(kind) == {n \in DOMAIN remote : remote[n].kind = kind}
Left(kind) ==
    {d \in (IF kind = "invoice" THEN Invoices ELSE Deliveries) : doc[d].lines}
        \ UNION {remote[n].items : n \in Documents(kind)}

\* The items a document is created with: none if it has no line of the order, or
\* if they are not left, which Magento refuses.
Items(d) == IF doc[d].method = "complete" THEN Left(Kind(d)) ELSE {d} \cap Left(Kind(d))

-----------------------------------------------------------------------------
(* Jobs *)

\* A job with its keyword argument and its priority.
Job(task, d, with, prio) ==
    [task |-> task, doc |-> d, with |-> with, prio |-> prio,
     step |-> "pending", id |-> 0, ref |-> 0]
Going(j) == jobs[j].step \in {"create", "bind", "commit", "track", "end"}

\* The pending job of the best priority, the oldest of them.
IsNext(j) ==
    /\ jobs[j].step = "pending"
    /\ \A i \in DOMAIN jobs : jobs[i].step = "pending" =>
          \/ jobs[j].prio < jobs[i].prio
          \/ jobs[j].prio = jobs[i].prio /\ j <= i

\* A job that is done is forgotten.
Step(j, step) ==
    jobs' = IF step = "done" THEN RemoveAt(jobs, j) ELSE [jobs EXCEPT ![j].step = step]

\* What the job does first: nothing for an exported delivery but its tracking
\* number, nothing without a tracking number.
FirstStep(j) ==
    CASE jobs[j].task = "tracking" /\ doc[jobs[j].doc].ref = 0 -> "done"
      [] jobs[j].task = "tracking" /\ doc[jobs[j].doc].bound # 0 -> "track"
      [] jobs[j].task = "picking" /\ doc[jobs[j].doc].bound # 0 -> "end"
      [] OTHER -> "create"

\* The job starts and reads its document.
Begin(j) ==
    /\ IsNext(j)
    /\ Cardinality({i \in DOMAIN jobs : Going(i)}) < MaxRunning
    /\ jobs' = IF FirstStep(j) = "done" THEN RemoveAt(jobs, j)
               ELSE [jobs EXCEPT ![j].step = FirstStep(j), ![j].ref = doc[jobs[j].doc].ref,
                                 ![j].id = doc[jobs[j].doc].bound]
    /\ UNCHANGED <<doc, remote, refs, unpaid, crashes, lost>>

\* Mutant of Existing: the first of the invoices found.
ExistingFirst == IF Documents("invoice") = {} THEN 0
                 ELSE CHOOSE n \in Documents("invoice") : \A m \in Documents("invoice") : n <= m

\* _get_existing_invoice: the invoice of the order, if it is the only one.
Existing ==
    IF Cardinality(Documents("invoice")) = 1 THEN CHOOSE n \in Documents("invoice") : TRUE
    ELSE 0

\* create on Magento.  A delivery is given up when it has no line of the order and
\* at fault 102.  An invoice without a line of the order is not sent; one that is
\* on Magento already meets fault 102 or gets no id.  Then the invoice is looked for;
\* if it is not found, the job fails after a fault and is done otherwise.
Create(j) ==
    LET d == jobs[j].doc  items == Items(d)
    IN /\ jobs[j].step = "create"
       /\ \/ /\ items # {}
             /\ remote' = Append(remote, [kind |-> Kind(d), items |-> items, tracks |-> <<>>])
             /\ jobs' = [jobs EXCEPT ![j].step = "bind", ![j].id = Len(remote')]
             /\ UNCHANGED lost
          \/ /\ items = {} /\ d \in Deliveries
             /\ Step(j, "done") /\ lost' = lost \cup {d}
             /\ UNCHANGED remote
          \/ /\ items = {} /\ d \in Invoices
             /\ \/ /\ Existing # 0
                   /\ jobs' = [jobs EXCEPT ![j].step = "bind", ![j].id = Existing]
                \/ Existing = 0 /\ Step(j, "done")
                \/ Existing = 0 /\ doc[d].lines /\ Step(j, "failed")
             /\ UNCHANGED <<remote, lost>>
       /\ UNCHANGED <<doc, refs, unpaid, crashes>>

\* magento_uniq: another document has this id.
Taken(d, id) == \E e \in Docs \ {d} : doc[e].bound = id

\* binder.bind and commit, refused for an id that is taken.
Bind(j) ==
    LET d == jobs[j].doc
    IN /\ jobs[j].step = "bind"
       /\ \/ /\ ~Taken(d, jobs[j].id)
             /\ doc' = [doc EXCEPT ![d].bound = jobs[j].id]
             /\ Step(j, CASE jobs[j].task = "picking" -> "end"
                          [] jobs[j].task = "tracking" -> "track"
                          [] OTHER -> "done")
          \/ Taken(d, jobs[j].id) /\ Step(j, "failed") /\ UNCHANGED doc
       /\ UNCHANGED <<remote, refs, unpaid, crashes, lost>>

\* add_tracking_number, with the number that was read at the beginning.
Track(j) ==
    /\ jobs[j].step = "track"
    /\ remote' = [remote EXCEPT ![jobs[j].id].tracks = Append(@, jobs[j].ref)]
    /\ Step(j, "commit")
    /\ UNCHANGED <<doc, refs, unpaid, crashes, lost>>

Commit(j) ==
    /\ jobs[j].step = "commit" /\ Step(j, "done")
    /\ UNCHANGED <<doc, remote, refs, unpaid, crashes, lost>>

\* Mutant of TracksToo: the number of the delivery as it is now is looked at.
TracksTooNow(j) == doc[jobs[j].doc].ref # 0

\* with_tracking, and the number of the delivery.
TracksToo(j) == jobs[j].with /\ doc[jobs[j].doc].ref # 0

\* The end of export_picking_done.
End(j) ==
    LET more == IF TracksToo(j) THEN <<Job("tracking", jobs[j].doc, FALSE, 10)>> ELSE <<>>
    IN /\ jobs[j].step = "end"
       /\ jobs' = RemoveAt(jobs, j) \o more
       /\ UNCHANGED <<doc, remote, refs, unpaid, crashes, lost>>

\* The process of a job dies, the job is run again later.
Crash(j) ==
    /\ Going(j) /\ crashes < MaxCrashes /\ unpaid + crashes < MaxBoth
    /\ crashes' = crashes + 1
    /\ Step(j, "pending")
    /\ UNCHANGED <<doc, remote, refs, unpaid, lost>>

-----------------------------------------------------------------------------
(* Users *)

\* do_transfer and action_done, on_picking_out_done: the binding is created
\* and export_picking_done is delayed.
Transfer(n, method) ==
    LET p == Pickings[n]
    IN /\ doc[p].state = "draft"
       /\ n > 1 => doc[Pickings[n - 1]].state = "done" /\ doc[Pickings[n - 1]].method = "partial"
       /\ method = "partial" => n < Len(Pickings)
       /\ doc' = [doc EXCEPT ![p].state = "done", ![p].method = method]
       /\ jobs' = Append(jobs, Job("picking", p, doc[p].ref # 0, 10))
       /\ UNCHANGED <<remote, refs, unpaid, crashes, lost>>

\* Mutant of SetTrackingRef: a job only for a binding with its id.
SetTrackingRefIfBound(p) ==
    /\ refs < MaxRefs /\ refs' = refs + 1
    /\ doc' = [doc EXCEPT ![p].ref = refs']
    /\ jobs' = IF doc[p].bound # 0 THEN Append(jobs, Job("tracking", p, FALSE, 20))
               ELSE jobs
    /\ UNCHANGED <<remote, unpaid, crashes, lost>>

\* write of carrier_tracking_ref: on_tracking_number_added delays a job for
\* the binding, if there is one yet.
SetTrackingRef(p) ==
    /\ refs < MaxRefs /\ refs' = refs + 1
    /\ doc' = [doc EXCEPT ![p].ref = refs']
    /\ jobs' = IF doc[p].state = "done" THEN Append(jobs, Job("tracking", p, FALSE, 20))
               ELSE jobs
    /\ UNCHANGED <<remote, unpaid, crashes, lost>>

HasBinding(i) == doc[i].method = "bound"

\* An invoice is validated or paid: invoice_create_bindings, which creates one
\* binding, and export_invoice is delayed.
InvoiceTo(i, state) ==
    /\ doc[i].state = (IF state = "open" THEN "draft" ELSE "open")
    /\ IF state = CreateOn /\ ~HasBinding(i)
       THEN /\ doc' = [doc EXCEPT ![i].state = state, ![i].method = "bound"]
            /\ jobs' = Append(jobs, Job("invoice", i, FALSE, 10))
       ELSE /\ doc' = [doc EXCEPT ![i].state = state] /\ UNCHANGED jobs
    /\ UNCHANGED <<remote, refs, unpaid, crashes, lost>>

\* The payment is taken back, the invoice is open again.
InvoiceUnpaid(i) ==
    /\ doc[i].state = "paid" /\ unpaid < MaxUnpaid /\ unpaid + crashes < MaxBoth
    /\ unpaid' = unpaid + 1
    /\ doc' = [doc EXCEPT ![i].state = "open"]
    /\ UNCHANGED <<remote, jobs, refs, crashes, lost>>

-----------------------------------------------------------------------------
Init ==
    /\ \E M \in SUBSET Manual :
          doc = [d \in Docs |-> [state |-> "draft", method |-> "none", bound |-> 0, ref |-> 0,
                                 lines |-> d \notin M]]
    /\ remote = <<>> /\ jobs = <<>>
    /\ refs = 0 /\ unpaid = 0 /\ crashes = 0
    /\ lost = {}

JobStep(j) == Begin(j) \/ Create(j) \/ Bind(j) \/ Track(j) \/ Commit(j) \/ End(j)

Next ==
    \/ \E j \in DOMAIN jobs : JobStep(j) \/ Crash(j)
    \/ \E n \in DOMAIN Pickings, method \in {"partial", "complete"} : Transfer(n, method)
    \/ \E p \in Deliveries : SetTrackingRef(p)
    \/ \E i \in Invoices : InvoiceUnpaid(i) \/ \E s \in {"open", "paid"} : InvoiceTo(i, s)

Spec == Init /\ [][Next]_vars

\* The runner starts the jobs, which come to an end.
FairSpec == Spec /\ WF_vars(\E j \in DOMAIN jobs : JobStep(j))

-----------------------------------------------------------------------------
(* Properties *)

\* What the rows and the documents on Magento hold; an invoice has one job
\* (the binding is unique).
DocumentsTypeOK ==
    /\ \A d \in Docs :
          /\ doc[d].state \in {"draft", "done", "open", "paid"}
          /\ doc[d].bound \in 0..Len(remote)
    /\ \A i, j \in DOMAIN jobs : jobs[i].task = "invoice" /\ jobs[j].doc = jobs[i].doc => i = j
    /\ \A n \in DOMAIN remote : remote[n].items \subseteq Docs /\ remote[n].items # {}
    /\ \A j \in DOMAIN jobs :
          jobs[j].step \in {"pending", "create", "bind", "track", "commit", "end", "failed"}

\* The document on Magento to which an invoice or a delivery is bound is one
\* with its items, also when the answer of Magento was lost and the invoice is
\* looked for, and although an invoice without lines of the order may have taken the
\* id of another one; and no two documents are bound to the same
\* (MagentoInvoiceExporter.run, MagentoPickingExporter.run, magento_uniq).
\* A document without lines of the order has no items that could be its own: an
\* invoice is then bound to the only one of the order, whosever it is.
BoundToItsOwn ==
    /\ \A d \in Docs : doc[d].bound # 0 /\ doc[d].lines => d \in remote[doc[d].bound].items
    /\ \A d, e \in Docs : doc[d].bound # 0 /\ doc[d].bound = doc[e].bound => d = e

\* A tracking number is sent once, whether it is there before the delivery is
\* done or comes while its export waits or runs, if none is replaced and no
\* process dies (delay_export_picking_out).
Sent(p) == IF doc[p].bound = 0 THEN 0 ELSE Len(remote[doc[p].bound].tracks)
TrackSentOnce ==
    \A p \in Deliveries : refs <= 1 /\ crashes = 0 => Sent(p) <= 1

\* A tracking number of a delivery that is done arrives on Magento, unless it
\* is replaced before or a job of the delivery has met fault 102
\* (export_picking_done, MagentoTrackingExporter.run).
Arrived(p, ref) ==
    doc[p].bound # 0 /\ ref \in Range(remote[doc[p].bound].tracks)
TrackArrives ==
    \A p \in Deliveries, ref \in 1..MaxRefs :
        (doc[p].state = "done" /\ doc[p].ref = ref)
            ~> (p \in lost \/ doc[p].ref # ref \/ Arrived(p, ref))
=============================================================================
