---------------------------- MODULE MagentoOrders ---------------------------
(***************************************************************************)
(* A Magento order that is edited again and again: Magento cancels it and  *)
(* places another one with the first as its parent.  The orders are        *)
(* imported by jobs, an import flags the parents it finds as canceled in   *)
(* the backend and tries to cancel them (magentoerpconnect/sale.py,        *)
(* connector_ecommerce/sale.py), an order with such a parent cannot be     *)
(* confirmed (sale_exceptions), one with payments cannot be canceled       *)
(* (sale_payment_method), and jobs tell Magento what users cancel and      *)
(* reopen.  A job works in a transaction on the rows of its beginning, and *)
(* starts again if one it writes was written in the meantime.              *)
(***************************************************************************)
EXTENDS Integers, Sequences, FiniteSets, SequencesExt

CONSTANTS
    Chain,          \* the orders: each the parent of the next one
    NoOrder,        \* null
    ImportRule,     \* import_rule of the payment method of an order
    HasJournal,     \* the payment method has a journal
    MaxRunning,     \* jobs that run at the same time
    MaxUser,        \* bound of what users do besides confirming and canceling
    MaxCrashes      \* bound of the jobs that are killed

Orders == Range(Chain)
Place(o) == CHOOSE n \in DOMAIN Chain : Chain[n] = o

ASSUME OrdersAssumption ==
    /\ Chain \in Seq(Orders) /\ IsInjective(Chain) /\ NoOrder \notin Orders
    /\ ImportRule \in [Orders -> {"always", "paid"}] /\ HasJournal \in BOOLEAN
    /\ {MaxRunning, MaxUser, MaxCrashes} \subseteq Nat

VARIABLES
    magento,        \* state, status and payment of each order on Magento
    sales,          \* sale.order, in the order of their creation
    binding,        \* magento.sale.order: the sale.order and the parent
    jobs,           \* queue.job in the order of their creation
    listed,         \* the orders a batch has found
    users, crashes,
    raced           \* history: the tasks of which two jobs have run together

vars == <<magento, sales, binding, jobs, listed, users, crashes, raced>>

-----------------------------------------------------------------------------
(* Orders *)

Bound == {o \in Orders : binding[o].sale # 0}
Sale(o) == sales[binding[o].sale]
OrderOf(s) == {o \in Orders : binding[o].sale = s}
IsCanceled(o) == o \in Bound /\ Sale(o).state = "cancel"
AtWork(sale) == sale.state \in {"progress", "except", "done"}

\* get_parent_id, along the whole chain: the least set with the parent of o and
\* those of its members.
Parents(o) ==
    LET Closed(S) == \A p \in S \cup {o} : binding[p].parent \in S \cup {NoOrder}
    IN {p \in Orders : \A S \in SUBSET Orders : Closed(S) => p \in S}

NeedCancel(sale) == sale.canceled /\ ~sale.resolved

\* Mutant of ParentNeedCancel: only the nearest parent is looked at.
ParentNeedCancelNearest(s) ==
    \E o \in OrderOf(s) : binding[o].parent # NoOrder /\ NeedCancel(Sale(binding[o].parent))

ParentNeedCancel(s) == \E o \in OrderOf(s) : \E p \in Parents(o) : NeedCancel(Sale(p))

\* detect_exceptions with the two rules of connector_ecommerce.
Exceptions(s) == ~sales[s].ignore /\ (NeedCancel(sales[s]) \/ ParentNeedCancel(s))

\* action_cancel: refused by payments, deliveries or invoices.
CanCancel(sale) == ~sale.paid /\ ~sale.documents
Canceled(sale) == [sale EXCEPT !.state = "cancel", !.resolved = @ \/ sale.canceled]

TryAutoCancel(sale) ==
    CASE sale.state = "cancel" -> [sale EXCEPT !.resolved = TRUE]
      [] sale.state \in {"draft", "progress"} /\ CanCancel(sale) -> Canceled(sale)
      [] OTHER -> sale

\* write({'canceled_in_backend': True}) of a parent that has not this flag.
Flag(sale) == IF sale.canceled THEN sale ELSE TryAutoCancel([sale EXCEPT !.canceled = TRUE])

-----------------------------------------------------------------------------
(* Jobs *)

Job(task, o, only) ==
    [task |-> task, order |-> o, only |-> only, step |-> "pending", late |-> FALSE,
     seen |-> {}, conflict |-> FALSE, paid |-> FALSE, status |-> "none"]
ImportJob(o) == Job("import", o, FALSE)
StateJob(o, only) == Job("state", o, only)

Going(j) == jobs[j].step # "pending"
Priority(j) == IF jobs[j].task = "import" THEN 5 ELSE 10
Before(j, i) == Priority(j) < Priority(i) \/ (Priority(j) = Priority(i) /\ j <= i)

\* A job that is postponed may be ready again or not.
IsNext(j) ==
    /\ jobs[j].step = "pending"
    /\ \A i \in DOMAIN jobs : jobs[i].step = "pending" /\ ~jobs[i].late => Before(j, i)

Ended(j) == RemoveAt(jobs, j)
Postponed(j) ==
    [jobs EXCEPT ![j] = [Job(@.task, @.order, @.only) EXCEPT !.late = TRUE]]

\* The rows a job writes besides new ones: those of the parents it has found,
\* or the binding of its order.
Rows(os) == {"sale", "binding"} \X os
Writes(job) == IF job.task = "import" THEN Rows(job.seen) ELSE {<<"binding", job.order>>}

\* The jobs when a transaction has written these rows.
Wrote(js, rows) ==
    [i \in DOMAIN js |-> IF js[i].step = "pending" THEN js[i]
                         ELSE [js[i] EXCEPT !.conflict = @ \/ rows \cap Writes(js[i]) # {}]]

JobsFor(os, only) == [n \in 1..Cardinality(os) |-> StateJob(SetToSeq(os)[n], only)]

\* Mutant of CancelJobs: Magento is not told.
CancelJobsNone(os) == <<>>

\* write of sale.order: a job for each binding of an order that is canceled.
CancelJobs(os) == JobsFor(os, TRUE)

\* Mutant of ReopenJobs: with the allowed states of a cancellation.
ReopenJobsCancel(os) == JobsFor(os, TRUE)

\* copy_quotation: a job for each binding of an order that is copied.
ReopenJobs(os) == JobsFor(os, FALSE)

\* The worker takes this job.
Start(j) ==
    /\ IsNext(j) /\ Cardinality({i \in DOMAIN jobs : Going(i)}) < MaxRunning
    /\ raced' = raced \cup {jobs[i].task : i \in {k \in DOMAIN jobs : Going(k)
                                                    /\ jobs[k].task = jobs[j].task}}

\* Mutant of RuleGlobal: an order that was canceled on Magento since the job
\* was created is imported.
RuleGlobalNone(o) == TRUE

\* _rule_global.
RuleGlobal(o) == magento[o].state # "canceled"

\* SaleOrderImporter.run: _must_skip, then the rules; the rows of the import
\* are those of its beginning.
BeginImport(j) ==
    LET o == jobs[j].order
    IN /\ jobs[j].task = "import" /\ Start(j)
       /\ \/ /\ o \in Bound \/ ~RuleGlobal(o)
             /\ jobs' = Ended(j)
          \/ /\ o \notin Bound /\ RuleGlobal(o)
             /\ ImportRule[o] = "paid" /\ ~magento[o].paid /\ ~jobs[j].late
             /\ jobs' = Postponed(j)
          \/ /\ o \notin Bound /\ RuleGlobal(o)
             /\ ImportRule[o] = "paid" => magento[o].paid
             /\ jobs' = [jobs EXCEPT ![j].step = "write", ![j].paid = magento[o].paid,
                                     ![j].seen = {p \in Bound : Place(p) < Place(o)}]
       /\ UNCHANGED <<magento, sales, binding, listed, users, crashes>>

\* The nearest parent of those an import has found.
Nearest(o, ps) ==
    LET lower == {p \in ps : Place(p) < Place(o)}
    IN IF lower = {} THEN NoOrder ELSE CHOOSE p \in lower : \A q \in lower : Place(q) <= Place(p)

\* _create, bind, _link_parent_orders and _create_payment; the rows of the
\* parents may have been written since the beginning.
WriteImport(j) ==
    LET o == jobs[j].order
        parents == jobs[j].seen
        new == [state |-> "draft", canceled |-> FALSE, resolved |-> FALSE, ignore |-> FALSE,
                paid |-> HasJournal /\ jobs[j].paid, documents |-> FALSE, kept |-> FALSE]
        flagged == [s \in DOMAIN sales |->
                        IF \E p \in parents : binding[p].sale = s THEN Flag(sales[s]) ELSE sales[s]]
        stopped == {p \in parents : /\ Sale(p).state # "cancel"
                                    /\ flagged[binding[p].sale].state = "cancel"}
    IN /\ jobs[j].step = "write"
       /\ IF jobs[j].conflict
          THEN jobs' = Postponed(j) /\ UNCHANGED <<sales, binding>>
          ELSE /\ sales' = Append(flagged, new)
               /\ binding' = [p \in Orders |->
                      IF p = o THEN [sale |-> Len(sales'), parent |-> Nearest(o, parents)]
                      ELSE IF p \in parents /\ Nearest(p, parents) # NoOrder
                           THEN [binding[p] EXCEPT !.parent = Nearest(p, parents)]
                           ELSE binding[p]]
               /\ jobs' = Wrote(Ended(j), Rows(parents \cup {o})) \o CancelJobs(stopped)
       /\ UNCHANGED <<magento, listed, users, crashes, raced>>

Status(state) ==
    CASE state = "draft" -> "pending"
      [] state \in {"progress", "except"} -> "processing"
      [] state = "done" -> "complete"
      [] state = "cancel" -> "canceled"

\* allowed_states of the job of an order that was canceled.
NotExported(j) == jobs[j].only /\ Sale(jobs[j].order).state # "cancel"

\* StateExporter.run: the state of the order, and the status on Magento.
BeginState(j) ==
    LET o == jobs[j].order  status == Status(Sale(o).state)
    IN /\ jobs[j].task = "state" /\ Start(j)
       /\ jobs' = IF NotExported(j) \/ magento[o].status = status THEN Ended(j)
                  ELSE [jobs EXCEPT ![j].step = "send", ![j].status = status]
       /\ UNCHANGED <<magento, sales, binding, listed, users, crashes>>

SendState(j) ==
    /\ jobs[j].step = "send"
    /\ magento' = [magento EXCEPT ![jobs[j].order].status = jobs[j].status]
    /\ jobs' = [jobs EXCEPT ![j].step = "bind", ![j].status = "none"]
    /\ UNCHANGED <<sales, binding, listed, users, crashes, raced>>

BindState(j) ==
    /\ jobs[j].step = "bind"
    /\ jobs' = IF jobs[j].conflict THEN Postponed(j) ELSE Wrote(Ended(j), Writes(jobs[j]))
    /\ UNCHANGED <<magento, sales, binding, listed, users, crashes, raced>>

Crash(j) ==
    /\ Going(j) /\ crashes < MaxCrashes /\ crashes' = crashes + 1
    /\ jobs' = Postponed(j)
    /\ UNCHANGED <<magento, sales, binding, listed, users, raced>>

-----------------------------------------------------------------------------
(* Users of OpenERP *)

\* A transaction of a user that writes this sale order.
Store(s, sale) ==
    /\ sales' = [sales EXCEPT ![s] = sale]
    /\ jobs' = Wrote(jobs, {"sale"} \X OrderOf(s))
               \o (IF sale.state = "cancel" /\ sales[s].state # "cancel"
                   THEN CancelJobs(OrderOf(s)) ELSE <<>>)
    /\ UNCHANGED <<magento, binding, listed, crashes, raced>>

\* action_button_confirm, of a user or of the automatic workflow.
Confirm(s) ==
    /\ sales[s].state = "draft" /\ ~Exceptions(s)
    /\ Store(s, [sales[s] EXCEPT !.state = "progress"])
    /\ UNCHANGED users

CancelSale(s) ==
    /\ sales[s].state \in {"draft", "progress"} /\ CanCancel(sales[s])
    /\ Store(s, Canceled(sales[s]))
    /\ UNCHANGED users

\* The wizards that ignore the exceptions and the cancellation.
IgnoreExceptions(s) ==
    /\ Exceptions(s) /\ Store(s, [sales[s] EXCEPT !.ignore = TRUE])
IgnoreCancellation(s) ==
    /\ NeedCancel(sales[s])
    /\ Store(s, [sales[s] EXCEPT !.resolved = TRUE, !.kept = TRUE])

\* Deliveries, invoices and payments of an order at work.
Deliver(s) ==
    /\ sales[s].state = "progress"
    /\ \E state \in {"progress", "except", "done"} :
          Store(s, [sales[s] EXCEPT !.state = state, !.documents = TRUE])
Recover(s) ==
    /\ sales[s].state \in {"progress", "except"} /\ sales[s].documents
    /\ Store(s, [sales[s] EXCEPT !.state = "progress", !.documents = FALSE])
SetPaid(s) ==
    /\ HasJournal /\ sales[s].state # "cancel"
    /\ Store(s, [sales[s] EXCEPT !.paid = ~@])

UserStep(s) ==
    /\ users < MaxUser /\ users' = users + 1
    /\ \/ IgnoreExceptions(s) \/ IgnoreCancellation(s)
       \/ Deliver(s) \/ Recover(s) \/ SetPaid(s)

\* copy_quotation: the flags of the backend are copied, and create tries to
\* cancel the new order at once; its binding comes after it.
CopyQuotation(s) ==
    LET copy == [sales[s] EXCEPT !.state = "draft", !.ignore = FALSE, !.paid = FALSE,
                                 !.documents = FALSE, !.kept = FALSE]
        moved == OrderOf(s)
    IN /\ sales[s].state = "cancel" /\ users < MaxUser /\ users' = users + 1
       /\ sales' = Append(sales, IF copy.canceled THEN TryAutoCancel(copy) ELSE copy)
       /\ binding' = [o \in Orders |->
              IF o \in moved THEN [binding[o] EXCEPT !.sale = Len(sales')] ELSE binding[o]]
       /\ jobs' = Wrote(jobs, {"binding"} \X moved)
                  \o ReopenJobs(moved)
       /\ UNCHANGED <<magento, listed, crashes, raced>>

-----------------------------------------------------------------------------
(* Magento *)

\* The first order is placed, or the last one edited.
PlaceOrder(o) ==
    /\ magento[o].state = "none"
    /\ Place(o) > 1 => magento[Chain[Place(o) - 1]].state = "new"
    /\ magento' = [p \in Orders |->
           IF p = o THEN [state |-> "new", status |-> "pending", paid |-> FALSE]
           ELSE IF Place(p) = Place(o) - 1
                THEN [magento[p] EXCEPT !.state = "canceled", !.status = "canceled"]
                ELSE magento[p]]
    /\ UNCHANGED <<sales, binding, jobs, listed, users, crashes, raced>>

\* The payments that an import waits for; the others are entered by users.
PayOrder(o) ==
    /\ ImportRule[o] = "paid" /\ magento[o].state = "new" /\ ~magento[o].paid
    /\ magento' = [magento EXCEPT ![o].paid = TRUE]
    /\ UNCHANGED <<sales, binding, jobs, listed, users, crashes, raced>>

\* sale_order_import_batch finds an order that is not canceled.
ListOrder(o) ==
    /\ magento[o].state = "new" /\ o \notin listed
    /\ listed' = listed \cup {o} /\ jobs' = Append(jobs, ImportJob(o))
    /\ UNCHANGED <<magento, sales, binding, users, crashes, raced>>

-----------------------------------------------------------------------------
Init ==
    /\ magento = [o \in Orders |-> [state |-> "none", status |-> "none", paid |-> FALSE]]
    /\ sales = <<>> /\ binding = [o \in Orders |-> [sale |-> 0, parent |-> NoOrder]]
    /\ jobs = <<>> /\ listed = {} /\ users = 0 /\ crashes = 0 /\ raced = {}

JobStep(j) ==
    BeginImport(j) \/ WriteImport(j) \/ BeginState(j) \/ SendState(j) \/ BindState(j)

Next ==
    \/ \E j \in DOMAIN jobs : JobStep(j) \/ Crash(j)
    \/ \E s \in DOMAIN sales : Confirm(s) \/ CancelSale(s) \/ UserStep(s) \/ CopyQuotation(s)
    \/ \E o \in Orders : PlaceOrder(o) \/ PayOrder(o) \/ ListOrder(o)

Spec == Init /\ [][Next]_vars

\* The runner starts the jobs, which come to an end.
FairSpec == Spec /\ WF_vars(\E j \in DOMAIN jobs : JobStep(j))

-----------------------------------------------------------------------------
(* Properties *)

\* What the rows hold: an order is bound to one sale order, of which nothing
\* was lost, and its parent is an order before it.
OrdersTypeOK ==
    /\ \A o \in Orders :
          /\ binding[o].sale \in 0..Len(sales)
          /\ binding[o].parent \in {NoOrder} \cup {p \in Bound : Place(p) < Place(o)}
    /\ \A s \in DOMAIN sales : Cardinality(OrderOf(s)) <= 1
    /\ \A j \in DOMAIN jobs : jobs[j].task = "state" => jobs[j].order \in Bound

\* Of an order and the one it was edited to, both imported, the first is
\* flagged as canceled in the backend, also after copies of it, unless their
\* imports have run at the same time (_link_parent_orders, _rule_global).
ParentFlagged ==
    "import" \notin raced =>
        \A p, o \in Bound : Place(p) < Place(o) => Sale(p).canceled

\* An order and the one it was edited to are not both at work, unless a user
\* has kept the first or ignored the exceptions of one of them
\* (excep_parent_order_need_cancel, action_button_confirm).
OneOrderAtWork ==
    "import" \notin raced => \A p, o \in Bound :
        Place(p) < Place(o) /\ AtWork(Sale(p)) /\ AtWork(Sale(o))
            => Sale(p).kept \/ Sale(o).ignore

\* When no job of an order is left, one that is open on both sides is not
\* shown as canceled on Magento, unless two jobs have run at the same time
\* (allowed_states of export_state_change, copy_quotation).
NotShownCanceled ==
    "state" \notin raced => \A o \in Bound :
        /\ magento[o].state = "new" /\ Sale(o).state # "cancel"
        /\ \A j \in DOMAIN jobs : jobs[j].order # o
        => magento[o].status # "canceled"

\* A sale order that is canceled is shown as canceled on Magento in the end,
\* unless it is copied before or two jobs have run at the same time
\* (SaleOrder.write).
CancelArrives ==
    \A o \in Orders : IsCanceled(o) ~> \/ magento[o].status = "canceled"
                                       \/ ~IsCanceled(o) \/ "state" \in raced
=============================================================================
