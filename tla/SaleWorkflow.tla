---------------------------- MODULE SaleWorkflow ----------------------------
(***************************************************************************)
(* Orders that a cron brings to their end: it confirms them, validates     *)
(* their invoices, transfers their deliveries and reconciles the invoices  *)
(* with what was paid with the order (sale_automatic_workflow,             *)
(* sale_payment_method, sale_payment_method_automatic_workflow), while     *)
(* rules hold orders back (sale_exceptions), users work on the same        *)
(* documents with the buttons of numa_uniqs_base, and invoices and         *)
(* deliveries get their official numbers (InvoiceNumbers, stock.py).       *)
(***************************************************************************)
EXTENDS InvoiceNumbers, SequencesExt

CONSTANTS
    Total,          \* the amount of each order
    Amounts,        \* what Magento may say is paid of it
    InvoiceOn,      \* create_invoice_on of the workflow of each order
    OrderDates,     \* order -> its date
    ForceDate,      \* the orders with invoice_date_is_order_date
    Cron,           \* the cron as one of the Validators
    MaxActs         \* bound of what users do and of the exceptions the cron discards

ASSUME WorkflowAssumption ==
    /\ Cron \in Validators /\ IsFiniteSet(Orders)
    /\ Total \in [Orders -> Nat \ {0}] /\ Amounts \in [Orders -> SUBSET Nat]
    /\ InvoiceOn \in [Orders -> {"on_order_confirm", "on_picking_done"}]
    /\ OrderDates \in [Orders -> Days] /\ ForceDate \subseteq Orders
    /\ MaxActs \in Nat

VARIABLES
    orders,         \* sale.order with its workflow instance and payments
    pickings,       \* the delivery of each order
    remito,         \* r_next_number of the store point
    cron,           \* the step of the cron and the records it has found
    acts            \* what users have done, and the exceptions

numbersVars == <<today, invoices, sequences, txns, given>>
vars == <<numbersVars, orders, pickings, remito, cron, acts>>

Steps == <<"orders", "invoices", "pickings", "reconcile">>

-----------------------------------------------------------------------------
(* Orders *)

\* detect_exceptions: the rules fail and are not ignored.
Blocked(o) == orders[o].failing /\ ~orders[o].ignore

\* test_create_invoice, when the workflow waits to invoice the order.
CreatesInvoice(o, shipped) ==
    orders[o].auto /\ (InvoiceOn[o] = "on_order_confirm" \/ shipped)

InvoicesOf(o) == {i \in DOMAIN invoices : invoices[i].order = o}

\* _prepare_invoice: an invoice of the same process, perhaps of its date.
OrderInvoice(o) ==
    NewInvoice(o, IF o \in ForceDate THEN OrderDates[o] ELSE 0, TRUE, FALSE)

\* An order is invoiced once by its workflow.
Invoicing(os) ==
    LET due == {o \in os : InvoicesOf(o) = {}}
    IN invoices' = invoices \o [n \in 1..Cardinality(due) |-> OrderInvoice(SetToSeq(due)[n])]

\* Mutant of SignalConfirm: a workflow that was stopped goes on again.
SignalConfirmStopped(o) == orders[o].act # "running" /\ ~Blocked(o)

\* The signal order_confirm has an effect in draft only, if no rule fails.
SignalConfirm(o) == orders[o].act = "draft" /\ ~Blocked(o)

Running(o) ==
    /\ orders' = [orders EXCEPT ![o].act = "running", ![o].state = "progress"]
    /\ pickings' = [pickings EXCEPT ![o] =
           [@ EXCEPT !.state = "assigned", !.auto = orders[o].auto]]
    /\ Invoicing({p \in {o} : CreatesInvoice(p, FALSE)})

\* The import of an order, with the payment in the same transaction.
Import(o) ==
    /\ orders[o].state = "none"
    /\ \E amount \in Amounts[o], failing \in BOOLEAN :
          orders' = [orders EXCEPT ![o] =
              [@ EXCEPT !.state = "draft", !.act = "draft", !.auto = TRUE,
                        !.failing = failing, !.free = amount]]
    /\ UNCHANGED <<numbersVars, pickings, remito, cron, acts>>

-----------------------------------------------------------------------------
(* The cron *)

OrdersIn(state) == {o \in Orders : orders[o].state = state /\ orders[o].auto}
PickingsIn(state) == {o \in Orders : pickings[o].state = state /\ pickings[o].auto}
InvoicesIn(state) == {i \in DOMAIN invoices : invoices[i].state = state}

\* Mutant of Found: deliveries that are assigned are not looked for.
FoundConfirmed(step) ==
    CASE step = "orders"    -> OrdersIn("draft")
      [] step = "invoices"  -> {i \in InvoicesIn("draft") : invoices[i].auto}
      [] step = "pickings"  -> PickingsIn("confirmed")
      [] step = "reconcile" -> InvoicesIn("open")

\* What each step searches for once, at its beginning.
Found(step) ==
    CASE step = "orders"    -> OrdersIn("draft")
      [] step = "invoices"  -> {i \in InvoicesIn("draft") : invoices[i].auto}
      [] step = "pickings"  -> PickingsIn("assigned")
      [] step = "reconcile" -> InvoicesIn("open")

\* The pickings are transferred in the transaction of their search.
CronSearch(n) ==
    LET next == (n % Len(Steps)) + 1
        found == Found(Steps[next])
    IN /\ cron.step = n /\ cron.todo = {} /\ txns[Cron] = Idle
       /\ cron' = IF Steps[next] = "pickings"
                   THEN [step |-> next, todo |-> found, remito |-> remito,
                         seen |-> [o \in found |-> pickings[o]]]
                   ELSE [step |-> next, todo |-> found, remito |-> 0, seen |-> <<>>]
       /\ UNCHANGED <<numbersVars, orders, pickings, remito, acts>>

At(step) == Steps[cron.step] = step
Taken(x) == x \in cron.todo /\ cron' = [cron EXCEPT !.todo = @ \ {x}]

\* action_button_confirm, of what was in draft when it was searched for.
CronConfirm(o) ==
    /\ At("orders") /\ Taken(o)
    /\ IF SignalConfirm(o) THEN Running(o) ELSE UNCHANGED <<orders, pickings, invoices>>
    /\ UNCHANGED <<today, sequences, txns, given, remito, acts>>

\* The signal invoice_open: without effect if it is no draft, or refused.
CronValidate(i) ==
    /\ At("invoices") /\ txns[Cron] = Idle /\ Taken(i)
    /\ IF invoices[i].state = "draft" /\ CanNumber(invoices[i])
       THEN BeginValidation(Cron, i) ELSE UNCHANGED numbersVars
    /\ UNCHANGED <<orders, pickings, remito, acts>>

\* action_done: the next numbers of the store point, in some order.
Transferred(os, first) ==
    LET row == SetToSeq(os)
        Number(o) == first - 1 + CHOOSE n \in DOMAIN row : row[n] = o
    IN /\ pickings' = [o \in Orders |->
              IF o \in os THEN [pickings[o] EXCEPT !.state = "done", !.number = Number(o)]
              ELSE pickings[o]]
       /\ remito' = first + Cardinality(os)
       /\ Invoicing({o \in os : orders[o].act = "running" /\ CreatesInvoice(o, TRUE)})

\* Mutant of PickingsConflict: the number is not among the rows written.
PickingsConflictNone == \E o \in cron.todo : pickings[o] # cron.seen[o]

PickingsConflict ==
    remito # cron.remito \/ \E o \in cron.todo : pickings[o] # cron.seen[o]

\* validate_picking of all that were found: all of them, or none.
CronTransfer ==
    /\ At("pickings") /\ cron.todo # {}
    /\ cron' = [cron EXCEPT !.todo = {}, !.remito = 0, !.seen = <<>>]
    /\ IF PickingsConflict \/ \E o \in cron.todo : pickings[o].stuck
       THEN UNCHANGED <<pickings, remito, invoices>>
       ELSE Transferred(cron.todo, cron.remito)
    /\ UNCHANGED <<today, sequences, txns, given, orders, acts>>

\* The lines of the payment that no reconciliation has used.
Covers(o) == orders[o].free > 0 /\ orders[o].free = Total[o]

CronReconcile(i) ==
    LET o == invoices[i].order
    IN /\ At("reconcile") /\ Taken(i)
       /\ IF invoices[i].state = "open" /\ ~invoices[i].refund /\ Covers(o)
          THEN /\ invoices' = [invoices EXCEPT ![i].state = "paid"]
               /\ orders' = [orders EXCEPT ![o].free = 0, ![o].spent = @ + orders[o].free]
          ELSE UNCHANGED <<invoices, orders>>
       /\ UNCHANGED <<today, sequences, txns, given, pickings, remito, acts>>

CronCommit == CommitValidation(Cron) /\ UNCHANGED <<orders, pickings, remito, cron, acts>>

CronStep ==
    \/ \E n \in DOMAIN Steps : CronSearch(n)
    \/ \E o \in Orders : CronConfirm(o)
    \/ \E i \in DOMAIN invoices : CronValidate(i) \/ CronReconcile(i)
    \/ CronTransfer \/ CronCommit

Act == acts < MaxActs /\ acts' = acts + 1

\* An exception, which the context manager commit discards.
CronError ==
    /\ Act
    /\ \/ ~At("pickings") /\ \E x \in cron.todo : Taken(x)
       \/ At("pickings") /\ cron.todo # {} /\ cron' = [cron EXCEPT !.todo = {}, !.remito = 0, !.seen = <<>>]
    /\ UNCHANGED <<numbersVars, orders, pickings, remito>>

-----------------------------------------------------------------------------
(* Users *)

\* action_confirm of numa_uniqs_base: the state is written whatever the
\* workflow has done.
UserConfirm(o) ==
    /\ orders[o].state = "draft" /\ Act
    /\ IF SignalConfirm(o) THEN Running(o)
       ELSE /\ orders' = [orders EXCEPT ![o].state = "progress"]
            /\ UNCHANGED <<pickings, invoices>>
    /\ UNCHANGED <<today, sequences, txns, given, remito, cron>>

\* Users change what a rule looks at, ignore the exceptions, or take an order
\* out of the hands of the cron.
UserEdit(o) ==
    /\ orders[o].state = "draft" /\ Act
    /\ \/ orders' = [orders EXCEPT ![o].failing = ~@]
       \/ Blocked(o) /\ orders' = [orders EXCEPT ![o].ignore = TRUE]
       \/ orders[o].auto /\ orders' = [orders EXCEPT ![o].auto = FALSE]
    /\ UNCHANGED <<numbersVars, pickings, remito, cron>>

\* action_cancel: refused with payments, invoices or deliveries at work.  Only the
\* button of a draft stops its workflow.
UserCancel(o) ==
    /\ orders[o].state \in {"draft", "progress"} /\ Act
    /\ orders[o].free + orders[o].spent = 0
    /\ pickings[o].state \in {"none", "cancel"}
    /\ \A i \in InvoicesOf(o) : invoices[i].state \in {"draft", "cancel"}
    /\ orders' = [orders EXCEPT ![o].state = "cancel",
                                ![o].act = IF orders[o].state = "draft" THEN "stopped" ELSE @]
    /\ invoices' = [i \in DOMAIN invoices |->
           IF i \in InvoicesOf(o) THEN [invoices[i] EXCEPT !.state = "cancel"] ELSE invoices[i]]
    /\ UNCHANGED <<today, sequences, txns, given, pickings, remito, cron>>

UserPicking(o) ==
    /\ pickings[o].state = "assigned" /\ Act
    /\ \/ /\ ~pickings[o].stuck /\ Transferred({o}, remito)
       \/ /\ pickings' = [pickings EXCEPT ![o].state = "cancel"]
          /\ UNCHANGED <<invoices, remito>>
       \/ /\ pickings' = [pickings EXCEPT ![o].stuck = ~@]
          /\ UNCHANGED <<invoices, remito>>
    /\ UNCHANGED <<today, sequences, txns, given, orders, cron>>

UserInvoice(i) ==
    /\ Act
    /\ \/ SetDate(i) \/ Duplicate(i) \/ Refund(i)
       \/ Move(i, {"draft", "open"}, "cancel") \/ Move(i, {"cancel"}, "draft")
       \/ Move(i, {"open"}, "paid")
    /\ UNCHANGED <<today, sequences, txns, given, orders, pickings, remito, cron>>

UserValidate(v, i) ==
    /\ v # Cron /\ Act /\ BeginValidation(v, i)
    /\ UNCHANGED <<orders, pickings, remito, cron>>

UserCommit(v) ==
    /\ v # Cron /\ CommitValidation(v)
    /\ UNCHANGED <<orders, pickings, remito, cron, acts>>

Tick ==
    /\ today < MaxDay /\ today' = today + 1
    /\ UNCHANGED <<invoices, sequences, txns, given, orders, pickings, remito, cron, acts>>

-----------------------------------------------------------------------------
(* The specification *)

Init ==
    /\ today = 1 /\ invoices = <<>> /\ sequences = [c \in Classes |-> 1]
    /\ txns = [v \in Validators |-> Idle] /\ given = {}
    /\ orders = [o \in Orders |-> [state |-> "none", act |-> "none", auto |-> FALSE,
                                   failing |-> FALSE, ignore |-> FALSE, free |-> 0, spent |-> 0]]
    /\ pickings = [o \in Orders |-> [state |-> "none", auto |-> FALSE, stuck |-> FALSE, number |-> 0]]
    /\ remito = 1
    /\ cron = [step |-> Len(Steps), todo |-> {}, remito |-> 0, seen |-> <<>>]
    /\ acts = 0

Next ==
    \/ \E o \in Orders : \/ Import(o) \/ UserConfirm(o) \/ UserEdit(o) \/ UserCancel(o)
                         \/ UserPicking(o)
    \/ \E i \in DOMAIN invoices : UserInvoice(i) \/ \E v \in Validators : UserValidate(v, i)
    \/ \E v \in Validators : UserCommit(v)
    \/ CronStep \/ CronError \/ Tick

Spec == Init /\ [][Next]_vars

\* The cron is run again and again; users need not do anything.
FairSpec == Spec /\ WF_vars(CronStep)

-----------------------------------------------------------------------------
(* Properties *)

\* Two deliveries never have the same number (stock.py:91), those of the cron
\* and those users transfer, and the store point goes past all of them.
RemitosOnce ==
    /\ \A o, p \in Orders : o # p /\ pickings[o].number # 0 => pickings[o].number # pickings[p].number
    /\ {pickings[o].number : o \in Orders} \ {0} = 1..(remito - 1)

\* An order that a user has canceled stays canceled, however old the list is
\* from which the cron confirms, and although the workflow of an order that was
\* confirmed against a rule still waits for a signal when the order is canceled
\* (automatic_workflow_job.py:84-89).
CanceledForGood ==
    [][\A o \in Orders : orders[o].state = "cancel" => orders'[o].state = "cancel"]_vars

\* What nobody and nothing holds back from the cron: an order in draft, a
\* delivery, an invoice, a payment.
Confirmable(o) == o \in OrdersIn("draft") /\ ~Blocked(o)
Deliverable(o) == o \in PickingsIn("assigned") /\ \A p \in PickingsIn("assigned") : ~pickings[p].stuck
Invoiceable(i) == i \in InvoicesIn("draft") /\ invoices[i].auto /\ CanNumber(invoices[i])
Payable(i) == i \in InvoicesIn("open") /\ ~invoices[i].refund /\ Covers(invoices[i].order)

NothingLeft ==
    /\ \A o \in Orders : ~Confirmable(o) /\ ~Deliverable(o)
    /\ \A i \in DOMAIN invoices : ~Invoiceable(i) /\ ~Payable(i)

\* Every order of an automatic process is confirmed, delivered, invoiced and
\* paid, unless a rule, a delivery that cannot be transferred, a date or an
\* amount is in its way (automatic_workflow_job.py:115, the searches are
\* repeated, and an exception is no more than a delay).
EventuallyDone == []<>NothingLeft
=============================================================================
