---------------------------- MODULE Settlements ----------------------------
(***************************************************************************)
(* sale_commission: the commissions of agents on customer invoices are     *)
(* settled per period, a settlement is invoiced with a bill of the agent.  *)
(* A transaction that settles, cancels or invoices writes the rows it has  *)
(* read, so that two of them cannot both commit: each is one step here.    *)
(* Dates are months counted from a January; amounts are left out.          *)
(***************************************************************************)
EXTENDS Integers, FiniteSets

CONSTANTS
    Agents, Period,         \* res.partner: settlement
    PaidBased,              \* agents whose commission is due when it is paid
    CustomerInvoices,               \* customer invoices
    Lines, AgentOf, InvoiceOf,  \* account.invoice.line.agent
    Months,                 \* the dates of invoices, and of "Up to"
    MaxEach,                \* bound of settlements of a line, bills of each
    MaxWizards,             \* bound of the wizards that are open
    MaxChanges              \* bound of cancellations, deletions, resets

Periods == {"monthly", "quaterly", "semi", "annual"}

ASSUME SettlementsAssumption ==
    /\ Period \in [Agents -> Periods]
    /\ AgentOf \in [Lines -> Agents] /\ InvoiceOf \in [Lines -> CustomerInvoices]
    /\ Months \subseteq Nat /\ MaxEach \in Nat /\ MaxWizards \in Nat
    /\ MaxChanges \in Nat

Ids == Lines \X (1..MaxEach)        \* the settlements of each line
Bills == Ids \X (1..MaxEach)        \* the bills of each settlement
Live == {"settled", "invoiced", "except_invoice"}

VARIABLES
    inv,        \* account.invoice: state and date_invoice of each customer's
    sett,       \* sale.commission.settlement
    bill,       \* state of the agents' invoices
    wizards,    \* sale.commission.make.invoice: the settlements of each
    changes,    \* number of changes done
    again       \* history: settlements invoiced when they were not settled

settlementVars == <<inv, sett, bill, wizards, changes, again>>

-----------------------------------------------------------------------------
(* Periods *)

\* Mutant of SemiStart: July belongs to the first half of the year.
SemiStartLate(m) == IF (m % 12) > 6 THEN 6 ELSE 0

SemiStart(m) == IF (m % 12) + 1 > 6 THEN 6 ELSE 0

\* _get_period_start: a quarter starts with its last month.
PeriodStart(period, m) ==
    CASE period = "monthly" -> m
      [] period = "quaterly" -> m - (m % 12) + ((m % 12) \div 3 + 1) * 3 - 1
      [] period = "semi" -> m - (m % 12) + SemiStart(m)
      [] period = "annual" -> m - (m % 12)

\* _get_next_period_date
PeriodLength(period) ==
    CASE period = "monthly" -> 1
      [] period = "quaterly" -> 3
      [] period = "semi" -> 6
      [] period = "annual" -> 12

-----------------------------------------------------------------------------
Change == changes < MaxChanges /\ changes' = changes + 1

\* Mutant of Settled: a settlement whose bill was cancelled does not count.
SettledUnlessExcept(l) ==
    \/ inv[InvoiceOf[l]].state \notin {"open", "paid"}
    \/ \E k \in 1..MaxEach : sett[<<l, k>>].state \in {"settled", "invoiced"}

\* _compute_settled
Settled(l) ==
    \/ inv[InvoiceOf[l]].state \notin {"open", "paid"}
    \/ \E k \in 1..MaxEach : sett[<<l, k>>].state \in Live

\* The lines that action_settle takes.
Due(agents, upTo) ==
    {l \in Lines :
        LET a == AgentOf[l]  i == inv[InvoiceOf[l]]
        IN /\ a \in agents /\ ~Settled(l)
           /\ i.date < PeriodStart(Period[a], upTo)
           /\ a \in PaidBased => i.state = "paid"}

\* The settlement that is created for a line.
New(l) ==
    LET a == AgentOf[l]
        from == PeriodStart(Period[a], inv[InvoiceOf[l]].date)
    IN [state |-> "settled", from |-> from, to |-> from + PeriodLength(Period[a]) - 1,
        invoice |-> 0]

\* action_settle.  The loop takes the lines of a company one by one, each in a
\* settlement of its own.
Settle(agents, upTo) ==
    LET due == Due(agents, upTo)
    IN /\ due # {}
       /\ \E fresh \in [due -> 1..MaxEach] :
             /\ \A l \in due : sett[<<l, fresh[l]>>].state = "none"
             /\ \A l \in due : \A k \in 1..(fresh[l] - 1) : sett[<<l, k>>].state # "none"
             /\ sett' = [i \in Ids |-> IF i[1] \in due /\ i[2] = fresh[i[1]]
                                       THEN New(i[1]) ELSE sett[i]]
       /\ UNCHANGED <<inv, bill, wizards, changes, again>>

\* Settlement.action_cancel
ActionCancel(i) ==
    /\ sett[i].state = "settled" /\ Change
    /\ sett' = [sett EXCEPT ![i].state = "cancel"]
    /\ UNCHANGED <<inv, bill, wizards, again>>

\* Settlement.unlink, with the rows that refer to it.
Unlink(i) ==
    /\ sett[i].state \in {"settled", "cancel", "except_invoice"} /\ Change
    /\ sett' = [sett EXCEPT ![i].state = "deleted"]
    /\ wizards' = {S \ {i} : S \in wizards}
    /\ UNCHANGED <<inv, bill, again>>

\* The wizard is opened, with settlements in the state settled, or with none.
OpenWizard(S) ==
    /\ Cardinality(wizards) < MaxWizards
    /\ \A i \in S : sett[i].state = "settled"
    /\ wizards' = wizards \cup {S}
    /\ UNCHANGED <<inv, sett, bill, changes, again>>

\* Mutant of MakeInvoices: the state of the settlement is not written.
MakeInvoicesStill(S) ==
    /\ \E fresh \in [S -> 1..MaxEach] :
          /\ \A i \in S : bill[<<i, fresh[i]>>] = "none"
          /\ bill' = [b \in Bills |-> IF b[1] \in S /\ b[2] = fresh[b[1]]
                                      THEN "draft" ELSE bill[b]]
          /\ sett' = [i \in Ids |-> IF i \in S THEN [sett[i] EXCEPT !.invoice = fresh[i]]
                                    ELSE sett[i]]
    /\ again' = again \cup {i \in S : sett[i].state # "settled"}
    /\ UNCHANGED <<inv, changes>>

\* make_invoices does not look at the states of the settlements.
MakeInvoices(S) ==
    /\ \E fresh \in [S -> 1..MaxEach] :
          /\ \A i \in S : bill[<<i, fresh[i]>>] = "none"
          /\ bill' = [b \in Bills |-> IF b[1] \in S /\ b[2] = fresh[b[1]]
                                      THEN "draft" ELSE bill[b]]
          /\ sett' = [i \in Ids |->
                        IF i \in S
                        THEN [sett[i] EXCEPT !.state = "invoiced", !.invoice = fresh[i]]
                        ELSE sett[i]]
    /\ again' = again \cup {i \in S : sett[i].state # "settled"}
    /\ UNCHANGED <<inv, changes>>

\* button_create, for the settlements of the wizard or all that are settled.
ButtonCreate(S) ==
    /\ S \in wizards /\ wizards' = wizards \ {S}
    /\ MakeInvoices(IF S = {} THEN {i \in Ids : sett[i].state = "settled"} ELSE S)

-----------------------------------------------------------------------------
(* The agents' invoices *)

\* The settlements whose invoice is b change to a state.
Mark(b, state) ==
    sett' = [sett EXCEPT ![b[1]] =
                IF @.invoice = b[2] /\ @.state # "deleted" THEN [@ EXCEPT !.state = state]
                ELSE @]

\* Mutant of BillValidate: the settlements are left as they are.
BillValidateOnly(b) ==
    /\ bill[b] = "draft" /\ bill' = [bill EXCEPT ![b] = "open"]
    /\ UNCHANGED <<inv, sett, wizards, changes, again>>

\* invoice_validate
BillValidate(b) ==
    /\ bill[b] = "draft" /\ bill' = [bill EXCEPT ![b] = "open"]
    /\ Mark(b, "invoiced")
    /\ UNCHANGED <<inv, wizards, changes, again>>

\* action_cancel
BillCancel(b) ==
    /\ bill[b] \in {"draft", "open"} /\ Change
    /\ bill' = [bill EXCEPT ![b] = "cancel"]
    /\ Mark(b, "except_invoice")
    /\ UNCHANGED <<inv, wizards, again>>

BillPay(b) ==
    /\ bill[b] = "open" /\ bill' = [bill EXCEPT ![b] = "paid"]
    /\ UNCHANGED <<inv, sett, wizards, changes, again>>

BillToDraft(b) ==
    /\ bill[b] = "cancel" /\ Change /\ bill' = [bill EXCEPT ![b] = "draft"]
    /\ UNCHANGED <<inv, sett, wizards, again>>

\* The invoice of its settlement becomes null, the state stays.
BillUnlink(b) ==
    /\ bill[b] \in {"draft", "cancel"} /\ Change
    /\ bill' = [bill EXCEPT ![b] = "deleted"]
    /\ sett' = [sett EXCEPT ![b[1]].invoice = IF @ = b[2] THEN 0 ELSE @]
    /\ UNCHANGED <<inv, wizards, again>>

-----------------------------------------------------------------------------
(* The customers' invoices *)

InvoiceOpen(x, m) ==
    /\ inv[x].state = "draft" /\ inv' = [inv EXCEPT ![x] = [state |-> "open", date |-> m]]
    /\ UNCHANGED <<sett, bill, wizards, changes, again>>

InvoicePaid(x) ==
    /\ inv[x].state = "open" /\ inv' = [inv EXCEPT ![x].state = "paid"]
    /\ UNCHANGED <<sett, bill, wizards, changes, again>>

\* Cancelled and set back to draft, where its date can change.
InvoiceCancel(x) ==
    /\ inv[x].state = "open" /\ Change /\ inv' = [inv EXCEPT ![x].state = "draft"]
    /\ UNCHANGED <<sett, bill, wizards, again>>

-----------------------------------------------------------------------------
SettlementsInit ==
    /\ inv \in [CustomerInvoices -> [state : {"draft"}, date : {0}]]
    /\ sett = [i \in Ids |-> [state |-> "none", from |-> 0, to |-> 0, invoice |-> 0]]
    /\ bill = [b \in Bills |-> "none"]
    /\ wizards = {} /\ changes = 0 /\ again = {}

SettlementsNext ==
    \/ \E agents \in SUBSET Agents, m \in Months : Settle(agents, m)
    \/ \E i \in Ids : ActionCancel(i) \/ Unlink(i)
    \/ \E S \in SUBSET Ids : OpenWizard(S) \/ ButtonCreate(S)
    \/ \E b \in Bills :
          \/ BillValidate(b) \/ BillCancel(b) \/ BillPay(b) \/ BillToDraft(b)
          \/ BillUnlink(b)
    \/ \E x \in CustomerInvoices : InvoicePaid(x) \/ InvoiceCancel(x)
                           \/ \E m \in Months : InvoiceOpen(x, m)

SettlementsSpec == SettlementsInit /\ [][SettlementsNext]_settlementVars

-----------------------------------------------------------------------------
(* Properties *)

\* What the rows hold: the invoice of a settlement is one of its bills that
\* is still there (sale_commission/models/settlement.py).
SettlementTypeOK ==
    /\ inv \in [CustomerInvoices -> [state : {"draft", "open", "paid"}, date : Nat]]
    /\ sett \in [Ids -> [state : Live \cup {"none", "cancel", "deleted"},
                         from : Int, to : Int, invoice : 0..MaxEach]]
    /\ bill \in [Bills -> {"none", "draft", "open", "paid", "cancel", "deleted"}]
    /\ \A i \in Ids : sett[i].invoice # 0 =>
          bill[<<i, sett[i].invoice>>] \notin {"none", "deleted"}
    /\ wizards \subseteq SUBSET Ids
    /\ changes \in 0..MaxChanges /\ again \subseteq Ids

\* A commission counts in one settlement only, whatever is cancelled, deleted
\* and settled again, unless a wizard that was open meanwhile has invoiced a
\* settlement that was no longer settled (_compute_settled, action_settle).
LineSettledOnce ==
    \A l \in Lines : \A k, n \in 1..MaxEach :
        /\ sett[<<l, k>>].state \in Live /\ sett[<<l, n>>].state \in Live
        /\ k # n
        => <<l, k>> \in again \/ <<l, n>> \in again

\* A commission is billed once: it has at most one bill that is not cancelled,
\* unless a settlement was deleted after the cancellation of its bill, or was
\* invoiced again by a wizard (make_invoices, unlink).
BilledOnce ==
    \A l \in Lines :
        \/ \E k \in 1..MaxEach : <<l, k>> \in again \/ sett[<<l, k>>].state = "deleted"
        \/ Cardinality({b \in Bills : b[1][1] = l
                                      /\ bill[b] \in {"draft", "open", "paid"}}) <= 1

\* A settlement whose bill is valid is invoiced, and one whose bill is
\* cancelled is not (models/account_invoice.py, action_cancel and
\* invoice_validate).
StateFollowsBill ==
    \A i \in Ids : sett[i].invoice # 0 /\ sett[i].state # "deleted" =>
        LET b == bill[<<i, sett[i].invoice>>]
        IN /\ b \in {"open", "paid"} => sett[i].state = "invoiced"
           /\ b = "cancel" => sett[i].state = "except_invoice"

Created(i) == sett[i].state = "none" /\ sett'[i].state = "settled"

\* A settlement begins in the month, the quarter, the half year or the year in
\* which the invoice of its line is dated, and two settlements of an agent are of
\* the same period or of periods that do not overlap, whatever was cancelled,
\* dated again and settled again meanwhile (_get_period_start, action_settle).
SettledApart ==
    [][\A i, j \in Ids : Created(i) =>
          /\ LET length == PeriodLength(Period[AgentOf[i[1]]])
             IN sett'[i].from \div length = inv[InvoiceOf[i[1]]].date \div length
          /\ AgentOf[i[1]] = AgentOf[j[1]] /\ sett'[j].state # "none"
                => \/ sett'[i].from = sett'[j].from
                   \/ sett'[i].to < sett'[j].from
                   \/ sett'[j].to < sett'[i].from]_settlementVars

\* A settlement is of the period in which the invoice of its line is dated
\* (wizard_settle.py: "Get first month of the date quarter").  The code does not do
\* it for an agent paid by the quarter, whose settlement begins with the last month.
SettledInPeriod ==
    [][\A i \in Ids : Created(i) =>
          inv[InvoiceOf[i[1]]].date \in sett'[i].from..sett'[i].to]_settlementVars
=============================================================================
