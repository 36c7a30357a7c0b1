------------------------------ MODULE Vouchers -----------------------------
(***************************************************************************)
(* numa_wineem_voucher (voucher.py): the vouchers of account_voucher, with *)
(* the debts assigned by a button or when the voucher is posted, on the    *)
(* same move lines as the receipts and reconciliations of the customer.  A *)
(* receipt pays receivables, a payment pays payables.                      *)
(***************************************************************************)
EXTENDS Receipts

CONSTANT VoucherIds

ASSUME VouchersAssumption == IsFiniteSet(VoucherIds)

VARIABLE voucher    \* account.voucher

vvars == <<vars, voucher>>

-----------------------------------------------------------------------------
\* The open lines a voucher looks at, by date: of the customer and those
\* below.  A credit partly used is not used again by a receipt, a debit not by
\* a payment.
MoveIds(type) ==
    LET account == IF type = "receipt" THEN "receivable" ELSE "payable"
        Used(l) == /\ ledger[l].rec # 0
                   /\ IF type = "receipt" THEN ledger[l].credit > 0 ELSE ledger[l].debit > 0
    IN SortedBy({l \in OpenLines(ledger, Customer, account) : ~Used(l)}, LAMBDA l : l)

VoucherLine(l, amount) ==
    [line |-> l, type |-> IF ledger[l].credit > 0 THEN "dr" ELSE "cr",
     unrec |-> Residual(ledger, l), amount |-> amount]
AmountOf(lines, type) == SumOf([i \in DOMAIN lines |->
                                  IF lines[i].type = type THEN lines[i].amount ELSE 0])

\* The debits of a voucher are offered its amount and the credits, its credits
\* what there is of debits (or the other way round).
ComputeNext(done, l) ==
    LET left == IF ledger[l].credit > 0 THEN done.debit ELSE done.credit
        amount == Lesser(Residual(ledger, l), left)
    IN IF ledger[l].credit > 0
       THEN [done EXCEPT !.debit = @ - amount, !.lines = Append(@, VoucherLine(l, amount))]
       ELSE [done EXCEPT !.credit = @ - amount, !.lines = Append(@, VoucherLine(l, amount))]
Computed(moves, debit, credit) ==
    LET computed[n \in 0..Len(moves)] ==
          IF n = 0 THEN [debit |-> debit, credit |-> credit, lines |-> <<>>]
          ELSE ComputeNext(computed[n - 1], moves[n])
    IN computed
Compute(moves, debit, credit) == Computed(moves, debit, credit)[Len(moves)].lines

\* Without debts on the voucher its amount is given to the lines in turn.
AssignNext(done, l) ==
    LET part == Lesser(Residual(ledger, l), done.left)
    IN IF done.left = 0 THEN done
       ELSE [left |-> done.left - part, lines |-> Append(done.lines, VoucherLine(l, part))]
Assigned(moves, amount) ==
    LET assigned[n \in 0..Len(moves)] ==
          IF n = 0 THEN [left |-> amount, lines |-> <<>>]
          ELSE AssignNext(assigned[n - 1], moves[n])
    IN assigned
AutoAssign(moves, amount) == Assigned(moves, amount)[Len(moves)].lines

NewVoucher(v, type, amount) ==
    /\ voucher[v].state = "none"
    /\ voucher' = [voucher EXCEPT ![v] = [state |-> "draft", type |-> type, amount |-> amount,
                                          lines |-> <<>>]]
    /\ UNCHANGED vars

\* action_compute_debts
ActionComputeDebts(v) ==
    LET moves == MoveIds(voucher[v].type)
        amount(type) == IF voucher[v].type = type THEN voucher[v].amount ELSE 0
        debit == SumOf([i \in DOMAIN moves |-> ledger[moves[i]].debit])
        credit == SumOf([i \in DOMAIN moves |-> ledger[moves[i]].credit])
        lines == Compute(moves, amount("payment") + debit, amount("receipt") + credit)
    IN /\ voucher[v].state = "draft" /\ lines # voucher[v].lines
       /\ voucher' = [voucher EXCEPT ![v].lines = lines]
       /\ UNCHANGED vars

\* What account_voucher writes: a line for each line of the voucher, and one for
\* the rest of its amount.  Each but the last is reconciled with its debt.
Moves(v, lines) ==
    LET receivable == v.type = "receipt"
        Line(debit, credit) == [LineOf(debit, credit, "voucher") EXCEPT
                                  !.type = IF receivable THEN "receivable" ELSE "payable"]
        rest == (IF receivable THEN v.amount ELSE -v.amount)
                + AmountOf(lines, "dr") - AmountOf(lines, "cr")
    IN [i \in DOMAIN lines |-> IF lines[i].type = "dr" THEN Line(lines[i].amount, 0)
                               ELSE Line(0, lines[i].amount)]
       \o (IF rest > 0 THEN <<Line(0, rest)>> ELSE IF rest < 0 THEN <<Line(-rest, 0)>> ELSE <<>>)

\* action_move_line_create: refused when more is assigned than is paid.
ActionMoveLineCreate(v) ==
    LET d == voucher[v]
        paid == IF d.type = "receipt" THEN "cr" ELSE "dr"
        all == IF \E i \in DOMAIN d.lines : d.lines[i].type = paid THEN d.lines
               ELSE d.lines \o AutoAssign(MoveIds(d.type), d.amount)
        lines == Applicable(all)
        pairs == [i \in DOMAIN lines |-> <<Len(ledger) + i, lines[i].line>>]
        books == Books(ledger \o Moves(d, lines), pairs)
    IN /\ d.state = "draft" /\ AmountOf(d.lines, paid) <= d.amount
       /\ Reconcilable(books, pairs) /\ ledger' = books[Len(pairs)]
       /\ voucher' = [voucher EXCEPT ![v].state = "posted"]
       /\ clean' = (/\ clean /\ UpToDate(lines)
                    /\ \A i \in DOMAIN lines : lines[i].line \in Range(MoveIds(d.type)))
       /\ UNCHANGED <<receipt, recon, changes>>

-----------------------------------------------------------------------------
VoucherInit ==
    /\ Init
    /\ voucher = [v \in VoucherIds |-> [state |-> "none", type |-> "receipt", amount |-> 0,
                                        lines |-> <<>>]]

VoucherNext ==
    \/ Next /\ UNCHANGED voucher
    \/ \E v \in VoucherIds :
          \/ \E type \in {"receipt", "payment"}, a \in Amounts \ {0} : NewVoucher(v, type, a)
          \/ ActionComputeDebts(v) \/ ActionMoveLineCreate(v)

VoucherSpec == VoucherInit /\ [][VoucherNext]_vvars

-----------------------------------------------------------------------------
(* Properties *)

Owed(type) == SumOf([i \in DOMAIN Debts |-> IF Debts[i].type = type THEN Debts[i].amount ELSE 0])
PaidBy(type) == SumOver([v \in VoucherIds |-> voucher[v].amount],
                        {v \in VoucherIds : voucher[v].state = "posted"
                                            /\ voucher[v].type = type})

\* The customer owes the invoices less what the posted receipts and vouchers
\* have paid, and is owed the bills less what has been paid for them, whatever is
\* posted, cut, reconciled and cancelled: as long as no document is posted
\* whose copy of the debts and credits is out of date (action_post of the
\* documents, cancel_receipt, action_move_line_create).
BalanceFollowsDocuments ==
    clean => /\ Total(ledger, {l \in DOMAIN ledger : ledger[l].type = "receivable"})
                = Owed("receivable") - PaidBy("receipt")
                  - SumOver([r \in Receipts |-> receipt[r].owed],
                            {r \in Receipts : receipt[r].state = "posted"})
             /\ Total(ledger, {l \in DOMAIN ledger : ledger[l].type = "payable"})
                = PaidBy("payment") - Owed("payable")

\* What the partner's form shows by age adds up to the balance it shows, on any
\* day and for a partner of any level, and for the customer that is what the
\* documents leave: nothing is shown twice or left out because it is
\* reconciled, in part or completely, also with a line of another partner (the
\* queries of numa_uniqs_base/partner.py).
Days == {-30, 31, 100}
FiguresAddUp ==
    LET All(figures) == NotDue(figures) + Overdue(figures)
    IN /\ \A p \in Partners, today \in Days :
             All(Credit(ledger, p, today)) + All(PartialCredit(ledger, p, today))
             + All(Debt(ledger, p, today)) + All(PartialDebt(ledger, p, today))
                = Balance(ledger, p)
       /\ clean => Balance(ledger, Customer)
                      = Total(ledger, {l \in DOMAIN ledger : ledger[l].partner \in ChildOf[Customer]})
=============================================================================
