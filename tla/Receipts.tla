------------------------------ MODULE Receipts -----------------------------
(***************************************************************************)
(* numa_uniqs_customer_voucher: receipts, the payments of a customer that  *)
(* are applied to its debts (document_receipt.py), and the reconciliation  *)
(* of credits with debts (customer_reconcile.py).  Both copy what is owed  *)
(* into a draft and write move lines when it is posted.  One customer, one *)
(* currency; a transaction is a step.  Only lines of the receivable        *)
(* account are kept; the other half of each pair is left out.              *)
(***************************************************************************)
EXTENDS PartnerFigures, SequencesExt

CONSTANTS
    Customer,       \* whose documents these are
    Debts,          \* the lines of invoices and bills, by date
    Receipts,       \* document_receipt
    Reconciles,     \* customer_reconcile
    Payments,       \* of a receipt: in cash, by bank transfer, with a quick move
    Amounts,        \* a user may write instead
    MaxChanges      \* bound of edits, cancellations and repeated postings

\* The lines of invoices are of earlier days; all documents are of day 0.
ASSUME ReceiptsAssumption ==
    /\ Debts \in Seq([type : {"receivable", "payable"}, partner : Partners, due : Int,
                      amount : Nat])
    /\ Payments \subseteq [cash : Nat, bt : Nat, qm : Nat]
    /\ Customer \in Partners /\ Amounts \subseteq Nat /\ MaxChanges \in Nat
    /\ IsFiniteSet(Receipts) /\ {"invoice", "voucher"} \cap Receipts = {}

VARIABLES
    ledger,     \* account.move.line
    receipt,    \* the receipts
    recon,      \* the reconciliations
    changes,
    clean       \* history: all that was posted was up to date

vars == <<ledger, receipt, recon, changes, clean>>

-----------------------------------------------------------------------------
(* account.move.line *)

LineOf(debit, credit, of) ==
    [debit |-> debit, credit |-> credit, rec |-> 0, full |-> FALSE, of |-> of,
     type |-> "receivable", partner |-> Customer, due |-> 0]

\* A set of lines by a key, those with the same one in the order of a search:
\* the last one first.
SortedBy(S, Key(_)) ==
    LET Before(y, x) == Key(y) < Key(x) \/ (Key(y) = Key(x) /\ y > x)
    IN [i \in 1..Cardinality(S) |-> CHOOSE x \in S : Cardinality({y \in S : Before(y, x)}) = i - 1]
DateOf(l) == IF l \in DOMAIN Debts THEN l - Len(Debts) - 1 ELSE 0
SumOf(seq) == SumOver(seq, DOMAIN seq)
Sum3(paid) == paid.cash + paid.bt + paid.qm

\* The ledger after each of the pairs is reconciled in turn; none is refused.
Books(book, pairs) ==
    LET books[n \in 0..Len(pairs)] == IF n = 0 THEN book ELSE Pair(books[n - 1], pairs[n])
    IN books
Reconcilable(books, pairs) == \A n \in 1..Len(pairs) : CanPair(books[n - 1], pairs[n])

\* The lines of the customer a document finds
Lines(book) == {l \in DOMAIN book : book[l].type = "receivable" /\ book[l].partner = Customer}
OpenDebts(book) == {l \in Lines(book) : book[l].debit > 0 /\ ~Reconciled(book, l)}

-----------------------------------------------------------------------------
(* What both documents do with amounts *)

\* The credit is offered to the debts in their order.
LeftFor(debts, credit) ==
    LET left[i \in 0..Len(debts)] ==
          IF i = 0 THEN credit
          ELSE LET before == left[i - 1] IN before - Lesser(debts[i].unrec, before)
    IN left
Allocate(debts, credit) ==
    LET left == LeftFor(debts, credit)
    IN [i \in DOMAIN debts |-> [debts[i] EXCEPT !.amount = Lesser(debts[i].unrec, left[i - 1])]]

Offer(lines, left) ==
    Allocate([i \in DOMAIN lines |-> [line |-> lines[i], unrec |-> Residual(ledger, lines[i]),
                                      amount |-> 0]], left)

Wants(debts) == [i \in DOMAIN debts |-> Lesser(debts[i].unrec, debts[i].amount)]
Asked(debts) ==
    LET asked[n \in 0..Len(debts)] ==
          IF n = 0 THEN <<>>
          ELSE IF debts[n].amount = 0 THEN asked[n - 1] ELSE Append(asked[n - 1], debts[n])
    IN asked
Applicable(debts) == Asked(debts)[Len(debts)]

\* Debt at.i is given x, and the loop goes on with debt i.
Give(wants, at, x, i) ==
    [i |-> i, rest |-> at.rest - x,
     left |-> IF i = at.i THEN at.left - x ELSE IF i <= Len(wants) THEN wants[i] ELSE 0,
     parts |-> IF x # 0 THEN Append(at.parts, <<at.i, x>>) ELSE at.parts]

\* Mutant of Turn: the next debt is taken before this one is covered.
TurnNext(wants, at) == Give(wants, at, Lesser(at.rest, at.left), at.i + 1)

\* Mutant of Turn: a debt is given the whole payment.
TurnWhole(wants, at) == Give(wants, at, at.rest, at.i + 1)

\* A turn of the loop that applies a payment to the debts not yet covered.
Turn(wants, at) ==
    LET x == Lesser(at.rest, at.left)
    IN Give(wants, at, x, IF at.left = x \/ x = 0 THEN at.i + 1 ELSE at.i)

\* A turn covers a debt or uses up the payment.
Turns(wants, at, amount) ==
    LET turns[n \in 0..Len(wants) + 1] ==
          IF n = 0 THEN [at EXCEPT !.rest = amount]
          ELSE LET last == turns[n - 1]
               IN IF last.rest <= 0 \/ last.i > Len(wants) THEN last ELSE Turn(wants, last)
    IN turns
Pour(wants, at, amount) == Turns(wants, at, amount)[Len(wants) + 1]

Begin(wants) ==
    [i |-> 1, rest |-> 0, parts |-> <<>>, left |-> IF wants = <<>> THEN 0 ELSE wants[1]]

Edit == changes < MaxChanges /\ changes' = changes + 1

-----------------------------------------------------------------------------
(* document_receipt *)

\* onchange_partner_id, and the draft is saved.  Debts of residual 0 are left
\* out.
NewReceipt(r, paid) ==
    /\ receipt[r].state = "none"
    /\ receipt' = [receipt EXCEPT ![r] =
          [state |-> "draft", paid |-> paid, lines |-> {}, owed |-> 0,
           debts |-> Offer(SortedBy({l \in OpenDebts(ledger) : Residual(ledger, l) # 0},
                                    LAMBDA l : ledger[l].due),
                           Sum3(paid))]]
    /\ UNCHANGED <<ledger, recon, changes, clean>>

\* document_receipt_cash.write: the amount is computed from what is written,
\* 0 unless both the original amount and the rate are.
EditCash(r, cash) ==
    /\ receipt[r].state = "draft" /\ Edit
    /\ receipt' = [receipt EXCEPT ![r].paid.cash = cash]
    /\ UNCHANGED <<ledger, recon, clean>>

\* action_reasign_credit, with the open amounts of the draft.
ActionReasignCredit(r) ==
    /\ receipt[r].state = "draft"
    /\ LET debts == Allocate(receipt[r].debts, Sum3(receipt[r].paid))
       IN /\ debts # receipt[r].debts
          /\ receipt' = [receipt EXCEPT ![r].debts = debts]
    /\ UNCHANGED <<ledger, recon, changes, clean>>

UpToDate(debts) ==
    \A i \in DOMAIN debts : ~Reconciled(ledger, debts[i].line)
                            /\ debts[i].unrec = Residual(ledger, debts[i].line)

\* action_post: the cash, the transfers and then the quick moves are applied to
\* the debts; what is left of the first two is a credit, what is left of a quick
\* move goes to its own account.  All is undone if a pair is refused.
CashApplied(due, d) == Pour(Wants(due), Begin(Wants(due)), d.paid.cash)
TransfersApplied(due, d) == Pour(Wants(due), CashApplied(due, d), d.paid.bt)
QuickMovesApplied(due, d) == Pour(Wants(due), TransfersApplied(due, d), d.paid.qm)
CreditOf(rest, r) == IF rest > 0 THEN <<LineOf(0, rest, r)>> ELSE <<>>
CreditLines(due, d, r) ==
    CreditOf(CashApplied(due, d).rest, r) \o CreditOf(TransfersApplied(due, d).rest, r)

ActionPost(r) ==
    LET d == receipt[r]
        due == Applicable(d.debts)
        qm == QuickMovesApplied(due, d)
        credits == [i \in DOMAIN qm.parts |-> LineOf(0, qm.parts[i][2], r)]
                   \o CreditLines(due, d, r)
        pairs == [i \in DOMAIN qm.parts |-> <<due[qm.parts[i][1]].line, Len(ledger) + i>>]
    IN /\ d.state = "draft" /\ d.lines = {} /\ Sum3(d.paid) # 0
       /\ LET books == Books(ledger \o credits, pairs)
          IN Reconcilable(books, pairs) /\ ledger' = books[Len(pairs)]
       /\ receipt' = [receipt EXCEPT ![r].state = "posted",
                                     ![r].lines = (Len(ledger) + 1)..Len(ledger'),
                                     ![r].owed = Sum3(d.paid) - qm.rest]
       /\ clean' = (clean /\ UpToDate(due))
       /\ UNCHANGED <<recon, changes>>

\* The lines whose reconciliation holds a line of S lose it.
Freed(book, S) ==
    [m \in DOMAIN book |->
       IF \E l \in S : book[l].rec # 0 /\ book[m].rec = book[l].rec
       THEN [book[m] EXCEPT !.rec = 0, !.full = FALSE] ELSE book[m]]

\* account_move.revert: the reconciliations of the lines are deleted, and the
\* counter lines added.
Revert(book, S) ==
    LET free == Freed(book, S)
    IN free \o [i \in 1..Cardinality(S) |->
                  LET l == free[SortedBy(S, LAMBDA x : x)[i]]
                  IN [l EXCEPT !.debit = l.credit, !.credit = l.debit]]

\* The lines of a receipt's move, with those a reconciliation added to it.
MoveLines(r) == {l \in DOMAIN ledger : ledger[l].of = r}

CancelReceipt(r) ==
    /\ receipt[r].state \in {"draft", "posted"} /\ Edit
    /\ receipt' = [receipt EXCEPT ![r].state = "cancel"]
    /\ ledger' = IF receipt[r].state = "posted" THEN Revert(ledger, MoveLines(r)) ELSE ledger
    /\ UNCHANGED <<recon, clean>>

Unlink(r) ==
    /\ receipt[r].state = "draft" /\ Edit
    /\ receipt' = [receipt EXCEPT ![r].state = "deleted"]
    /\ UNCHANGED <<ledger, recon, clean>>

-----------------------------------------------------------------------------
(* customer_reconcile *)

\* onchange_partner_id: the credits that have no reconciliation, and the debts.
NewReconcile(k) ==
    LET credits == {l \in Lines(ledger) : ledger[l].credit > 0 /\ ledger[l].rec = 0}
        lines == SortedBy(credits, DateOf)
    IN /\ recon[k].state = "none" /\ credits # {}
       /\ recon' = [recon EXCEPT ![k] =
             [state |-> "draft",
              uacs |-> [i \in DOMAIN lines |-> [line |-> lines[i],
                                                original |-> ledger[lines[i]].credit,
                                                amount |-> ledger[lines[i]].credit]],
              debts |-> Offer(SortedBy(OpenDebts(ledger), DateOf), -Total(ledger, credits))]]
       /\ UNCHANGED <<ledger, receipt, changes, clean>>

\* The user applies less of a credit.
EditCredit(k, i, amount) ==
    /\ recon[k].state = "draft" /\ Edit
    /\ i \in DOMAIN recon[k].uacs /\ amount < recon[k].uacs[i].amount
    /\ recon' = [recon EXCEPT ![k].uacs[i].amount = amount]
    /\ UNCHANGED <<ledger, receipt, clean>>

\* The part of a credit that is applied, as a line of its own
CutOff(line, part) == [line EXCEPT !.credit = part, !.rec = 0, !.full = FALSE]

\* Mutant of Split: what is left of the credit is not written back.
SplitOnly(book, u, parts, rest) ==
    LET new == [i \in DOMAIN parts |-> CutOff(book[u.line], parts[i])]
    IN [book |-> book \o new, lines |-> [i \in DOMAIN parts |-> Len(book) + i]]

\* A credit is cut in the parts that are applied.  Each is a new line, except
\* the last one when nothing is left: that is the line itself.
Split(book, u, parts, rest) ==
    LET left == u.original - u.amount + rest
        n == IF left > 0 \/ parts = <<>> THEN Len(parts) ELSE Len(parts) - 1
        new == [i \in 1..n |-> CutOff(book[u.line], parts[i])]
        old == IF n < Len(parts) THEN Last(parts)
               ELSE IF parts # <<>> THEN left ELSE book[u.line].credit
    IN [book |-> [book EXCEPT ![u.line].credit = old] \o new,
        lines |-> [i \in DOMAIN parts |-> IF i <= n THEN Len(book) + i ELSE u.line]]

\* The loop of action_post over the credits: the lines and the pairs.
ApplyCredit(due, done, u) ==
    LET to == Pour(Wants(due), [done.at EXCEPT !.parts = <<>>], u.amount)
        cut == Split(done.book, u, [i \in DOMAIN to.parts |-> to.parts[i][2]], to.rest)
    IN [at |-> to, book |-> cut.book,
        pairs |-> done.pairs \o [i \in DOMAIN to.parts |->
                                   <<cut.lines[i], due[to.parts[i][1]].line>>]]
Applied(uacs, due, book) ==
    LET applied[n \in 0..Len(uacs)] ==
          IF n = 0 THEN [at |-> Begin(Wants(due)), book |-> book, pairs |-> <<>>]
          ELSE ApplyCredit(due, applied[n - 1], uacs[n])
    IN applied
Apply(uacs, due, book) == Applied(uacs, due, book)[Len(uacs)]

\* action_post: its state is not looked at.
PostReconcile(k) ==
    LET due == Applicable(recon[k].debts)
        uacs == recon[k].uacs
        done == Apply(uacs, due, ledger)
        books == Books(done.book, done.pairs)
    IN /\ \/ recon[k].state = "draft" /\ UNCHANGED changes
          \/ recon[k].state = "posted" /\ Edit
       /\ \E i \in DOMAIN uacs : uacs[i].amount # 0
       /\ Reconcilable(books, done.pairs) /\ ledger' = books[Len(done.pairs)]
       /\ recon' = [recon EXCEPT ![k].state = "posted"]
       /\ clean' = (/\ clean /\ UpToDate(due)
                    /\ \A i \in DOMAIN uacs : /\ ledger[uacs[i].line].credit = uacs[i].original
                                              /\ ledger[uacs[i].line].rec = 0)
       /\ UNCHANGED receipt

-----------------------------------------------------------------------------
Init ==
    /\ ledger = [i \in DOMAIN Debts |->
                    LET d == Debts[i]
                        amounts == IF d.type = "receivable" THEN <<d.amount, 0>> ELSE <<0, d.amount>>
                    IN [LineOf(amounts[1], amounts[2], "invoice") EXCEPT
                          !.type = d.type, !.partner = d.partner, !.due = d.due]]
    /\ receipt = [r \in Receipts |-> [state |-> "none", paid |-> [cash |-> 0, bt |-> 0, qm |-> 0],
                                      lines |-> {}, owed |-> 0, debts |-> <<>>]]
    /\ recon = [k \in Reconciles |-> [state |-> "none", uacs |-> <<>>, debts |-> <<>>]]
    /\ changes = 0 /\ clean = TRUE

Next ==
    \/ \E r \in Receipts :
          \/ \E paid \in Payments : NewReceipt(r, paid)
          \/ \E cash \in Amounts : EditCash(r, cash)
          \/ ActionReasignCredit(r) \/ ActionPost(r) \/ CancelReceipt(r) \/ Unlink(r)
    \/ \E k \in Reconciles :
          \/ NewReconcile(k) \/ PostReconcile(k)
          \/ \E i \in 1..Len(recon[k].uacs), a \in Amounts : EditCredit(k, i, a)

Spec == Init /\ [][Next]_vars

-----------------------------------------------------------------------------
(* Properties *)

\* A debt is not paid twice: what is applied to it in a reconciliation is at
\* most what is owed, under the same condition (action_post, reconcile_partial).
NotOverpaid ==
    clean => \A l \in DOMAIN Debts :
                LET left == Total(ledger, Group(ledger, l))
                IN IF Debts[l].type = "receivable" THEN left >= 0 ELSE left <= 0

\* A receipt does not keep a credit while a debt of it waits: if a debt was
\* given less than it asked for, all the cash has been applied
\* (the loops of action_post).
CreditOnlyWhenCovered ==
    [][\A r \in Receipts :
         receipt[r].state = "draft" /\ receipt'[r].state = "posted"
         => LET due == Applicable(receipt[r].debts)
                given == {l \in receipt'[r].lines : ledger'[l].rec # 0}
                credit == receipt'[r].lines \ given
            IN /\ -Total(ledger', given)
                  = Lesser(Sum3(receipt[r].paid), SumOf(Wants(due)))
               /\ credit # {} => -Total(ledger', given) = SumOf(Wants(due))]_vars
=============================================================================
