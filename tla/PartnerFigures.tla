--------------------------- MODULE PartnerFigures --------------------------
(***************************************************************************)
(* Move lines of partners, and what a partner's form shows of them         *)
(* (numa_uniqs_base/partner.py): the balance, and what is owed to and by   *)
(* the partner by the days since it fell due.  A ledger is a sequence of   *)
(* lines; those of receivable and payable accounts are kept.               *)
(***************************************************************************)
EXTENDS Integers, Sequences, FiniteSets, FiniteSetsExt

CONSTANTS
    Partners,
    ChildOf     \* for each partner itself and those below (child_of)

ASSUME PartnersAssumption ==
    ChildOf \in [Partners -> SUBSET Partners] /\ \A p \in Partners : p \in ChildOf[p]

-----------------------------------------------------------------------------
(* account.move.line *)

\* rec is its reconciliation, 0 for none; full that it is a complete one
\* (reconcile_id, not reconcile_partial_id).
Group(book, l) == IF book[l].rec = 0 THEN {l} ELSE {m \in DOMAIN book : book[m].rec = book[l].rec}
Signed(book) == [m \in DOMAIN book |-> book[m].debit - book[m].credit]
SumOver(figures, S) == MapThenSumSet(LAMBDA a : figures[a], S)
Total(book, S) == SumOver(Signed(book), S)
Reconciled(book, l) == book[l].full
Abs(x) == IF x < 0 THEN -x ELSE x
Lesser(x, y) == IF x < y THEN x ELSE y

\* amount_residual, as the documents read it.
Residual(book, l) == Abs(Total(book, Group(book, l)))

\* reconcile_partial of a pair: their groups become one, which is complete
\* when nothing is left.  It is refused for a line that is reconciled.
CanPair(book, p) == ~Reconciled(book, p[1]) /\ ~Reconciled(book, p[2])
Pair(book, p) ==
    LET members == Group(book, p[1]) \cup Group(book, p[2])
        new == 1 + Max({0} \cup {book[m].rec : m \in DOMAIN book})
        complete == Total(book, members) = 0
    IN [m \in DOMAIN book |->
          IF m \in members THEN [book[m] EXCEPT !.rec = new, !.full = complete]
          ELSE book[m]]

-----------------------------------------------------------------------------
(* res.partner *)

\* The lines not completely reconciled, of the partner and those below
\* (get_partner_domain)
OpenLines(book, p, type) ==
    {l \in DOMAIN book : book[l].type = type /\ book[l].partner \in ChildOf[p] /\ ~book[l].full}

\* _get_balance
Balance(book, p) ==
    Total(book, OpenLines(book, p, "receivable") \cup OpenLines(book, p, "payable"))

\* The age of an amount in days, negative before it is due
NotDueAges == {"f91plus", "f61-90", "f31-60", "f0-30"}
OverdueAges == {"0-30", "31-60", "61-90", "91plus"}
AgeOf(days) ==
    CASE days < -90 -> "f91plus"
      [] days >= -90 /\ days < -60 -> "f61-90"
      [] days >= -60 /\ days < -30 -> "f31-60"
      [] days >= -30 /\ days < 0   -> "f0-30"
      [] days >= 0 /\ days <= 30   -> "0-30"
      [] days > 30 /\ days <= 60   -> "31-60"
      [] days > 60 /\ days <= 90   -> "61-90"
      [] OTHER -> "91plus"

NotDue(figures) == SumOver(figures, NotDueAges)
Overdue(figures) == SumOver(figures, OverdueAges)

\* Mutant of Untouched: the lines of a partial reconciliation are counted.
UntouchedOrPartial(book, p, type, today) ==
    LET S == OpenLines(book, p, type)
    IN [a \in NotDueAges \cup OverdueAges |->
          Total(book, {l \in S : AgeOf(today - book[l].due) = a})]

\* The lines in no reconciliation, by age
Untouched(book, p, type, today) ==
    LET S == {l \in OpenLines(book, p, type) : book[l].rec = 0}
    IN [a \in NotDueAges \cup OverdueAges |->
          Total(book, {l \in S : AgeOf(today - book[l].due) = a})]

\* The rests of the partial reconciliations, by the age of the oldest line
Rests(book, p, type, today) ==
    LET S == {l \in OpenLines(book, p, type) : book[l].rec # 0}
        Oldest(l) == Min({book[m].due : m \in Group(book, l) \cap S})
    IN [a \in NotDueAges \cup OverdueAges |->
          Total(book, {l \in S : AgeOf(today - Oldest(l)) = a})]

Credit(book, p, today) == Untouched(book, p, "receivable", today)
PartialCredit(book, p, today) == Rests(book, p, "receivable", today)
Debt(book, p, today) == Untouched(book, p, "payable", today)
PartialDebt(book, p, today) == Rests(book, p, "payable", today)

=============================================================================
