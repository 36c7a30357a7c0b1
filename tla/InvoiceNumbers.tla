--------------------------- MODULE InvoiceNumbers ---------------------------
(***************************************************************************)
(* The numbers of customer invoices of an Argentinean company              *)
(* (numa_uniqs_base/invoice.py, action_number): the AFIP type that follows *)
(* from the VAT conditions, the next number of the document class of the   *)
(* journal, and the checks of the date against today and against the last  *)
(* invoice of the type.  A validation is a transaction: it decides on the  *)
(* rows of its beginning and is rolled back if one it writes has changed.  *)
(***************************************************************************)
EXTENDS Integers, Sequences, FiniteSets

CONSTANTS
    Orders,         \* the sale orders that invoices are made of
    Classes,        \* journal document classes, each with its ir.sequence
    Data,           \* what an order gives to its invoices
    CompanyVat,     \* vat_condition of the company
    IsAlfa,         \* the company that invoices customers without identification
    MonthOf,        \* the month of each day
    MaxDay,         \* bound of the days that pass
    Validators,     \* those who validate invoices: users and the cron
    Idle            \* no transaction of a validator

Days == DOMAIN MonthOf
VatConditions == {"01", "04", "06", "09", "10", "11", "05"}

ASSUME NumbersAssumption ==
    /\ MaxDay \in Nat \ {0} /\ Days \subseteq Nat \ {0} /\ 1..MaxDay \subseteq Days
    /\ CompanyVat \in VatConditions /\ IsAlfa \in BOOLEAN
    /\ Data \in [Orders -> [vat : VatConditions, debit_note : BOOLEAN, anonymous : BOOLEAN,
                            class : Classes, refund_class : Classes]]

VARIABLES
    today,
    invoices,       \* account.invoice, in the order of their creation
    sequences,      \* number_next of the sequence of each class
    txns,           \* the validation each validator is in the middle of
    given           \* history: the numbers given, with the invoice

-----------------------------------------------------------------------------
(* The AFIP type *)

Registered == {"01", "11"}
Exempt == {"04", "10"}
Abroad == {"09", "10"}

NoType == <<"none", "none">>

\* The letter of a document, "none" if there is none for these conditions.
Letter(own, other) ==
    CASE own \in Registered /\ other \in Registered           -> "A"
      [] own \in Registered \cup Exempt /\ other \in Abroad   -> "E"
      [] own \in Registered /\ other \notin Registered \cup Abroad -> "B"
      [] own \in Exempt /\ other \notin Abroad                -> "X"
      [] own = "06" /\ other \notin Abroad                    -> "C"
      [] OTHER                                                -> "none"

\* A budget (X) has no debit notes; NoType if the document is refused.
AfipType(inv) ==
    LET data == Data[inv.order]
        letter == Letter(CompanyVat, data.vat)
    IN IF letter = "none" \/ (letter = "B" /\ ~IsAlfa /\ data.anonymous) THEN NoType
       ELSE <<letter, CASE inv.refund -> "refund"
                        [] ~inv.refund /\ data.debit_note /\ letter # "X" -> "debit_note"
                        [] OTHER -> "invoice">>

Class(inv) == IF inv.refund THEN Data[inv.order].refund_class ELSE Data[inv.order].class

-----------------------------------------------------------------------------
(* The date *)

Valid == {"open", "paid"}

\* Mutant of LastDates: only what is still to be paid counts.
LastDatesOpen(type) ==
    {invoices[i].date : i \in {n \in DOMAIN invoices :
                                  invoices[n].type = type /\ invoices[n].state = "open"}}

\* The dates among which the last one is searched for; 0 is no date.
LastDates(type) ==
    {invoices[i].date : i \in {n \in DOMAIN invoices :
        invoices[n].type = type /\ invoices[n].state \in Valid \cup {"cancel"}}}

\* A canceled invoice without a date comes first and fails the comparison.
NotOvertaken(date, type) == \A last \in LastDates(type) : last # 0 /\ last <= date

NotTooEarly(date) ==
    /\ date - today <= 5
    /\ date - today > 1 => MonthOf[date] = MonthOf[today]

DateOf(inv) == IF inv.date = 0 THEN today ELSE inv.date

CanNumber(inv) ==
    /\ AfipType(inv) # NoType
    /\ NotOvertaken(DateOf(inv), AfipType(inv))
    /\ NotTooEarly(DateOf(inv))

-----------------------------------------------------------------------------
(* The validation *)

\* act_open of the workflow up to the commit, on the rows of this moment.
BeginValidation(v, i) ==
    /\ txns[v] = Idle
    /\ invoices[i].state = "draft" /\ CanNumber(invoices[i])
    /\ txns' = [txns EXCEPT ![v] =
           [invoice |-> i, seen |-> invoices[i], date |-> DateOf(invoices[i]),
            number |-> sequences[Class(invoices[i])]]]
    /\ UNCHANGED <<today, invoices, sequences, given>>

\* Mutant of Conflicts: the sequence is not among the rows written.
ConflictsInvoice(txn) == invoices[txn.invoice] # txn.seen

\* A row the transaction writes is not any more the one it has read.
Conflicts(txn) ==
    \/ invoices[txn.invoice] # txn.seen
    \/ sequences[Class(txn.seen)] # txn.number

Numbered(txn) ==
    /\ invoices' = [invoices EXCEPT ![txn.invoice] =
           [@ EXCEPT !.state = "open", !.date = txn.date, !.type = AfipType(txn.seen),
                     !.number = txn.number]]
    /\ sequences' = [sequences EXCEPT ![Class(txn.seen)] = @ + 1]
    /\ given' = given \cup {<<Class(txn.seen), txn.number, txn.invoice>>}

CommitValidation(v) ==
    /\ txns[v] # Idle
    /\ txns' = [txns EXCEPT ![v] = Idle]
    /\ IF Conflicts(txns[v]) THEN UNCHANGED <<invoices, sequences, given>>
       ELSE Numbered(txns[v])
    /\ UNCHANGED today

-----------------------------------------------------------------------------
(* Invoices in the hands of users *)

NewInvoice(o, date, auto, refund) ==
    [order |-> o, refund |-> refund, auto |-> auto, state |-> "draft", date |-> date,
     type |-> NoType, number |-> 0]

\* The type is copied, the date and the number are not.
Duplicate(i) ==
    invoices' = Append(invoices, [invoices[i] EXCEPT !.state = "draft", !.date = 0, !.number = 0])

Refund(i) ==
    /\ invoices[i].state \in Valid /\ ~invoices[i].refund
    /\ invoices' = Append(invoices, NewInvoice(invoices[i].order, 0, FALSE, TRUE))

SetDate(i) ==
    /\ invoices[i].state = "draft"
    /\ \E date \in Days \cup {0} : invoices' = [invoices EXCEPT ![i].date = date]

\* Cancellation, the way back to draft, and a payment by hand.
Move(i, from, to) ==
    /\ invoices[i].state \in from
    /\ invoices' = [invoices EXCEPT ![i].state = to]

-----------------------------------------------------------------------------
(* Properties *)

\* The numbers of the invoices in force of a class and type are in the order
\* of their dates (the check at invoice.py:346-362), whoever validates them at
\* the same time, and though invoices are canceled, taken back to draft, dated
\* anew and validated again.
NumbersFollowDates ==
    \A i, j \in DOMAIN invoices :
       /\ invoices[i].state \in Valid /\ invoices[j].state \in Valid
       /\ Class(invoices[i]) = Class(invoices[j]) /\ invoices[i].type = invoices[j].type
       /\ invoices[i].number < invoices[j].number
       => invoices[i].date <= invoices[j].date

\* A number of a class is given to one invoice, once, and none is left out,
\* although the sequence is read and written by hand (invoice.py:339, 421).
EveryNumberOnce ==
    \A c \in Classes :
       LET mine == {g \in given : g[1] = c}
       IN {g[2] : g \in mine} = 1..(sequences[c] - 1) /\ Cardinality(mine) = sequences[c] - 1
=============================================================================
