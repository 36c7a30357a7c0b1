----------------------------- MODULE SalesProofs ----------------------------
(***************************************************************************)
(* The orders of an automatic process and the numbers of their documents,  *)
(* for any number of orders, document classes, validators and users' acts: *)
(* the types, the numbers of invoices (each given once, in the order of    *)
(* the dates), the numbers of deliveries, and that a canceled order stays  *)
(* canceled.  Then the settlements of commissions, for every set of agents, *)
(* lines and invoices, by one inductive invariant: the rows, that a line   *)
(* counts once, and that a settlement follows its bill.                    *)
(***************************************************************************)
EXTENDS SaleWorkflow, Settlements, FiniteSetTheorems, SequenceTheorems, TLAPS

-----------------------------------------------------------------------------
(***************************************************************************)
(* Orders and the numbers of their documents                               *)
(***************************************************************************)

(* What the variables of the numbers hold                                  *)

Letters == {"A", "B", "C", "E", "X", "none"}
Kinds == {"refund", "debit_note", "invoice", "none"}
InvoiceStates == {"draft", "open", "paid", "cancel"}

Invoices == [order : Orders, refund : BOOLEAN, auto : BOOLEAN, state : InvoiceStates,
             date : Nat, type : Letters \X Kinds, number : Nat]
Txns == [invoice : Nat, seen : Invoices, date : Nat, number : Nat]

NumbersTypeOK ==
    /\ today \in Nat \ {0}
    /\ invoices \in Seq(Invoices)
    /\ sequences \in [Classes -> Nat \ {0}]
    /\ txns \in [Validators -> Txns \cup {Idle}]
    /\ \A v \in Validators : txns[v] # Idle => txns[v].invoice \in DOMAIN invoices

LEMMA AfipTypeType ==
    ASSUME NEW x \in Invoices PROVE AfipType(x) \in Letters \X Kinds
<1>1. \A own, other : Letter(own, other) \in Letters
  BY DEF Letter, Letters
<1> QED BY <1>1 DEF AfipType, NoType, Letters, Kinds

LEMMA ClassType ==
    ASSUME NEW x \in Invoices PROVE Class(x) \in Classes
BY NumbersAssumption DEF Class, Invoices

\* Two rows of the same order, both refunds or neither, have the same class
\* and are of the same type.
LEMMA SameClass ==
    ASSUME NEW a, NEW b, a.order = b.order, a.refund = b.refund
    PROVE  Class(a) = Class(b) /\ AfipType(a) = AfipType(b)
BY DEF Class, AfipType

\* What the steps do to the rows of invoices that number nothing: rows are
\* added as drafts, none is put in force, and one in force keeps its date.
Row(a, b) ==
    /\ b.order = a.order /\ b.refund = a.refund /\ b.type = a.type /\ b.number = a.number
    /\ b.state \in Valid => a.state \in Valid /\ b.date = a.date

Kept ==
    /\ UNCHANGED <<sequences, given>>
    /\ invoices' \in Seq(Invoices) /\ DOMAIN invoices \subseteq DOMAIN invoices'
    /\ \A i \in DOMAIN invoices : Row(invoices[i], invoices'[i])
    /\ \A i \in DOMAIN invoices' \ DOMAIN invoices : invoices'[i].state = "draft"

NumbersStep ==
    \/ Kept /\ UNCHANGED txns
    \/ \E v \in Validators, i \in DOMAIN invoices : BeginValidation(v, i)
    \/ \E v \in Validators : CommitValidation(v)

LEMMA KeptSame ==
    ASSUME NumbersTypeOK, UNCHANGED <<invoices, sequences, given>> PROVE Kept
BY DEF Kept, Row, NumbersTypeOK

\* Rows of new documents.
LEMMA NewInvoiceType ==
    ASSUME NEW o \in Orders, NEW date \in Nat, NEW auto \in BOOLEAN, NEW refund \in BOOLEAN
    PROVE  NewInvoice(o, date, auto, refund) \in Invoices
           /\ NewInvoice(o, date, auto, refund).state = "draft"
BY DEF NewInvoice, Invoices, NoType, Letters, Kinds, InvoiceStates

LEMMA OrderInvoiceType ==
    ASSUME NEW o \in Orders
    PROVE  OrderInvoice(o) \in Invoices /\ OrderInvoice(o).state = "draft"
<1>1. (IF o \in ForceDate THEN OrderDates[o] ELSE 0) \in Nat
  BY WorkflowAssumption, NumbersAssumption
<1> QED BY <1>1, NewInvoiceType DEF OrderInvoice

\* Each element of a finite set has one place in its listing.
LEMMA Listing ==
    ASSUME NEW S, IsFiniteSet(S)
    PROVE  /\ Cardinality(S) \in Nat
           /\ SetToSeq(S) \in [1..Cardinality(S) -> S]
           /\ \A m, n \in 1..Cardinality(S) :
                 SetToSeq(S)[m] = SetToSeq(S)[n] => m = n
           /\ \A x \in S : \E n \in 1..Cardinality(S) : SetToSeq(S)[n] = x
<1>1. Cardinality(S) \in Nat /\ ExistsBijection(1..Cardinality(S), S)
  BY FS_CardinalityType
<1>2. PICK f : f \in Bijection(1..Cardinality(S), S)
  BY <1>1 DEF ExistsBijection
<1>3. f \in [1..Cardinality(S) -> S] /\ IsInjective(f)
  BY <1>2 DEF Bijection, Injection, Surjection, IsInjective
<1>4. SetToSeq(S) \in [1..Cardinality(S) -> S] /\ IsInjective(SetToSeq(S))
  BY <1>3 DEF SetToSeq
<1>5. \A m, n \in 1..Cardinality(S) : SetToSeq(S)[m] = SetToSeq(S)[n] => m = n
  BY <1>4 DEF IsInjective
<1>6. SetToSeq(S) \in Injection(1..Cardinality(S), S)
  BY <1>4 DEF Injection
<1>7. Cardinality(1..Cardinality(S)) = Cardinality(S)
  <2>1. 1 \in Int /\ Cardinality(S) \in Int
    BY <1>1
  <2>2. Cardinality(1..Cardinality(S)) =
            IF 1 > Cardinality(S) THEN 0 ELSE Cardinality(S) - 1 + 1
    BY <2>1, FS_Interval
  <2> QED BY <1>1, <2>2
<1>8. SetToSeq(S) \in Surjection(1..Cardinality(S), S)
  BY <1>6, <1>7, FS_Injection
<1>9. \A x \in S : \E n \in 1..Cardinality(S) : SetToSeq(S)[n] = x
  BY <1>8 DEF Surjection
<1> QED BY <1>1, <1>4, <1>5, <1>9

LEMMA InvoicingKept ==
    ASSUME NumbersTypeOK, NEW os \in SUBSET Orders, Invoicing(os),
           UNCHANGED <<sequences, given>>
    PROVE  Kept
<1> DEFINE due == {o \in os : InvoicesOf(o) = {}}
           new == [n \in 1..Cardinality(due) |-> OrderInvoice(SetToSeq(due)[n])]
<1>1. IsFiniteSet(due)
  BY WorkflowAssumption, FS_Subset
<1>2. Cardinality(due) \in Nat /\ SetToSeq(due) \in [1..Cardinality(due) -> due]
  BY <1>1, Listing
<1>3. \A n \in 1..Cardinality(due) : /\ OrderInvoice(SetToSeq(due)[n]) \in Invoices
                                    /\ OrderInvoice(SetToSeq(due)[n]).state = "draft"
  BY <1>2, OrderInvoiceType
<1>4. /\ new \in Seq(Invoices) /\ Len(new) = Cardinality(due)
      /\ \A n \in 1..Cardinality(due) : new[n].state = "draft"
  <2> HIDE DEF due
  <2>1. new \in [1..Cardinality(due) -> Invoices]
    BY <1>2, <1>3
  <2>2. new \in Seq(Invoices) /\ DOMAIN new = 1..Cardinality(due)
    BY <1>2, <2>1, SeqDef
  <2>3. Len(new) = Cardinality(due)
    BY <1>2, <2>2
  <2> QED BY <1>3, <2>2, <2>3
<1>5. invoices' = invoices \o new
  BY DEF Invoicing
<1> HIDE DEF new, due
<1>6. /\ invoices' \in Seq(Invoices) /\ Len(invoices') = Len(invoices) + Len(new)
      /\ Len(invoices) \in Nat /\ Len(new) \in Nat
      /\ \A i \in 1..Len(invoices) : invoices'[i] = invoices[i]
      /\ \A i \in 1..Len(invoices') : i > Len(invoices) => invoices'[i] = new[i - Len(invoices)]
  <2>1. invoices \in Seq(Invoices) /\ new \in Seq(Invoices)
    BY <1>4 DEF NumbersTypeOK
  <2>2. /\ invoices \o new \in Seq(Invoices)
        /\ Len(invoices \o new) = Len(invoices) + Len(new)
        /\ \A i \in 1..Len(invoices) + Len(new) : (invoices \o new)[i] =
               IF i <= Len(invoices) THEN invoices[i] ELSE new[i - Len(invoices)]
    BY <2>1, ConcatProperties
  <2>3. Len(invoices) \in Nat /\ Len(new) \in Nat
    BY <2>1, LenProperties
  <2> QED BY <1>5, <2>2, <2>3
<1>7. \A i \in 1..Len(invoices') : i > Len(invoices) => invoices'[i].state = "draft"
  BY <1>2, <1>4, <1>6
<1>8. DOMAIN invoices = 1..Len(invoices) /\ DOMAIN invoices' = 1..Len(invoices')
  BY <1>6 DEF NumbersTypeOK
<1> QED BY <1>6, <1>7, <1>8 DEF Kept, Row

LEMMA AppendKept ==
    ASSUME NumbersTypeOK, NEW x \in Invoices, x.state = "draft",
           invoices' = Append(invoices, x), UNCHANGED <<sequences, given>>
    PROVE  Kept
<1>1. /\ invoices' \in Seq(Invoices) /\ Len(invoices) \in Nat
      /\ Len(invoices') = Len(invoices) + 1
      /\ \A i \in 1..Len(invoices) : invoices'[i] = invoices[i]
      /\ invoices'[Len(invoices) + 1] = x
  BY DEF NumbersTypeOK
<1>2. DOMAIN invoices = 1..Len(invoices) /\ DOMAIN invoices' = 1..Len(invoices')
  BY <1>1 DEF NumbersTypeOK
<1>3. \A i \in DOMAIN invoices' \ DOMAIN invoices : i = Len(invoices) + 1
  BY <1>1, <1>2
<1> QED BY <1>1, <1>2, <1>3 DEF Kept, Row

\* Rows that are written, each in a way that puts nothing in force.
LEMMA WrittenKept ==
    ASSUME NumbersTypeOK, UNCHANGED <<sequences, given>>,
           NEW f \in [DOMAIN invoices -> Invoices],
           invoices' = f,
           \A i \in DOMAIN invoices : Row(invoices[i], f[i])
    PROVE  Kept
<1>1. DOMAIN invoices = 1..Len(invoices) /\ Len(invoices) \in Nat
  BY DEF NumbersTypeOK
<1>2. invoices' \in Seq(Invoices) /\ DOMAIN invoices' = DOMAIN invoices
  BY <1>1, SeqDef
<1> QED BY <1>2 DEF Kept

LEMMA MoveKept ==
    ASSUME NumbersTypeOK, UNCHANGED <<sequences, given>>, NEW i \in DOMAIN invoices,
           NEW from, NEW to \in InvoiceStates, Move(i, from, to),
           to \notin Valid \/ from = {"open"}
    PROVE  Kept
<1> DEFINE f == [invoices EXCEPT ![i].state = to]
<1>1. \A k \in DOMAIN invoices : invoices[k] \in Invoices
  BY DEF NumbersTypeOK
<1>2. DOMAIN f = DOMAIN invoices /\ \A k \in DOMAIN invoices :
          f[k] = IF k = i THEN [invoices[k] EXCEPT !.state = to] ELSE invoices[k]
  BY DEF NumbersTypeOK
<1>3. \A k \in DOMAIN invoices : f[k] \in Invoices /\ Row(invoices[k], f[k])
  BY <1>1, <1>2 DEF Invoices, Row, Move, Valid
<1>4. f \in [DOMAIN invoices -> Invoices]
  BY <1>2, <1>3 DEF NumbersTypeOK
<1> QED BY <1>3, <1>4, WrittenKept DEF Move

LEMMA SetDateKept ==
    ASSUME NumbersTypeOK, UNCHANGED <<sequences, given>>, NEW i \in DOMAIN invoices, SetDate(i)
    PROVE  Kept
<1>0. PICK date \in Days \cup {0} : invoices' = [invoices EXCEPT ![i].date = date]
  BY DEF SetDate
<1>5. date \in Nat /\ invoices[i].state = "draft"
  BY NumbersAssumption DEF SetDate
<1> DEFINE f == [invoices EXCEPT ![i].date = date]
<1>1. \A k \in DOMAIN invoices : invoices[k] \in Invoices
  BY DEF NumbersTypeOK
<1>2. DOMAIN f = DOMAIN invoices /\ \A k \in DOMAIN invoices :
          f[k] = IF k = i THEN [invoices[k] EXCEPT !.date = date] ELSE invoices[k]
  BY DEF NumbersTypeOK
<1>3. \A k \in DOMAIN invoices : f[k] \in Invoices /\ Row(invoices[k], f[k])
  BY <1>1, <1>2, <1>5 DEF Invoices, Row, Valid
<1>4. f \in [DOMAIN invoices -> Invoices]
  BY <1>2, <1>3 DEF NumbersTypeOK
<1> QED BY <1>0, <1>3, <1>4, WrittenKept

LEMMA CancelKept ==
    ASSUME NumbersTypeOK, UNCHANGED <<sequences, given>>, NEW S,
           invoices' = [i \in DOMAIN invoices |->
               IF i \in S THEN [invoices[i] EXCEPT !.state = "cancel"] ELSE invoices[i]]
    PROVE  Kept
<1> DEFINE f == [i \in DOMAIN invoices |->
               IF i \in S THEN [invoices[i] EXCEPT !.state = "cancel"] ELSE invoices[i]]
<1>1. \A k \in DOMAIN invoices : invoices[k] \in Invoices
  BY DEF NumbersTypeOK
<1>2. \A k \in DOMAIN invoices : f[k] \in Invoices /\ Row(invoices[k], f[k])
  BY <1>1 DEF Invoices, Row, Valid, InvoiceStates
<1> QED BY <1>2, WrittenKept

LEMMA DuplicateKept ==
    ASSUME NumbersTypeOK, UNCHANGED <<sequences, given>>, NEW i \in DOMAIN invoices, Duplicate(i)
    PROVE  Kept
<1> DEFINE new == [invoices[i] EXCEPT !.state = "draft", !.date = 0, !.number = 0]
<1>1. invoices[i] \in Invoices
  BY DEF NumbersTypeOK
<1>2. new \in Invoices /\ new.state = "draft"
  BY <1>1 DEF Invoices, InvoiceStates
<1> QED BY <1>2, AppendKept DEF Duplicate

LEMMA RefundKept ==
    ASSUME NumbersTypeOK, UNCHANGED <<sequences, given>>, NEW i \in DOMAIN invoices, Refund(i)
    PROVE  Kept
<1>1. invoices[i] \in Invoices
  BY DEF NumbersTypeOK
<1>2. invoices[i].order \in Orders
  BY <1>1 DEF Invoices
<1> QED BY <1>2, NewInvoiceType, AppendKept DEF Refund

-----------------------------------------------------------------------------
(* Types                                                                   *)

OrderRows == [state : {"none", "draft", "progress", "cancel"},
              act : {"none", "draft", "running", "stopped"},
              auto : BOOLEAN, failing : BOOLEAN, ignore : BOOLEAN, free : Nat, spent : Nat]
PickingRows == [state : {"none", "assigned", "done", "cancel"}, auto : BOOLEAN,
                stuck : BOOLEAN, number : Nat]

CronTypeOK ==
    /\ cron = [step |-> cron.step, todo |-> cron.todo, remito |-> cron.remito,
               seen |-> cron.seen]
    /\ cron.step \in 1..4

WorkflowTypeOK ==
    /\ NumbersTypeOK
    /\ orders \in [Orders -> OrderRows]
    /\ pickings \in [Orders -> PickingRows]
    /\ remito \in Nat \ {0}
    /\ CronTypeOK
    /\ acts \in Nat

\* The delivery of an order before the workflow has run, and one to transfer,
\* have no number; the cron only has deliveries to transfer in its hands.
PickingsOK ==
    /\ \A o \in Orders :
          /\ orders[o].state = "none" \/ orders[o].act \in {"none", "draft"}
                => pickings[o].state = "none" /\ pickings[o].number = 0
          /\ pickings[o].state = "assigned" => pickings[o].number = 0
    /\ cron.step = 3 =>
          /\ cron.todo \subseteq Orders
          /\ \A o \in cron.todo : cron.seen[o].state = "assigned"

\* A signal has no effect on an order that was confirmed or canceled: its workflow
\* runs or is stopped, or the rule that held it in draft still does.
NoSignal == \A o \in Orders : orders[o].state \in {"progress", "cancel"} => ~SignalConfirm(o)

WorkflowInv == WorkflowTypeOK /\ PickingsOK /\ NoSignal

LEMMA StepsAt ==
    /\ Len(Steps) = 4
    /\ \A n \in 1..4 : /\ Steps[n] = "orders" <=> n = 1
                       /\ Steps[n] = "invoices" <=> n = 2
                       /\ Steps[n] = "pickings" <=> n = 3
                       /\ Steps[n] = "reconcile" <=> n = 4
BY DEF Steps

LEMMA NumbersTypeNext ==
    ASSUME NumbersTypeOK, NumbersStep, today' = today \/ today' = today + 1
    PROVE  NumbersTypeOK'
<1>0. today' \in Nat \ {0}
  BY DEF NumbersTypeOK
<1>1. CASE Kept /\ UNCHANGED txns
  BY <1>0, <1>1 DEF Kept, NumbersTypeOK
<1>2. ASSUME NEW v \in Validators, NEW i \in DOMAIN invoices, BeginValidation(v, i)
      PROVE  NumbersTypeOK'
  <2> DEFINE t == [invoice |-> i, seen |-> invoices[i], date |-> DateOf(invoices[i]),
                   number |-> sequences[Class(invoices[i])]]
  <2>1. invoices[i] \in Invoices /\ i \in Nat
    BY DEF NumbersTypeOK
  <2>2. DateOf(invoices[i]) \in Nat
    BY <2>1 DEF DateOf, Invoices, NumbersTypeOK
  <2>3. sequences[Class(invoices[i])] \in Nat
    BY <2>1, ClassType DEF NumbersTypeOK
  <2>4. t \in Txns
    BY <2>1, <2>2, <2>3 DEF Txns
  <2>5. /\ txns' = [txns EXCEPT ![v] = t] /\ t.invoice = i
        /\ UNCHANGED <<today, invoices, sequences, given>>
    BY <1>2 DEF BeginValidation
  <2> QED BY <2>4, <2>5 DEF NumbersTypeOK
<1>3. ASSUME NEW v \in Validators, CommitValidation(v) PROVE NumbersTypeOK'
  <2>1. /\ txns' = [txns EXCEPT ![v] = Idle] /\ txns[v] # Idle
        /\ txns[v] \in Txns /\ txns[v].invoice \in DOMAIN invoices
    BY <1>3 DEF CommitValidation, NumbersTypeOK
  <2>2. CASE UNCHANGED <<invoices, sequences, given>>
    BY <1>0, <2>1, <2>2 DEF NumbersTypeOK
  <2>3. CASE Numbered(txns[v])
    <3> DEFINE txn == txns[v]
               new == [invoices[txn.invoice] EXCEPT !.state = "open", !.date = txn.date,
                                !.type = AfipType(txn.seen), !.number = txn.number]
    <3>1. invoices[txn.invoice] \in Invoices
      BY <2>1 DEF NumbersTypeOK
    <3>2. AfipType(txn.seen) \in Letters \X Kinds /\ Class(txn.seen) \in Classes
      BY <2>1, AfipTypeType, ClassType DEF Txns
    <3>3. new \in Invoices
      BY <2>1, <3>1, <3>2 DEF Invoices, Txns, InvoiceStates
    <3>4. /\ invoices' = [invoices EXCEPT ![txn.invoice] = new]
          /\ sequences' = [sequences EXCEPT ![Class(txn.seen)] = @ + 1]
      BY <2>3 DEF Numbered
    <3>5. invoices' \in Seq(Invoices) /\ DOMAIN invoices' = DOMAIN invoices
      BY <2>1, <3>3, <3>4, ExceptSeq, LenProperties DEF NumbersTypeOK
    <3>6. sequences' \in [Classes -> Nat \ {0}]
      BY <3>2, <3>4 DEF NumbersTypeOK
    <3> QED BY <1>0, <2>1, <3>5, <3>6 DEF NumbersTypeOK
  <2> QED BY <1>3, <2>2, <2>3 DEF CommitValidation
<1> QED BY <1>1, <1>2, <1>3 DEF NumbersStep

\* What the workflow does to the numbers, whoever acts.
LEMMA NextNumbers ==
    ASSUME WorkflowInv, Next
    PROVE  NumbersStep /\ (today' = today \/ today' = today + 1)
<1> USE DEF WorkflowInv, WorkflowTypeOK
<1>0. ASSUME UNCHANGED numbersVars PROVE NumbersStep /\ today' = today
  BY <1>0, KeptSame DEF numbersVars, NumbersStep
<1>1. ASSUME NEW o \in Orders, Import(o) \/ UserEdit(o) PROVE NumbersStep /\ today' = today
  BY <1>0, <1>1 DEF Import, UserEdit
<1>2. ASSUME NEW o \in Orders, Running(o), UNCHANGED <<sequences, txns, given>>
      PROVE  NumbersStep
  <2>1. {p \in {o} : CreatesInvoice(p, FALSE)} \in SUBSET Orders
    OBVIOUS
  <2> QED BY <1>2, <2>1, InvoicingKept DEF Running, NumbersStep
<1>3. ASSUME NEW o \in Orders, UserConfirm(o) \/ CronConfirm(o)
      PROVE  NumbersStep /\ today' = today
  <2>1. UNCHANGED <<today, sequences, txns, given>> /\ (Running(o) \/ UNCHANGED invoices)
    BY <1>3 DEF UserConfirm, CronConfirm
  <2> QED BY <1>2, <2>1, KeptSame DEF NumbersStep
<1>4. ASSUME NEW o \in Orders, UserCancel(o) PROVE NumbersStep /\ today' = today
  <2>1. UNCHANGED <<today, sequences, txns, given>>
        /\ invoices' = [i \in DOMAIN invoices |->
             IF i \in InvoicesOf(o) THEN [invoices[i] EXCEPT !.state = "cancel"] ELSE invoices[i]]
    BY <1>4 DEF UserCancel
  <2>2. Kept
    BY <2>1, CancelKept
  <2> QED BY <2>1, <2>2 DEF NumbersStep
<1>5. ASSUME NEW os \in SUBSET Orders, NEW first, Transferred(os, first),
             UNCHANGED <<sequences, txns, given>>
      PROVE  NumbersStep
  <2>1. {o \in os : orders[o].act = "running" /\ CreatesInvoice(o, TRUE)} \in SUBSET Orders
    OBVIOUS
  <2> QED BY <1>5, <2>1, InvoicingKept DEF Transferred, NumbersStep
<1>6. ASSUME NEW o \in Orders, UserPicking(o) PROVE NumbersStep /\ today' = today
  <2>1. UNCHANGED <<today, sequences, txns, given>>
        /\ (Transferred({o}, remito) \/ UNCHANGED invoices)
    BY <1>6 DEF UserPicking
  <2> QED BY <1>5, <2>1, KeptSame DEF NumbersStep
<1>7. ASSUME NEW i \in DOMAIN invoices, UserInvoice(i) PROVE NumbersStep /\ today' = today
  <2>1. UNCHANGED <<today, sequences, txns, given>>
        /\ \/ SetDate(i) \/ Duplicate(i) \/ Refund(i)
           \/ Move(i, {"draft", "open"}, "cancel") \/ Move(i, {"cancel"}, "draft")
           \/ Move(i, {"open"}, "paid")
    BY <1>7 DEF UserInvoice
  <2>2. {"cancel", "draft", "paid"} \subseteq InvoiceStates
        /\ "cancel" \notin Valid /\ "draft" \notin Valid
    BY DEF InvoiceStates, Valid
  <2>3. Kept
    BY <2>1, <2>2, SetDateKept, DuplicateKept, RefundKept, MoveKept
  <2> QED BY <2>1, <2>3 DEF NumbersStep
<1>8. ASSUME NEW v \in Validators, NEW i \in DOMAIN invoices, UserValidate(v, i)
      PROVE  NumbersStep /\ today' = today
  BY <1>8 DEF UserValidate, BeginValidation, NumbersStep
<1>9. ASSUME NEW v \in Validators, UserCommit(v) PROVE NumbersStep /\ today' = today
  BY <1>9 DEF UserCommit, CommitValidation, NumbersStep
<1>10. ASSUME NEW i \in DOMAIN invoices, CronValidate(i) PROVE NumbersStep /\ today' = today
  <2>1. CASE UNCHANGED numbersVars
    BY <1>0, <2>1
  <2>2. CASE BeginValidation(Cron, i)
    BY <2>2, WorkflowAssumption DEF BeginValidation, NumbersStep
  <2> QED BY <1>10, <2>1, <2>2 DEF CronValidate
<1>11. ASSUME NEW i \in DOMAIN invoices, CronReconcile(i) PROVE NumbersStep /\ today' = today
  <2>1. UNCHANGED <<today, sequences, txns, given>>
        /\ (Move(i, {"open"}, "paid") \/ UNCHANGED invoices)
    BY <1>11 DEF CronReconcile, Move
  <2>2. Kept
    BY <2>1, MoveKept, KeptSame DEF InvoiceStates
  <2> QED BY <2>1, <2>2 DEF NumbersStep
<1>12. CASE CronTransfer
  <2>1. /\ UNCHANGED <<today, sequences, txns, given>>
        /\ Transferred(cron.todo, cron.remito) \/ UNCHANGED invoices
        /\ cron.step = 3
    BY <1>12, StepsAt DEF CronTransfer, At, CronTypeOK
  <2>2. cron.todo \in SUBSET Orders
    BY <2>1 DEF PickingsOK
  <2> QED BY <1>5, <2>1, <2>2, KeptSame DEF NumbersStep
<1>13. CASE CronCommit
  BY <1>13, WorkflowAssumption DEF CronCommit, CommitValidation, NumbersStep
<1>14. CASE CronError \/ \E n \in DOMAIN Steps : CronSearch(n)
  BY <1>0, <1>14 DEF CronError, CronSearch
<1>15. CASE Tick
  BY <1>15, KeptSame DEF Tick, NumbersStep
<1> QED
  BY <1>1, <1>3, <1>4, <1>6, <1>7, <1>8, <1>9, <1>10, <1>11, <1>12, <1>13, <1>14, <1>15
  DEF Next, CronStep

\* The listing gives each transferred delivery its place.
LEMMA TransferredRows ==
    ASSUME WorkflowTypeOK, NEW os \in SUBSET Orders, NEW first \in Nat \ {0},
           Transferred(os, first)
    PROVE  \E pos \in [os -> 1..Cardinality(os)] :
              /\ \A o \in os : /\ pickings'[o].state = "done"
                               /\ pickings'[o].number = first - 1 + pos[o]
                               /\ pickings'[o].auto = pickings[o].auto
                               /\ pickings'[o].stuck = pickings[o].stuck
              /\ \A o, p \in os : pos[o] = pos[p] => o = p
              /\ \A n \in 1..Cardinality(os) : \E o \in os : pos[o] = n
              /\ \A o \in Orders \ os : pickings'[o] = pickings[o]
              /\ pickings' \in [Orders -> PickingRows]
              /\ Cardinality(os) \in Nat
              /\ remito' = first + Cardinality(os)
<1> DEFINE row == SetToSeq(os)
           Place(o) == CHOOSE n \in DOMAIN row : row[n] = o
           pos == [o \in os |-> Place(o)]
<1>1. IsFiniteSet(os)
  BY WorkflowAssumption, FS_Subset
<1>2. /\ Cardinality(os) \in Nat /\ row \in [1..Cardinality(os) -> os]
      /\ \A m, n \in 1..Cardinality(os) : row[m] = row[n] => m = n
      /\ \A x \in os : \E n \in 1..Cardinality(os) : row[n] = x
  BY <1>1, Listing
<1> HIDE DEF row
<1>3. DOMAIN row = 1..Cardinality(os)
  BY <1>2
<1>4. ASSUME NEW o \in os PROVE Place(o) \in 1..Cardinality(os) /\ row[Place(o)] = o
  BY <1>2, <1>3
<1>5. pos \in [os -> 1..Cardinality(os)] /\ \A o \in os : pos[o] = Place(o)
  BY <1>4
<1>6. \A o, p \in os : pos[o] = pos[p] => o = p
  BY <1>4, <1>5
<1>7. \A n \in 1..Cardinality(os) : \E o \in os : pos[o] = n
  <2> SUFFICES ASSUME NEW n \in 1..Cardinality(os) PROVE pos[row[n]] = n /\ row[n] \in os
    OBVIOUS
  <2>1. row[n] \in os
    BY <1>2
  <2>2. row[Place(row[n])] = row[n] /\ Place(row[n]) \in 1..Cardinality(os)
    BY <1>4, <2>1
  <2>3. Place(row[n]) = n
    BY <1>2, <2>2
  <2> QED BY <1>5, <2>1, <2>3
<1>8. /\ pickings' = [o \in Orders |->
             IF o \in os THEN [pickings[o] EXCEPT !.state = "done",
                                                 !.number = first - 1 + Place(o)]
             ELSE pickings[o]]
      /\ remito' = first + Cardinality(os)
  BY DEF Transferred, row
<1>9. \A o \in Orders : pickings[o] \in PickingRows
  BY DEF WorkflowTypeOK
<1> HIDE DEF Place
<1>10. ASSUME NEW o \in os
       PROVE  /\ pickings'[o] = [pickings[o] EXCEPT !.state = "done",
                                                   !.number = first - 1 + Place(o)]
              /\ first - 1 + Place(o) \in Nat
  <2>1. pickings'[o] = [pickings[o] EXCEPT !.state = "done",
                                          !.number = first - 1 + Place(o)]
    BY <1>8
  <2>2. Place(o) \in 1..Cardinality(os) /\ Cardinality(os) \in Nat
    BY <1>2, <1>4
  <2> QED BY <2>1, <2>2
<1>11. ASSUME NEW o \in os
       PROVE  /\ pickings'[o].state = "done"
              /\ pickings'[o].number = first - 1 + pos[o]
              /\ pickings'[o].auto = pickings[o].auto
              /\ pickings'[o].stuck = pickings[o].stuck
              /\ pickings'[o] \in PickingRows
  <2> DEFINE k == first - 1 + Place(o)
  <2>1. pickings[o] \in PickingRows /\ k \in Nat /\ pos[o] = Place(o)
    BY <1>5, <1>9, <1>10
  <2>2. pickings'[o] = [pickings[o] EXCEPT !.state = "done", !.number = k]
    BY <1>10
  <2> HIDE DEF k
  <2>3. /\ pickings'[o].state = "done" /\ pickings'[o].number = k
        /\ pickings'[o].auto = pickings[o].auto /\ pickings'[o].stuck = pickings[o].stuck
        /\ pickings'[o] \in PickingRows
    BY <2>1, <2>2 DEF PickingRows
  <2> QED BY <2>1, <2>3 DEF k
<1>12. \A o \in Orders \ os : pickings'[o] = pickings[o]
  BY <1>8
<1>13. pickings' \in [Orders -> PickingRows]
  BY <1>8, <1>9, <1>11, <1>12
<1> QED BY <1>2, <1>5, <1>6, <1>7, <1>8, <1>11, <1>12, <1>13

\* What Running writes.
LEMMA RunningRows ==
    ASSUME WorkflowTypeOK, NEW o \in Orders, Running(o)
    PROVE  /\ orders' \in [Orders -> OrderRows]
           /\ orders'[o].act = "running" /\ orders'[o].state = "progress"
           /\ \A p \in Orders : p # o => orders'[p] = orders[p] /\ pickings'[p] = pickings[p]
           /\ pickings' \in [Orders -> PickingRows]
           /\ pickings'[o].state = "assigned" /\ pickings'[o].number = pickings[o].number
<1>1. /\ orders' = [orders EXCEPT ![o].act = "running", ![o].state = "progress"]
      /\ pickings' = [pickings EXCEPT ![o] =
            [@ EXCEPT !.state = "assigned", !.auto = orders[o].auto]]
  BY DEF Running
<1>2. orders[o] \in OrderRows /\ pickings[o] \in PickingRows /\ orders[o].auto \in BOOLEAN
  BY DEF WorkflowTypeOK, OrderRows
<1>3. /\ [orders[o] EXCEPT !.act = "running", !.state = "progress"] \in OrderRows
      /\ [pickings[o] EXCEPT !.state = "assigned", !.auto = orders[o].auto] \in PickingRows
  BY <1>2 DEF OrderRows, PickingRows
<1>4. orders' \in [Orders -> OrderRows] /\ pickings' \in [Orders -> PickingRows]
  BY <1>1, <1>3 DEF WorkflowTypeOK
<1> QED BY <1>1, <1>2, <1>4 DEF WorkflowTypeOK, OrderRows, PickingRows

LEMMA WorkflowInit == Init => WorkflowInv
<1> SUFFICES ASSUME Init PROVE WorkflowInv
  OBVIOUS
<1>1. NumbersTypeOK
  BY EmptySeq DEF Init, NumbersTypeOK
<1>2. orders \in [Orders -> OrderRows] /\ pickings \in [Orders -> PickingRows]
  BY DEF Init, OrderRows, PickingRows
<1>3. CronTypeOK /\ cron.step = 4
  BY StepsAt DEF Init, CronTypeOK
<1>4. WorkflowTypeOK
  BY <1>1, <1>2, <1>3 DEF WorkflowTypeOK, Init
<1>5. PickingsOK /\ NoSignal
  BY <1>3 DEF Init, PickingsOK, NoSignal, SignalConfirm, Blocked
<1> QED BY <1>4, <1>5 DEF WorkflowInv

LEMMA WorkflowNext == WorkflowInv /\ [Next]_vars => WorkflowInv'
<1> SUFFICES ASSUME WorkflowInv, [Next]_vars PROVE WorkflowInv'
  OBVIOUS
<1>1. CASE UNCHANGED vars
  BY <1>1 DEF vars, numbersVars, WorkflowInv, WorkflowTypeOK, NumbersTypeOK, CronTypeOK,
              PickingsOK, NoSignal, SignalConfirm, Blocked
<1>2. CASE Next
  <2> DEFINE Rest == /\ orders' \in [Orders -> OrderRows]
                     /\ pickings' \in [Orders -> PickingRows]
                     /\ remito' \in Nat \ {0} /\ CronTypeOK' /\ acts' \in Nat
                     /\ PickingsOK' /\ NoSignal'
  <2>1. NumbersTypeOK'
    BY <1>2, NextNumbers, NumbersTypeNext DEF WorkflowInv, WorkflowTypeOK
  <2> SUFFICES Rest
    BY <2>1 DEF WorkflowInv, WorkflowTypeOK
  <2>2. /\ orders \in [Orders -> OrderRows] /\ pickings \in [Orders -> PickingRows]
        /\ remito \in Nat \ {0} /\ CronTypeOK /\ acts \in Nat
        /\ PickingsOK /\ NoSignal /\ WorkflowTypeOK
        /\ (acts' = acts \/ acts' = acts + 1)
    BY <1>2 DEF WorkflowInv, WorkflowTypeOK, Next, CronStep, Import, UserConfirm, UserEdit,
         UserCancel, UserPicking, UserInvoice, UserValidate, UserCommit, CronSearch,
         CronConfirm, CronValidate, CronReconcile, CronTransfer, CronCommit, CronError,
         Tick, Act
  <2>3. acts' \in Nat
    BY <2>2
  \* Only orders change, and those not to what has no delivery.
  <2>4. ASSUME UNCHANGED <<pickings, remito, cron>>, orders' \in [Orders -> OrderRows],
               \A o \in Orders : \/ orders'[o] = orders[o]
                                 \/ /\ orders'[o].state # "none"
                                    /\ orders'[o].act \in {"none", "draft"} =>
                                          \/ orders[o].state = "none"
                                          \/ orders[o].act \in {"none", "draft"}
                                    /\ orders'[o].state \in {"progress", "cancel"} => ~SignalConfirm(o)'
        PROVE  Rest
    BY <2>2, <2>3, <2>4 DEF PickingsOK, NoSignal, SignalConfirm, Blocked, CronTypeOK
  <2>5. ASSUME UNCHANGED <<orders, pickings, remito, cron>> PROVE Rest
    BY <2>2, <2>3, <2>5 DEF PickingsOK, NoSignal, SignalConfirm, Blocked, CronTypeOK
  \* What the cron takes out of its list, in a step other than the transfer.
  <2>6. ASSUME UNCHANGED <<orders, pickings, remito>>, cron.step # 3,
               NEW x, cron' = [cron EXCEPT !.todo = @ \ {x}]
        PROVE  Rest
    BY <2>2, <2>3, <2>6 DEF PickingsOK, NoSignal, SignalConfirm, Blocked, CronTypeOK
  <2>7. ASSUME NEW o \in Orders, Import(o) PROVE Rest
    <3>1. PICK amount \in Amounts[o], failing \in BOOLEAN :
              orders' = [orders EXCEPT ![o] =
                  [@ EXCEPT !.state = "draft", !.act = "draft", !.auto = TRUE,
                            !.failing = failing, !.free = amount]]
      BY <2>7 DEF Import
    <3>2. orders[o] \in OrderRows /\ amount \in Nat
      BY <2>2, WorkflowAssumption
    <3>3. [orders[o] EXCEPT !.state = "draft", !.act = "draft", !.auto = TRUE,
                            !.failing = failing, !.free = amount] \in OrderRows
      BY <3>2 DEF OrderRows
    <3>4. /\ orders' \in [Orders -> OrderRows]
          /\ \A p \in Orders : p # o => orders'[p] = orders[p]
          /\ orders'[o].state = "draft" /\ orders[o].state = "none"
      BY <2>2, <2>7, <3>1, <3>2, <3>3 DEF Import, OrderRows
    <3>5. UNCHANGED <<pickings, remito, cron>>
      BY <2>7 DEF Import
    <3> QED BY <2>4, <3>4, <3>5
  <2>8. ASSUME NEW o \in Orders, SignalConfirm(o), Running(o), UNCHANGED remito,
               \/ UNCHANGED cron
               \/ cron.step # 3 /\ cron' = [cron EXCEPT !.todo = @ \ {o}]
        PROVE  Rest
    <3>1. /\ orders' \in [Orders -> OrderRows]
          /\ orders'[o].act = "running" /\ orders'[o].state = "progress"
          /\ \A p \in Orders : p # o => orders'[p] = orders[p] /\ pickings'[p] = pickings[p]
          /\ pickings' \in [Orders -> PickingRows]
          /\ pickings'[o].state = "assigned" /\ pickings'[o].number = pickings[o].number
      BY <2>2, <2>8, RunningRows
    <3>2. pickings[o].number = 0 /\ orders[o].act = "draft"
      BY <2>2, <2>8 DEF SignalConfirm, PickingsOK
    <3>3. CronTypeOK' /\ (cron'.step = 3 => UNCHANGED cron)
      BY <2>2, <2>8 DEF CronTypeOK
    <3>4. PickingsOK'
      BY <2>2, <3>1, <3>2, <3>3 DEF PickingsOK
    <3>5. NoSignal'
      BY <2>2, <3>1 DEF NoSignal, SignalConfirm, Blocked
    <3> QED BY <2>2, <2>3, <2>8, <3>1, <3>3, <3>4, <3>5
  <2>9. ASSUME NEW o \in Orders, UserConfirm(o) PROVE Rest
    <3>1. CASE SignalConfirm(o)
      BY <2>8, <2>9, <3>1 DEF UserConfirm
    <3>2. CASE ~SignalConfirm(o)
      <4>1. /\ orders' = [orders EXCEPT ![o].state = "progress"]
            /\ UNCHANGED <<pickings, remito, cron>>
        BY <2>9, <3>2 DEF UserConfirm
      <4>2. /\ orders' \in [Orders -> OrderRows] /\ orders'[o].state = "progress"
            /\ orders'[o].act = orders[o].act
            /\ orders'[o].failing = orders[o].failing /\ orders'[o].ignore = orders[o].ignore
            /\ \A p \in Orders : p # o => orders'[p] = orders[p]
        BY <2>2, <4>1 DEF OrderRows
      <4>3. ~SignalConfirm(o)'
        BY <3>2, <4>2 DEF SignalConfirm, Blocked
      <4> QED BY <2>4, <4>1, <4>2, <4>3
    <3> QED BY <3>1, <3>2
  <2>10. ASSUME NEW o \in Orders, UserEdit(o) PROVE Rest
    <3>1. PICK b \in BOOLEAN : \/ orders' = [orders EXCEPT ![o].failing = b]
                               \/ orders' = [orders EXCEPT ![o].ignore = b]
                               \/ orders' = [orders EXCEPT ![o].auto = b]
      <4>1. orders[o].failing \in BOOLEAN
        BY <2>2 DEF OrderRows
      <4>2. \/ orders' = [orders EXCEPT ![o].failing = ~orders[o].failing]
            \/ orders' = [orders EXCEPT ![o].ignore = TRUE]
            \/ orders' = [orders EXCEPT ![o].auto = FALSE]
        BY <2>2, <2>10 DEF UserEdit
      <4> QED BY <4>1, <4>2
    <3>2. /\ orders' \in [Orders -> OrderRows] /\ orders'[o].state = orders[o].state
          /\ orders'[o].act = orders[o].act
          /\ \A p \in Orders : p # o => orders'[p] = orders[p]
      BY <2>2, <3>1 DEF OrderRows
    <3>3. UNCHANGED <<pickings, remito, cron>> /\ orders[o].state = "draft"
      BY <2>10 DEF UserEdit
    <3> QED BY <2>4, <3>2, <3>3
  <2>11. ASSUME NEW o \in Orders, UserCancel(o) PROVE Rest
    <3> DEFINE act == IF orders[o].state = "draft" THEN "stopped" ELSE orders[o].act
               row == [orders[o] EXCEPT !.state = "cancel", !.act = act]
    <3>1. /\ orders' = [orders EXCEPT ![o].state = "cancel", ![o].act = act]
          /\ UNCHANGED <<pickings, remito, cron>> /\ orders[o].state \in {"draft", "progress"}
      BY <2>11 DEF UserCancel
    <3>2. /\ act \in {"none", "draft", "running", "stopped"}
          /\ act # "stopped" => orders[o].state = "progress" /\ act = orders[o].act
      BY <2>2, <3>1 DEF OrderRows
    <3> HIDE DEF act
    <3>3. /\ row \in OrderRows /\ row.state = "cancel" /\ row.act = act
          /\ row.failing = orders[o].failing /\ row.ignore = orders[o].ignore
      BY <2>2, <3>2 DEF OrderRows
    <3>4. orders' = [orders EXCEPT ![o] = row]
      BY <2>2, <3>1
    <3> HIDE DEF row
    <3>5. /\ orders' \in [Orders -> OrderRows] /\ orders'[o] = row
          /\ \A p \in Orders : p # o => orders'[p] = orders[p]
      BY <2>2, <3>3, <3>4
    <3>6. ~SignalConfirm(o)'
      BY <2>2, <3>2, <3>3, <3>5 DEF NoSignal, SignalConfirm, Blocked
    <3> QED BY <2>4, <3>1, <3>2, <3>3, <3>5, <3>6
  <2>12. ASSUME NEW os \in SUBSET Orders, NEW first \in Nat \ {0}, Transferred(os, first),
                UNCHANGED orders, CronTypeOK', cron'.step = 3 => UNCHANGED cron \/ cron'.todo = {},
                \A o \in os : pickings[o].state = "assigned"
         PROVE  Rest
    <3>1. /\ \A o \in os : pickings'[o].state = "done"
          /\ \A o \in Orders \ os : pickings'[o] = pickings[o]
          /\ pickings' \in [Orders -> PickingRows]
          /\ remito' \in Nat \ {0}
      <4>1. PICK pos \in [os -> 1..Cardinality(os)] :
              /\ \A o \in os : pickings'[o].state = "done"
              /\ \A o \in Orders \ os : pickings'[o] = pickings[o]
              /\ pickings' \in [Orders -> PickingRows]
              /\ Cardinality(os) \in Nat
              /\ remito' = first + Cardinality(os)
        BY <2>2, <2>12, TransferredRows
      <4> QED BY <2>12, <4>1
    <3>2. PickingsOK'
      <4>1. \A o \in os : /\ orders'[o].state # "none"
                          /\ orders'[o].act \notin {"none", "draft"}
        BY <2>2, <2>12 DEF PickingsOK
      <4> QED BY <2>2, <2>12, <3>1, <4>1 DEF PickingsOK
    <3> QED BY <2>2, <2>3, <2>12, <3>1, <3>2 DEF NoSignal, SignalConfirm, Blocked
  <2>13. ASSUME NEW o \in Orders, UserPicking(o) PROVE Rest
    <3>1. UNCHANGED <<orders, cron>> /\ pickings[o].state = "assigned"
      BY <2>13 DEF UserPicking
    <3>2. CASE Transferred({o}, remito)
      <4>1. {o} \in SUBSET Orders /\ remito \in Nat \ {0} /\ CronTypeOK'
        BY <2>2, <3>1 DEF CronTypeOK
      <4>2. \A p \in {o} : pickings[p].state = "assigned"
        BY <3>1
      <4> QED BY <2>12, <3>1, <3>2, <4>1, <4>2
    <3>3. CASE /\ UNCHANGED remito
               /\ \/ pickings' = [pickings EXCEPT ![o].state = "cancel"]
                  \/ pickings' = [pickings EXCEPT ![o].stuck = ~pickings[o].stuck]
      <4>1. /\ pickings' \in [Orders -> PickingRows]
            /\ pickings'[o].state \in {"assigned", "cancel"}
            /\ pickings'[o].number = pickings[o].number
            /\ \A p \in Orders : p # o => pickings'[p] = pickings[p]
        <5>1. pickings[o] \in PickingRows
          BY <2>2
        <5>2. /\ [pickings[o] EXCEPT !.state = "cancel"] \in PickingRows
              /\ [pickings[o] EXCEPT !.stuck = ~pickings[o].stuck] \in PickingRows
          BY <5>1 DEF PickingRows
        <5>3. CASE pickings' = [pickings EXCEPT ![o].state = "cancel"]
          BY <2>2, <5>1, <5>2, <5>3 DEF PickingRows
        <5>4. CASE pickings' = [pickings EXCEPT ![o].stuck = ~pickings[o].stuck]
          BY <2>2, <3>1, <5>1, <5>2, <5>4 DEF PickingRows
        <5> QED BY <3>3, <5>3, <5>4
      <4>2. PickingsOK'
        BY <2>2, <3>1, <4>1 DEF PickingsOK
      <4> QED BY <2>2, <2>3, <3>1, <3>3, <4>1, <4>2 DEF CronTypeOK, NoSignal, SignalConfirm, Blocked
    <3>4. \/ Transferred({o}, remito)
          \/ /\ UNCHANGED remito
             /\ \/ pickings' = [pickings EXCEPT ![o].state = "cancel"]
                \/ pickings' = [pickings EXCEPT ![o].stuck = ~pickings[o].stuck]
      BY <2>2, <2>13 DEF UserPicking
    <3> QED BY <3>2, <3>3, <3>4
  <2>14. CASE \E i \in DOMAIN invoices : UserInvoice(i) \/ \E v \in Validators : UserValidate(v, i)
    BY <2>5, <2>14 DEF UserInvoice, UserValidate
  <2>15. CASE Tick \/ CronCommit \/ \E v \in Validators : UserCommit(v)
    BY <2>5, <2>15 DEF Tick, UserCommit, CronCommit
  <2>16. ASSUME NEW n \in DOMAIN Steps, CronSearch(n) PROVE Rest
    <3> DEFINE next == (n % Len(Steps)) + 1
               found == Found(Steps[next])
    <3>1. UNCHANGED <<orders, pickings, remito>>
      BY <2>16 DEF CronSearch
    <3>2. n \in 1..4 /\ next \in 1..4
      BY StepsAt DEF Steps
    <3>3. CASE next = 3
      <4>1. Steps[next] = "pickings"
        BY <3>2, <3>3, StepsAt
      <4>2. cron' = [step |-> next, todo |-> found, remito |-> remito,
                     seen |-> [o \in found |-> pickings[o]]]
        BY <2>16, <4>1 DEF CronSearch
      <4>3. found = PickingsIn("assigned")
        BY <4>1 DEF Found
      <4>4. CronTypeOK' /\ cron'.todo = PickingsIn("assigned")
            /\ \A o \in PickingsIn("assigned") : cron'.seen[o] = pickings[o]
        BY <3>2, <4>2, <4>3 DEF CronTypeOK
      <4> QED BY <2>2, <2>3, <3>1, <4>4 DEF PickingsOK, NoSignal, SignalConfirm, Blocked, PickingsIn
    <3>4. CASE next # 3
      <4>1. Steps[next] # "pickings"
        BY <3>2, <3>4, StepsAt
      <4>2. cron' = [step |-> next, todo |-> found, remito |-> 0, seen |-> <<>>]
        BY <2>16, <4>1 DEF CronSearch
      <4>3. CronTypeOK' /\ cron'.step # 3
        BY <3>2, <3>4, <4>2 DEF CronTypeOK
      <4> QED BY <2>2, <2>3, <3>1, <4>3 DEF PickingsOK, NoSignal, SignalConfirm, Blocked
    <3> QED BY <3>3, <3>4
  <2>17. ASSUME NEW o \in Orders, CronConfirm(o) PROVE Rest
    <3>1. cron.step # 3 /\ cron' = [cron EXCEPT !.todo = @ \ {o}] /\ UNCHANGED remito
      BY <2>2, <2>17, StepsAt DEF CronConfirm, At, Taken, CronTypeOK
    <3>2. CASE SignalConfirm(o)
      BY <2>8, <2>17, <3>1, <3>2 DEF CronConfirm
    <3>3. CASE ~SignalConfirm(o)
      BY <2>6, <2>17, <3>1, <3>3 DEF CronConfirm
    <3> QED BY <3>2, <3>3
  <2>18. ASSUME NEW i \in DOMAIN invoices, CronValidate(i) PROVE Rest
    <3>1. cron.step # 3 /\ cron' = [cron EXCEPT !.todo = @ \ {i}]
          /\ UNCHANGED <<orders, pickings, remito>>
      BY <2>2, <2>18, StepsAt DEF CronValidate, At, Taken, CronTypeOK
    <3> QED BY <2>6, <3>1
  <2>19. ASSUME NEW i \in DOMAIN invoices, CronReconcile(i) PROVE Rest
    <3> DEFINE o == invoices[i].order
    <3>1. cron.step # 3 /\ cron' = [cron EXCEPT !.todo = @ \ {i}]
          /\ UNCHANGED <<pickings, remito>>
      BY <2>2, <2>19, StepsAt DEF CronReconcile, At, Taken, CronTypeOK
    <3>2. CASE UNCHANGED orders
      BY <2>6, <3>1, <3>2
    <3>3. CASE orders' = [orders EXCEPT ![o].free = 0, ![o].spent = @ + orders[o].free]
      <4>1. invoices[i] \in Invoices
        BY <2>2 DEF WorkflowTypeOK, NumbersTypeOK
      <4>2. o \in Orders
        BY <4>1 DEF Invoices
      <4>3. orders[o] \in OrderRows
        BY <2>2, <4>2
      <4>4. /\ orders' \in [Orders -> OrderRows] /\ orders'[o].state = orders[o].state
            /\ orders'[o].act = orders[o].act
            /\ orders'[o].failing = orders[o].failing /\ orders'[o].ignore = orders[o].ignore
            /\ \A p \in Orders : p # o => orders'[p] = orders[p]
        BY <2>2, <3>3, <4>2, <4>3 DEF OrderRows
      <4>6. PickingsOK /\ NoSignal /\ CronTypeOK
        BY <2>2
      <4>7. cron'.step = cron.step /\ CronTypeOK'
        BY <3>1, <4>6 DEF CronTypeOK
      <4>8. \A p \in Orders :
               /\ orders'[p].state = orders[p].state /\ orders'[p].act = orders[p].act
               /\ orders'[p].failing = orders[p].failing /\ orders'[p].ignore = orders[p].ignore
        BY <4>4
      <4>9. NoSignal'
        BY <4>6, <4>8 DEF NoSignal, SignalConfirm, Blocked
      <4>10. PickingsOK'
        BY <3>1, <4>6, <4>7, <4>8 DEF PickingsOK
      <4>5. PickingsOK' /\ NoSignal' /\ CronTypeOK'
        BY <4>7, <4>9, <4>10
      <4> QED BY <2>2, <2>3, <3>1, <4>4, <4>5
    <3> QED BY <2>19, <3>2, <3>3 DEF CronReconcile
  <2>20. CASE CronTransfer
    <3>1. /\ cron.step = 3 /\ cron' = [cron EXCEPT !.todo = {}, !.remito = 0, !.seen = <<>>]
          /\ UNCHANGED orders
      BY <2>2, <2>20, StepsAt DEF CronTransfer, At, CronTypeOK
    <3>2. CronTypeOK' /\ cron'.todo = {}
      BY <2>2, <3>1 DEF CronTypeOK
    <3>3. CASE UNCHANGED <<pickings, remito>>
      BY <2>2, <2>3, <3>1, <3>2, <3>3 DEF PickingsOK, NoSignal, SignalConfirm, Blocked
    <3>4. CASE ~PickingsConflict /\ Transferred(cron.todo, cron.remito)
      <4>1. cron.remito = remito /\ cron.todo \in SUBSET Orders
            /\ \A o \in cron.todo : pickings[o].state = "assigned"
        BY <2>2, <3>1, <3>4 DEF PickingsConflict, PickingsOK
      <4> QED BY <2>2, <2>12, <3>1, <3>2, <3>4, <4>1
    <3> QED BY <2>20, <3>3, <3>4 DEF CronTransfer
  <2>21. CASE CronError
    <3>1. /\ UNCHANGED <<orders, pickings, remito>>
          /\ \/ cron.step # 3 /\ \E x \in cron.todo : cron' = [cron EXCEPT !.todo = @ \ {x}]
             \/ cron' = [cron EXCEPT !.todo = {}, !.remito = 0, !.seen = <<>>]
      BY <2>2, <2>21, StepsAt DEF CronError, At, Taken, CronTypeOK
    <3>2. CASE cron' = [cron EXCEPT !.todo = {}, !.remito = 0, !.seen = <<>>]
      <4>1. CronTypeOK' /\ cron'.todo = {}
        BY <2>2, <3>2 DEF CronTypeOK
      <4> QED BY <2>2, <2>3, <3>1, <4>1 DEF PickingsOK, NoSignal, SignalConfirm, Blocked
    <3> QED BY <2>6, <3>1, <3>2
  <2> QED
    BY <1>2, <2>7, <2>9, <2>10, <2>11, <2>13, <2>14, <2>15, <2>16, <2>17, <2>18, <2>19,
       <2>20, <2>21
    DEF Next, CronStep
<1> QED BY <1>1, <1>2

\* Types of the documents, of the numbers and of the cron's list, for any
\* number of orders, classes and validators (sale_automatic_workflow).
THEOREM WorkflowTypes == Spec => []WorkflowTypeOK
<1>1. WorkflowInv => WorkflowTypeOK
  BY DEF WorkflowInv
<1> QED BY <1>1, WorkflowInit, WorkflowNext, PTL DEF Spec

LEMMA StepNumbers ==
    ASSUME WorkflowInv, [Next]_vars PROVE NumbersTypeOK /\ NumbersTypeOK' /\ NumbersStep
<1>1. NumbersTypeOK
  BY DEF WorkflowInv, WorkflowTypeOK
<1>2. CASE UNCHANGED vars
  BY <1>1, <1>2, KeptSame DEF vars, numbersVars, NumbersStep, NumbersTypeOK
<1>3. CASE Next
  BY <1>1, <1>3, NextNumbers, NumbersTypeNext
<1> QED BY <1>1, <1>2, <1>3

-----------------------------------------------------------------------------
(* A number is given once                                                  *)

Given(c) == {g \in given : g[1] = c}

GivenOnce ==
    \A c \in Classes :
        /\ IsFiniteSet(Given(c))
        /\ {g[2] : g \in Given(c)} = 1..(sequences[c] - 1)
        /\ Cardinality(Given(c)) = sequences[c] - 1

LEMMA GivenNext ==
    ASSUME NumbersTypeOK, NumbersStep, GivenOnce PROVE GivenOnce'
<1>1. CASE UNCHANGED <<sequences, given>>
  BY <1>1 DEF GivenOnce, Given
<1>2. ASSUME NEW v \in Validators, CommitValidation(v), ~Conflicts(txns[v])
      PROVE  GivenOnce'
  <2> DEFINE txn == txns[v]
  <2>1. txn \in Txns /\ Numbered(txn) /\ sequences[Class(txn.seen)] = txn.number
    BY <1>2 DEF CommitValidation, NumbersTypeOK, Conflicts
  <2>2. PICK d \in Classes : d = Class(txn.seen)
    BY <2>1, ClassType DEF Txns
  <2>3. PICK new \in Classes \X Nat \X Nat :
            /\ new[1] = d /\ new[2] = sequences[d]
            /\ given' = given \cup {new}
            /\ sequences'[d] = sequences[d] + 1
            /\ \A c \in Classes : c # d => sequences'[c] = sequences[c]
            /\ sequences[d] \in Nat \ {0}
    <3>1. <<d, txn.number, txn.invoice>> \in Classes \X Nat \X Nat
      BY <2>1 DEF Txns
    <3> QED BY <2>1, <2>2, <3>1 DEF Numbered, NumbersTypeOK
  <2> HIDE DEF txn
  <2>4. ASSUME NEW c \in Classes, c # d
        PROVE  Given(c)' = Given(c)
    BY <2>3, <2>4 DEF Given
  <2>5. Given(d)' = Given(d) \cup {new}
    BY <2>3 DEF Given
  <2>6. new \notin Given(d)
    <3>1. sequences[d] \notin {g[2] : g \in Given(d)}
      BY <2>2, <2>3 DEF GivenOnce
    <3> QED BY <2>3, <3>1
  <2>7. /\ IsFiniteSet(Given(d)) /\ Cardinality(Given(d)) = sequences[d] - 1
        /\ {g[2] : g \in Given(d)} = 1..(sequences[d] - 1)
    BY <2>2 DEF GivenOnce
  <2>8. /\ IsFiniteSet(Given(d) \cup {new})
        /\ Cardinality(Given(d) \cup {new}) = Cardinality(Given(d)) + 1
    BY <2>6, <2>7, FS_AddElement
  <2>9. {g[2] : g \in Given(d) \cup {new}} = 1..(sequences'[d] - 1)
    <3>1. {g[2] : g \in Given(d) \cup {new}} = {g[2] : g \in Given(d)} \cup {sequences[d]}
      BY <2>3
    <3>2. \A k \in Nat \ {0} : (1..(k - 1)) \cup {k} = 1..(k + 1 - 1)
      OBVIOUS
    <3>3. {g[2] : g \in Given(d)} \cup {sequences[d]} = 1..(sequences[d] + 1 - 1)
      BY <2>3, <2>7, <3>2
    <3> QED BY <2>3, <3>1, <3>3
  <2>10. ASSUME NEW c \in Classes
         PROVE  /\ IsFiniteSet(Given(c)')
                /\ {g[2] : g \in Given(c)'} = 1..(sequences'[c] - 1)
                /\ Cardinality(Given(c)') = sequences'[c] - 1
    <3>1. CASE c = d
      <4>1. Cardinality(Given(d)') = sequences'[d] - 1
        <5>1. Cardinality(Given(d)') = sequences[d] - 1 + 1
          BY <2>5, <2>7, <2>8
        <5> QED BY <2>3, <5>1
      <4>2. IsFiniteSet(Given(d)') /\ {g[2] : g \in Given(d)'} = 1..(sequences'[d] - 1)
        BY <2>5, <2>8, <2>9
      <4> QED BY <3>1, <4>1, <4>2
    <3>2. CASE c # d
      BY <2>3, <2>4, <3>2 DEF GivenOnce
    <3> QED BY <3>1, <3>2
  <2> QED BY <2>10 DEF GivenOnce
<1> QED BY <1>1, <1>2 DEF NumbersStep, Kept, BeginValidation, CommitValidation

LEMMA GivenInit == Init => GivenOnce
<1> SUFFICES ASSUME Init, NEW c \in Classes
             PROVE  /\ IsFiniteSet(Given(c)) /\ {g[2] : g \in Given(c)} = 1..(sequences[c] - 1)
                    /\ Cardinality(Given(c)) = sequences[c] - 1
  BY DEF GivenOnce
<1>1. Given(c) = {} /\ sequences[c] = 1
  BY DEF Init, Given
<1>2. IsFiniteSet({}) /\ Cardinality({}) = 0
  BY FS_EmptySet
<1> QED BY <1>1, <1>2

\* For any number of orders, classes and validators, and whatever validations
\* conflict and are repeated: each number of a class is given to one invoice,
\* once, and none is left out (invoice.py:339, 421).
THEOREM NumbersGivenOnce == Spec => []EveryNumberOnce
<1>1. GivenOnce => EveryNumberOnce
  BY DEF GivenOnce, EveryNumberOnce, Given
<1>2. WorkflowInv /\ GivenOnce /\ [Next]_vars => GivenOnce'
  BY StepNumbers, GivenNext
<1> QED BY <1>1, <1>2, WorkflowInit, WorkflowNext, GivenInit, PTL DEF Spec

-----------------------------------------------------------------------------
(* The numbers are in the order of the dates                               *)

\* An invoice in force has a number that its class has passed, and the type of
\* its order.
NumbersPassed ==
    \A i \in DOMAIN invoices :
        invoices[i].state \in Valid =>
            /\ invoices[i].number < sequences[Class(invoices[i])]
            /\ invoices[i].type = AfipType(invoices[i])

\* A validation that can still be committed has seen every invoice in force of
\* its class and type, and dates its own no earlier.
SeenDates ==
    \A v \in Validators :
        LET txn == txns[v]
        IN txn # Idle =>
              /\ txn.number <= sequences[Class(txn.seen)]
              /\ txn.number = sequences[Class(txn.seen)] =>
                    \A i \in DOMAIN invoices :
                        /\ invoices[i].state \in Valid
                        /\ Class(invoices[i]) = Class(txn.seen)
                        /\ invoices[i].type = AfipType(txn.seen)
                        => invoices[i].date <= txn.date

DatesInv == NumbersPassed /\ SeenDates /\ NumbersFollowDates

LEMMA DatesKept ==
    ASSUME NumbersTypeOK, NumbersTypeOK', DatesInv, Kept, UNCHANGED txns
    PROVE  DatesInv'
<1>1. ASSUME NEW i \in DOMAIN invoices', invoices'[i].state \in Valid
      PROVE  /\ i \in DOMAIN invoices /\ invoices[i].state \in Valid
             /\ invoices'[i].date = invoices[i].date /\ invoices'[i].type = invoices[i].type
             /\ invoices'[i].number = invoices[i].number
             /\ Class(invoices'[i]) = Class(invoices[i])
             /\ AfipType(invoices'[i]) = AfipType(invoices[i])
  <2>1. i \in DOMAIN invoices
    BY <1>1 DEF Kept, Valid
  <2>2. Row(invoices[i], invoices'[i])
    BY <2>1 DEF Kept
  <2> QED BY <1>1, <2>1, <2>2, SameClass DEF Row
<1>2. UNCHANGED <<sequences, txns>>
  BY DEF Kept
<1>3. NumbersPassed'
  BY <1>1, <1>2 DEF NumbersPassed, DatesInv
<1>4. SeenDates'
  BY <1>1, <1>2 DEF SeenDates, DatesInv
<1>5. NumbersFollowDates'
  BY <1>1 DEF NumbersFollowDates, DatesInv
<1> QED BY <1>3, <1>4, <1>5 DEF DatesInv

LEMMA DatesBegin ==
    ASSUME NumbersTypeOK, DatesInv, NEW v \in Validators, NEW i \in DOMAIN invoices,
           BeginValidation(v, i)
    PROVE  DatesInv'
<1> DEFINE t == [invoice |-> i, seen |-> invoices[i], date |-> DateOf(invoices[i]),
                 number |-> sequences[Class(invoices[i])]]
<1>1. /\ txns' = [txns EXCEPT ![v] = t] /\ CanNumber(invoices[i])
      /\ UNCHANGED <<today, invoices, sequences, given>>
  BY DEF BeginValidation
<1>2. sequences[Class(invoices[i])] \in Nat
  <2>1. invoices[i] \in Invoices
    BY DEF NumbersTypeOK
  <2> QED BY <2>1, ClassType DEF NumbersTypeOK
<1>3. \A k \in DOMAIN invoices :
          invoices[k].state \in Valid /\ invoices[k].type = AfipType(invoices[i])
          => invoices[k].date <= DateOf(invoices[i])
  BY <1>1 DEF CanNumber, NotOvertaken, LastDates
<1>4. SeenDates'
  <2> SUFFICES ASSUME NEW u \in Validators, txns'[u] # Idle
               PROVE  /\ txns'[u].number <= sequences[Class(txns'[u].seen)]
                      /\ txns'[u].number = sequences[Class(txns'[u].seen)] =>
                            \A k \in DOMAIN invoices :
                                /\ invoices[k].state \in Valid
                                /\ Class(invoices[k]) = Class(txns'[u].seen)
                                /\ invoices[k].type = AfipType(txns'[u].seen)
                                => invoices[k].date <= txns'[u].date
    BY <1>1 DEF SeenDates
  <2>1. CASE u = v
    <3>1. /\ txns'[u].seen = invoices[i] /\ txns'[u].date = DateOf(invoices[i])
          /\ txns'[u].number = sequences[Class(invoices[i])]
      BY <1>1, <2>1 DEF NumbersTypeOK
    <3> QED BY <1>2, <1>3, <3>1
  <2>2. CASE u # v
    <3>1. txns'[u] = txns[u]
      BY <1>1, <2>2 DEF NumbersTypeOK
    <3> QED BY <3>1 DEF SeenDates, DatesInv
  <2> QED BY <2>1, <2>2
<1> QED BY <1>1, <1>4 DEF DatesInv, NumbersPassed, NumbersFollowDates

LEMMA DatesCommit ==
    ASSUME NumbersTypeOK, DatesInv, NEW v \in Validators, CommitValidation(v)
    PROVE  DatesInv'
<1>1. CASE UNCHANGED <<invoices, sequences, given>>
  <2>1. txns' = [txns EXCEPT ![v] = Idle]
    BY DEF CommitValidation
  <2>2. \A u \in Validators : txns'[u] # Idle => txns'[u] = txns[u]
    BY <2>1 DEF NumbersTypeOK
  <2>3. SeenDates'
    BY <1>1, <2>2 DEF SeenDates, DatesInv
  <2> QED BY <1>1, <2>3 DEF DatesInv, NumbersPassed, NumbersFollowDates
<1>2. CASE ~Conflicts(txns[v])
  <2> DEFINE txn == txns[v]
             n == txn.invoice
             d == Class(txn.seen)
  <2>1. /\ txn \in Txns /\ txn # Idle /\ n \in DOMAIN invoices /\ Numbered(txn)
        /\ invoices[n] = txn.seen /\ sequences[d] = txn.number
    BY <1>2 DEF CommitValidation, NumbersTypeOK, Conflicts
  <2>2. d \in Classes /\ sequences[d] \in Nat /\ invoices[n] \in Invoices
    BY <2>1, ClassType DEF Txns, NumbersTypeOK
  <2>3. /\ DOMAIN invoices' = DOMAIN invoices
        /\ \A i \in DOMAIN invoices : i # n => invoices'[i] = invoices[i]
        /\ invoices'[n] = [invoices[n] EXCEPT !.state = "open", !.date = txn.date,
                                             !.type = AfipType(txn.seen), !.number = txn.number]
    BY <2>1 DEF Numbered, NumbersTypeOK
  <2>4. /\ invoices'[n].date = txn.date /\ invoices'[n].type = AfipType(txn.seen)
        /\ invoices'[n].number = txn.number /\ invoices'[n].order = txn.seen.order
        /\ invoices'[n].refund = txn.seen.refund
    BY <2>1, <2>2, <2>3 DEF Invoices
  <2>5. Class(invoices'[n]) = d /\ AfipType(invoices'[n]) = AfipType(txn.seen)
    BY <2>4, SameClass
  <2>6. /\ sequences'[d] = sequences[d] + 1
        /\ \A c \in Classes : c # d => sequences'[c] = sequences[c]
        /\ \A c \in Classes : sequences[c] \in Nat /\ sequences'[c] \in Nat
    BY <2>1, <2>2 DEF Numbered, NumbersTypeOK
  <2>7. \A i \in DOMAIN invoices :
            Class(invoices[i]) \in Classes /\ invoices[i].number \in Nat
    <3>1. \A i \in DOMAIN invoices : invoices[i] \in Invoices
      BY DEF NumbersTypeOK
    <3> QED BY <3>1, ClassType DEF Invoices
  <2>8. \A i \in DOMAIN invoices :
            /\ invoices[i].state \in Valid /\ Class(invoices[i]) = d
            /\ invoices[i].type = AfipType(txn.seen)
            => invoices[i].date <= txn.date
    BY <2>1 DEF DatesInv, SeenDates
  <2>9. \A i \in DOMAIN invoices :
            invoices[i].state \in Valid => /\ invoices[i].number < sequences[Class(invoices[i])]
                                          /\ invoices[i].type = AfipType(invoices[i])
    BY DEF DatesInv, NumbersPassed
  <2>10. /\ txns'[v] = Idle /\ \A u \in Validators : u # v => txns'[u] = txns[u]
    BY DEF CommitValidation, NumbersTypeOK
  <2> HIDE DEF txn, n, d
  <2>11. NumbersPassed'
    <3> SUFFICES ASSUME NEW i \in DOMAIN invoices, invoices'[i].state \in Valid
                 PROVE  /\ invoices'[i].number < sequences'[Class(invoices'[i])]
                        /\ invoices'[i].type = AfipType(invoices'[i])
      BY <2>3 DEF NumbersPassed
    <3>1. CASE i = n
      BY <2>1, <2>2, <2>4, <2>5, <2>6, <3>1
    <3>2. CASE i # n
      <4>1. invoices'[i] = invoices[i]
        BY <2>3, <3>2
      <4>2. sequences[Class(invoices[i])] <= sequences'[Class(invoices[i])]
        BY <2>6, <2>7
      <4> QED BY <2>6, <2>7, <2>9, <4>1, <4>2
    <3> QED BY <3>1, <3>2
  <2>12. SeenDates'
    <3> SUFFICES ASSUME NEW u \in Validators, txns'[u] # Idle
                 PROVE  /\ txns'[u].number <= sequences'[Class(txns'[u].seen)]
                        /\ txns'[u].number = sequences'[Class(txns'[u].seen)] =>
                              \A k \in DOMAIN invoices' :
                                  /\ invoices'[k].state \in Valid
                                  /\ Class(invoices'[k]) = Class(txns'[u].seen)
                                  /\ invoices'[k].type = AfipType(txns'[u].seen)
                                  => invoices'[k].date <= txns'[u].date
      BY DEF SeenDates
    <3> DEFINE c == Class(txns[u].seen)
    <3>1. txns'[u] = txns[u] /\ txns[u] # Idle
      BY <2>10
    <3>2. txns[u] \in Txns
      BY <3>1 DEF NumbersTypeOK
    <3>3. c \in Classes /\ txns[u].number \in Nat
      BY <3>2, ClassType DEF Txns
    <3>4. /\ txns[u].number <= sequences[c]
          /\ txns[u].number = sequences[c] =>
                \A k \in DOMAIN invoices :
                    /\ invoices[k].state \in Valid /\ Class(invoices[k]) = c
                    /\ invoices[k].type = AfipType(txns[u].seen)
                    => invoices[k].date <= txns[u].date
      BY <3>1 DEF DatesInv, SeenDates
    <3> HIDE DEF c
    <3>5. CASE c = d
      <4>1. sequences'[c] = sequences[c] + 1 /\ txns[u].number # sequences'[c]
        BY <2>2, <2>6, <3>3, <3>4, <3>5
      <4> QED BY <2>2, <2>6, <3>1, <3>3, <3>4, <4>1 DEF c
    <3>6. CASE c # d
      <4>1. sequences'[c] = sequences[c]
        BY <2>6, <3>3, <3>6
      <4>2. \A k \in DOMAIN invoices' : Class(invoices'[k]) = c =>
                k \in DOMAIN invoices /\ invoices'[k] = invoices[k]
        BY <2>3, <2>5, <3>6
      <4> QED BY <3>1, <3>4, <4>1, <4>2 DEF c
    <3> QED BY <3>5, <3>6
  <2>13. NumbersFollowDates'
    <3> SUFFICES ASSUME NEW i \in DOMAIN invoices, NEW j \in DOMAIN invoices,
                        invoices'[i].state \in Valid, invoices'[j].state \in Valid,
                        Class(invoices'[i]) = Class(invoices'[j]),
                        invoices'[i].type = invoices'[j].type,
                        invoices'[i].number < invoices'[j].number
                 PROVE  invoices'[i].date <= invoices'[j].date
      BY <2>3 DEF NumbersFollowDates
    <3>1. CASE i # n /\ j # n
      <4>1. invoices'[i] = invoices[i] /\ invoices'[j] = invoices[j]
        BY <2>3, <3>1
      <4> QED BY <4>1 DEF DatesInv, NumbersFollowDates
    <3>2. CASE i # n /\ j = n
      <4>1. invoices'[i] = invoices[i]
        BY <2>3, <3>2
      <4> QED BY <2>4, <2>5, <2>8, <3>2, <4>1
    <3>3. CASE i = n /\ j # n
      <4>1. invoices'[j] = invoices[j]
        BY <2>3, <3>3
      <4>2. invoices[j].number < sequences[d] /\ sequences[d] < invoices[j].number
        BY <2>1, <2>4, <2>5, <2>9, <3>3, <4>1
      <4> QED BY <2>2, <2>7, <4>2
    <3>4. CASE i = n /\ j = n
      <4>1. invoices'[n].number = sequences[d]
        BY <2>1, <2>4
      <4> QED BY <2>2, <3>4, <4>1
    <3> QED BY <3>1, <3>2, <3>3, <3>4
  <2> QED BY <2>11, <2>12, <2>13 DEF DatesInv
<1> QED BY <1>1, <1>2 DEF CommitValidation

LEMMA DatesNext == WorkflowInv /\ DatesInv /\ [Next]_vars => DatesInv'
BY StepNumbers, DatesKept, DatesBegin, DatesCommit DEF NumbersStep

LEMMA DatesInit == Init => DatesInv
BY DEF Init, DatesInv, NumbersPassed, SeenDates, NumbersFollowDates

\* For any number of orders, classes and validators at work at the same time,
\* and any dates: the numbers of the invoices in force of a class and type are
\* in the order of their dates (invoice.py:346-362).
THEOREM NumbersInDateOrder == Spec => []NumbersFollowDates
<1>1. DatesInv => NumbersFollowDates
  BY DEF DatesInv
<1> QED BY <1>1, WorkflowInit, WorkflowNext, DatesInit, DatesNext, PTL DEF Spec

-----------------------------------------------------------------------------
(* The numbers of deliveries                                               *)

\* A step leaves the numbers of the deliveries alone, or transfers some that
\* have none.
LEMMA NextPickings ==
    ASSUME WorkflowInv, [Next]_vars
    PROVE  \/ UNCHANGED remito /\ \A o \in Orders : pickings'[o].number = pickings[o].number
           \/ \E os \in SUBSET Orders : /\ Transferred(os, remito)
                                        /\ \A o \in os : pickings[o].number = 0
<1> DEFINE Same == UNCHANGED remito /\ \A o \in Orders : pickings'[o].number = pickings[o].number
           Gives == \E os \in SUBSET Orders : /\ Transferred(os, remito)
                                             /\ \A o \in os : pickings[o].number = 0
<1>0. WorkflowTypeOK /\ PickingsOK
  BY DEF WorkflowInv
<1>1. CASE UNCHANGED <<pickings, remito>>
  BY <1>1
<1>2. ASSUME NEW o \in Orders, Running(o), UNCHANGED remito PROVE Same
  BY <1>0, <1>2, RunningRows
<1>3. ASSUME NEW o \in Orders, UserPicking(o) PROVE Same \/ Gives
  <2>1. CASE Transferred({o}, remito)
    <3>1. \A p \in {o} : pickings[p].number = 0
      BY <1>0, <1>3 DEF UserPicking, PickingsOK
    <3> QED BY <2>1, <3>1
  <2>2. CASE ~Transferred({o}, remito)
    <3>1. /\ UNCHANGED remito
          /\ \/ pickings' = [pickings EXCEPT ![o].state = "cancel"]
             \/ pickings' = [pickings EXCEPT ![o].stuck = ~pickings[o].stuck]
      BY <1>0, <1>3, <2>2 DEF UserPicking, WorkflowTypeOK
    <3> QED BY <1>0, <3>1 DEF WorkflowTypeOK, PickingRows
  <2> QED BY <2>1, <2>2
<1>4. CASE CronTransfer
  <2>1. cron.step = 3
    BY <1>0, <1>4, StepsAt DEF CronTransfer, At, WorkflowTypeOK, CronTypeOK
  <2>2. CASE UNCHANGED <<pickings, remito>>
    BY <1>1, <2>2
  <2>3. CASE ~PickingsConflict /\ Transferred(cron.todo, cron.remito)
    <3>1. cron.remito = remito /\ cron.todo \in SUBSET Orders
          /\ \A o \in cron.todo : pickings[o].state = "assigned"
      BY <1>0, <2>1, <2>3 DEF PickingsConflict, PickingsOK
    <3>2. \A o \in cron.todo : pickings[o].number = 0
      BY <1>0, <3>1 DEF PickingsOK
    <3> QED BY <2>3, <3>1, <3>2
  <2> QED BY <1>4, <2>2, <2>3 DEF CronTransfer
<1>5. CASE \E o \in Orders : UserConfirm(o) \/ CronConfirm(o)
  <2>1. UNCHANGED remito /\ (UNCHANGED pickings \/ \E o \in Orders : Running(o))
    BY <1>5 DEF UserConfirm, CronConfirm
  <2> QED BY <1>1, <1>2, <2>1
<1> QED
  BY <1>1, <1>3, <1>4, <1>5
  DEF Next, CronStep, vars, Import, UserEdit, UserCancel, UserInvoice, UserValidate, UserCommit,
      CronSearch, CronValidate, CronReconcile, CronCommit, CronError, Tick

\* RemitosOnce, as the step that transfers needs it.
Remitos ==
    /\ \A o, p \in Orders :
          o # p /\ pickings[o].number # 0 => pickings[o].number # pickings[p].number
    /\ \A o \in Orders : pickings[o].number < remito
    /\ \A n \in 1..(remito - 1) : \E o \in Orders : pickings[o].number = n

LEMMA RemitosTransferred ==
    ASSUME WorkflowTypeOK, Remitos, NEW os \in SUBSET Orders, Transferred(os, remito),
           \A o \in os : pickings[o].number = 0
    PROVE  Remitos'
<1>1. PICK pos \in [os -> 1..Cardinality(os)] :
        /\ \A o \in os : pickings'[o].number = remito - 1 + pos[o]
        /\ \A o, p \in os : pos[o] = pos[p] => o = p
        /\ \A n \in 1..Cardinality(os) : \E o \in os : pos[o] = n
        /\ \A o \in Orders \ os : pickings'[o] = pickings[o]
        /\ Cardinality(os) \in Nat
        /\ remito' = remito + Cardinality(os)
  <2>1. remito \in Nat \ {0}
    BY DEF WorkflowTypeOK
  <2> QED BY <2>1, TransferredRows
<1>2. /\ remito \in Nat \ {0}
      /\ \A o \in Orders : pickings[o].number \in Nat /\ pickings[o].number < remito
  <2>1. \A o \in Orders : pickings[o] \in PickingRows
    BY DEF WorkflowTypeOK
  <2> QED BY <2>1 DEF WorkflowTypeOK, PickingRows, Remitos
<1>3. \A o \in os : /\ pos[o] \in 1..Cardinality(os) /\ pos[o] \in Nat
                    /\ pickings'[o].number >= remito
                    /\ pickings'[o].number < remito'
  BY <1>1, <1>2
<1>4. \A o \in Orders \ os : pickings'[o].number = pickings[o].number
  BY <1>1
<1>5. ASSUME NEW o \in Orders, NEW p \in Orders, o # p, pickings'[o].number # 0
      PROVE  pickings'[o].number # pickings'[p].number
  <2>1. CASE o \in os /\ p \in os
    BY <1>1, <1>2, <1>3, <1>5, <2>1
  <2>2. CASE o \in os /\ p \notin os
    BY <1>2, <1>3, <1>4, <2>2
  <2>3. CASE o \notin os /\ p \in os
    BY <1>2, <1>3, <1>4, <2>3
  <2>4. CASE o \notin os /\ p \notin os
    BY <1>4, <1>5, <2>4 DEF Remitos
  <2> QED BY <2>1, <2>2, <2>3, <2>4
<1>6. ASSUME NEW o \in Orders PROVE pickings'[o].number < remito'
  BY <1>1, <1>2, <1>3, <1>4
<1>7. ASSUME NEW n \in 1..(remito' - 1) PROVE \E o \in Orders : pickings'[o].number = n
  <2>1. CASE n < remito
    <3>1. n \in 1..(remito - 1) /\ n # 0
      BY <1>2, <2>1
    <3>2. PICK o \in Orders : pickings[o].number = n
      BY <3>1 DEF Remitos
    <3>3. o \notin os
      BY <3>1, <3>2
    <3> QED BY <1>4, <3>2, <3>3
  <2>2. CASE n >= remito
    <3>1. n - (remito - 1) \in 1..Cardinality(os)
      BY <1>1, <1>2, <2>2
    <3>2. PICK o \in os : pos[o] = n - (remito - 1)
      BY <1>1, <3>1
    <3>3. pickings'[o].number = n
      BY <1>1, <1>2, <1>3, <3>2
    <3> QED BY <3>3
  <2> QED BY <1>2, <2>1, <2>2
<1> QED BY <1>5, <1>6, <1>7 DEF Remitos

LEMMA RemitosNext == WorkflowInv /\ Remitos /\ [Next]_vars => Remitos'
<1> SUFFICES ASSUME WorkflowInv, Remitos, [Next]_vars PROVE Remitos'
  OBVIOUS
<1>1. CASE UNCHANGED remito /\ \A o \in Orders : pickings'[o].number = pickings[o].number
  BY <1>1 DEF Remitos
<1>2. CASE \E os \in SUBSET Orders : /\ Transferred(os, remito)
                                     /\ \A o \in os : pickings[o].number = 0
  BY <1>2, RemitosTransferred DEF WorkflowInv
<1> QED BY <1>1, <1>2, NextPickings

\* For any number of orders, whether the cron transfers their deliveries
\* together or users one by one: no two deliveries have the same number and
\* none is left out (stock.py:91).
THEOREM RemitosGivenOnce == Spec => []RemitosOnce
<1>1. Init => Remitos
  BY DEF Init, Remitos
<1>2. WorkflowTypeOK /\ Remitos => RemitosOnce
  <2> SUFFICES ASSUME WorkflowTypeOK, Remitos
               PROVE  {pickings[o].number : o \in Orders} \ {0} = 1..(remito - 1)
    BY DEF RemitosOnce, Remitos
  <2>1. \A o \in Orders : pickings[o].number \in Nat
    <3>1. \A o \in Orders : pickings[o] \in PickingRows
      BY DEF WorkflowTypeOK
    <3> QED BY <3>1 DEF PickingRows
  <2>2. remito \in Nat \ {0}
    BY DEF WorkflowTypeOK
  <2>3. \A o \in Orders : pickings[o].number # 0 => pickings[o].number \in 1..(remito - 1)
    BY <2>1, <2>2 DEF Remitos
  <2>4. \A n \in 1..(remito - 1) : n # 0 /\ \E o \in Orders : pickings[o].number = n
    BY <2>2 DEF Remitos
  <2> QED BY <2>3, <2>4
<1> QED BY <1>1, <1>2, WorkflowInit, WorkflowNext, RemitosNext, PTL DEF Spec, WorkflowInv

-----------------------------------------------------------------------------
(* Canceled orders                                                         *)

LEMMA CanceledStays ==
    ASSUME WorkflowInv, [Next]_vars, NEW o \in Orders, orders[o].state = "cancel"
    PROVE  orders'[o].state = "cancel"
<1>0. WorkflowTypeOK /\ ~SignalConfirm(o) /\ orders \in [Orders -> OrderRows]
  BY DEF WorkflowInv, WorkflowTypeOK, NoSignal
<1>1. CASE UNCHANGED orders
  BY <1>1
<1>2. ASSUME NEW p \in Orders, Import(p) PROVE orders'[o].state = "cancel"
  BY <1>0, <1>2 DEF Import
<1>3. ASSUME NEW p \in Orders, UserConfirm(p) \/ CronConfirm(p) PROVE orders'[o].state = "cancel"
  <2>1. CASE p = o
    BY <1>0, <1>3, <2>1 DEF UserConfirm, CronConfirm
  <2>2. CASE p # o
    <3>1. CASE Running(p)
      BY <1>0, <2>2, <3>1, RunningRows
    <3>2. CASE ~Running(p)
      BY <1>0, <1>3, <2>2, <3>2 DEF UserConfirm, CronConfirm
    <3> QED BY <3>1, <3>2
  <2> QED BY <2>1, <2>2
<1>4. ASSUME NEW p \in Orders, UserEdit(p) \/ UserCancel(p) PROVE orders'[o].state = "cancel"
  BY <1>0, <1>4 DEF UserEdit, UserCancel, OrderRows
<1>5. ASSUME NEW i \in DOMAIN invoices, CronReconcile(i) PROVE orders'[o].state = "cancel"
  BY <1>0, <1>5 DEF CronReconcile, OrderRows
<1> QED
  BY <1>1, <1>2, <1>3, <1>4, <1>5
  DEF Next, CronStep, vars, UserPicking, UserInvoice, UserValidate, UserCommit,
      CronSearch, CronValidate, CronTransfer, CronCommit, CronError, Tick

\* No step of a user or of the cron, however old the list it works on, takes a
\* canceled order out of its state (automatic_workflow_job.py:84-89).
THEOREM CanceledOrdersStay == Spec => CanceledForGood
<1>1. WorkflowInv /\ [Next]_vars =>
        [\A o \in Orders : orders[o].state = "cancel" => orders'[o].state = "cancel"]_vars
  BY CanceledStays
<1> QED BY <1>1, WorkflowInit, WorkflowNext, PTL DEF Spec, CanceledForGood

-----------------------------------------------------------------------------
(***************************************************************************)
(* Settlements of commissions                                              *)
(***************************************************************************)

SettStates == Live \cup {"none", "cancel", "deleted"}
SettRows == [state : SettStates, from : Int, to : Int, invoice : 0..MaxEach]
BillStates == {"none", "draft", "open", "paid", "cancel", "deleted"}

\* Only a settlement that was invoiced refers to a bill: one that is settled
\* or cancelled can change or go without a look at its bill.
OnlyInvoicedRefer ==
    \A i \in Ids : sett[i].invoice # 0 =>
        sett[i].state \in {"invoiced", "except_invoice", "deleted"}

SettlementsInvariant == SettlementTypeOK /\ LineSettledOnce /\ StateFollowsBill /\ OnlyInvoicedRefer

-----------------------------------------------------------------------------
(* Rows                                                                    *)

\* The bill that a settlement refers to is a bill.
LEMMA BillOfSettlement ==
    ASSUME SettlementTypeOK, NEW i \in Ids, sett[i].invoice # 0
    PROVE  <<i, sett[i].invoice>> \in Bills
BY SettlementsAssumption DEF SettlementTypeOK, Bills

\* The rows of a settlement that is created are well typed.
LEMMA NewType ==
    ASSUME SettlementTypeOK, NEW l \in Lines PROVE New(l) \in SettRows /\ New(l).invoice = 0
<1> DEFINE p == Period[AgentOf[l]]
           m == inv[InvoiceOf[l]].date
<1>1. p \in Periods /\ m \in Int
  BY SettlementsAssumption DEF SettlementTypeOK
<1>2. PeriodStart(p, m) \in Int
  BY <1>1 DEF PeriodStart, Periods, SemiStart
<1>3. PeriodLength(p) \in Int
  BY <1>1 DEF PeriodLength, Periods
<1>4. 0 \in 0..MaxEach
  BY SettlementsAssumption
<1> QED BY <1>2, <1>3, <1>4 DEF New, SettRows, SettStates, Live

\* A step that only writes settlements keeps the types when each row is as it
\* was or is a row that keeps its bill.
LEMMA RowsKeepBills ==
    ASSUME SettlementTypeOK,
           sett' = [i \in Ids |-> sett'[i]],
           \A i \in Ids : sett'[i] \in SettRows,
           bill' \in [Bills -> BillStates],
           \A i \in Ids : sett'[i].invoice # 0 =>
               bill'[<<i, sett'[i].invoice>>] \notin {"none", "deleted"},
           inv' \in [CustomerInvoices -> [state : {"draft", "open", "paid"}, date : Nat]],
           wizards' \subseteq SUBSET Ids, changes' \in 0..MaxChanges, again' \subseteq Ids
    PROVE  SettlementTypeOK'
<1>1. sett' \in [Ids -> SettRows]
  OBVIOUS
<1> QED BY <1>1 DEF SettlementTypeOK, SettRows, SettStates, BillStates

\* A settlement that becomes live is one that is not, or its line has no
\* other: then a line counts once.
LEMMA CountsOnce ==
    ASSUME SettlementTypeOK, LineSettledOnce, again \subseteq again',
           \A l \in Lines : \A k \in 1..MaxEach :
               sett'[<<l, k>>].state \in Live =>
                   \/ sett[<<l, k>>].state \in Live \/ <<l, k>> \in again'
                   \/ \A n \in 1..MaxEach : n # k => sett'[<<l, n>>].state \notin Live
    PROVE  LineSettledOnce'
BY DEF LineSettledOnce

\* What spends a change stays within the bound.
LEMMA ChangeType ==
    ASSUME SettlementTypeOK, Change PROVE changes' \in 0..MaxChanges
BY SettlementsAssumption DEF SettlementTypeOK, Change

-----------------------------------------------------------------------------
(* Steps of the settlements                                                *)

LEMMA InitSettlements == ASSUME SettlementsInit PROVE SettlementsInvariant
<1>1. \A i \in Ids : sett[i] = [state |-> "none", from |-> 0, to |-> 0, invoice |-> 0]
  BY DEF SettlementsInit
<1>2. 0 \in 0..MaxEach /\ 0 \in 0..MaxChanges
  BY SettlementsAssumption
<1>3. sett \in [Ids -> SettRows]
  BY <1>2 DEF SettlementsInit, SettRows, SettStates, Live
<1>4. inv \in [CustomerInvoices -> [state : {"draft", "open", "paid"}, date : Nat]]
  BY DEF SettlementsInit
<1>5. SettlementTypeOK
  BY <1>1, <1>2, <1>3, <1>4 DEF SettlementsInit, SettlementTypeOK, SettRows, SettStates
<1>6. LineSettledOnce
  BY <1>1 DEF LineSettledOnce, Live, Ids
<1> QED BY <1>1, <1>5, <1>6 DEF SettlementsInvariant, StateFollowsBill, OnlyInvoicedRefer

LEMMA SettleKeeps ==
    ASSUME SettlementsInvariant, NEW agents \in SUBSET Agents, NEW upTo \in Months, Settle(agents, upTo)
    PROVE  SettlementsInvariant'
<1> DEFINE due == Due(agents, upTo)
<1>1. PICK fresh \in [due -> 1..MaxEach] :
          /\ \A l \in due : sett[<<l, fresh[l]>>].state = "none"
          /\ sett' = [i \in Ids |-> IF i[1] \in due /\ i[2] = fresh[i[1]]
                                    THEN New(i[1]) ELSE sett[i]]
  BY DEF Settle
<1>2. /\ SettlementTypeOK
      /\ UNCHANGED <<inv, bill, wizards, changes, again>>
      /\ due \subseteq Lines
      /\ \A l \in due : ~Settled(l)
  BY DEF SettlementsInvariant, Settle, Due
<1>3. \A l \in due : New(l) \in SettRows /\ New(l).invoice = 0 /\ New(l).state = "settled"
  BY <1>2, NewType DEF New
<1>4. \A i \in Ids : sett[i] \in SettRows /\ i[1] \in Lines /\ i[2] \in 1..MaxEach
  BY <1>2 DEF SettlementTypeOK, SettRows, SettStates, Ids
<1>5. \A i \in Ids : \/ sett'[i] = sett[i]
                     \/ sett'[i] \in SettRows /\ sett'[i].invoice = 0 /\ sett'[i].state = "settled"
  BY <1>1, <1>3
<1>6. SettlementTypeOK'
  <2>1. \A i \in Ids : sett'[i] \in SettRows
    BY <1>4, <1>5
  <2>2. \A i \in Ids : sett'[i].invoice # 0 =>
            bill'[<<i, sett'[i].invoice>>] \notin {"none", "deleted"}
    BY <1>2, <1>5 DEF SettlementTypeOK
  <2>3. sett' = [i \in Ids |-> sett'[i]]
    BY <1>1
  <2> QED BY <1>2, <2>1, <2>2, <2>3, RowsKeepBills DEF SettlementTypeOK, BillStates
<1>7. LineSettledOnce'
  <2> SUFFICES ASSUME NEW l \in Lines, NEW k \in 1..MaxEach, sett'[<<l, k>>].state \in Live,
                      sett[<<l, k>>].state \notin Live,
                      NEW n \in 1..MaxEach, n # k
               PROVE  sett'[<<l, n>>].state \notin Live
    BY <1>2, CountsOnce DEF SettlementsInvariant
  <2>1. <<l, k>> \in Ids /\ <<l, n>> \in Ids
    BY DEF Ids
  <2>2. l \in due /\ k = fresh[l]
    BY <1>1, <2>1
  <2>3. sett[<<l, n>>].state \notin Live
    BY <1>2, <2>2 DEF Settled
  <2> QED BY <1>1, <2>1, <2>2, <2>3
<1>8. StateFollowsBill' /\ OnlyInvoicedRefer'
  BY <1>2, <1>5 DEF SettlementsInvariant, StateFollowsBill, OnlyInvoicedRefer
<1> QED BY <1>6, <1>7, <1>8 DEF SettlementsInvariant

\* A step that rewrites one settlement, and no bill, from a row that is there
\* to a row with the same bill.
LEMMA ActionCancelKeeps ==
    ASSUME SettlementsInvariant, NEW i \in Ids, ActionCancel(i) PROVE SettlementsInvariant'
<1>1. /\ SettlementTypeOK
      /\ UNCHANGED <<inv, bill, wizards, again>>
      /\ sett[i].state = "settled" /\ sett[i].invoice = 0
      /\ sett' = [sett EXCEPT ![i].state = "cancel"]
      /\ changes' \in 0..MaxChanges
  BY ChangeType DEF SettlementsInvariant, ActionCancel, OnlyInvoicedRefer
<1>2. \A j \in Ids : sett[j] \in SettRows
  BY <1>1 DEF SettlementTypeOK, SettRows, SettStates
<1>3. /\ \A j \in Ids : j # i => sett'[j] = sett[j]
      /\ sett'[i] \in SettRows /\ sett'[i].state = "cancel" /\ sett'[i].invoice = 0
      /\ sett' = [j \in Ids |-> sett'[j]]
  <2>1. sett'[i] = [sett[i] EXCEPT !.state = "cancel"] /\ \A j \in Ids : j # i => sett'[j] = sett[j]
    BY <1>1 DEF SettlementTypeOK
  <2>2. sett' = [j \in Ids |-> sett'[j]]
    BY <1>1 DEF SettlementTypeOK
  <2>3. /\ sett'[i] \in SettRows /\ sett'[i].state = "cancel"
        /\ sett'[i].invoice = 0
    BY <1>1, <1>2, <2>1 DEF SettRows, SettStates
  <2> QED BY <2>1, <2>2, <2>3
<1>4. SettlementTypeOK'
  BY <1>1, <1>2, <1>3, RowsKeepBills DEF SettlementTypeOK, BillStates
<1>5. LineSettledOnce'
  BY <1>1, <1>3 DEF SettlementsInvariant, LineSettledOnce, Live, Ids
<1>6. StateFollowsBill' /\ OnlyInvoicedRefer'
  BY <1>1, <1>3 DEF SettlementsInvariant, StateFollowsBill, OnlyInvoicedRefer
<1> QED BY <1>4, <1>5, <1>6 DEF SettlementsInvariant

LEMMA UnlinkKeeps ==
    ASSUME SettlementsInvariant, NEW i \in Ids, Unlink(i) PROVE SettlementsInvariant'
<1>1. /\ SettlementTypeOK
      /\ UNCHANGED <<inv, bill, again>>
      /\ sett' = [sett EXCEPT ![i].state = "deleted"]
      /\ wizards' \subseteq SUBSET Ids
      /\ changes' \in 0..MaxChanges
  BY ChangeType DEF SettlementsInvariant, Unlink, SettlementTypeOK
<1>2. \A j \in Ids : sett[j] \in SettRows
  BY <1>1 DEF SettlementTypeOK, SettRows, SettStates
<1>3. /\ \A j \in Ids : j # i => sett'[j] = sett[j]
      /\ sett'[i] \in SettRows /\ sett'[i].state = "deleted"
      /\ sett'[i].invoice = sett[i].invoice
      /\ sett' = [j \in Ids |-> sett'[j]]
  <2>1. sett'[i] = [sett[i] EXCEPT !.state = "deleted"] /\ \A j \in Ids : j # i => sett'[j] = sett[j]
    BY <1>1 DEF SettlementTypeOK
  <2>2. sett' = [j \in Ids |-> sett'[j]]
    BY <1>1 DEF SettlementTypeOK
  <2>3. /\ sett'[i] \in SettRows /\ sett'[i].state = "deleted"
        /\ sett'[i].invoice = sett[i].invoice
    BY <1>1, <1>2, <2>1 DEF SettRows, SettStates
  <2> QED BY <2>1, <2>2, <2>3
<1>4. SettlementTypeOK'
  BY <1>1, <1>2, <1>3, RowsKeepBills DEF SettlementTypeOK, BillStates
<1>5. LineSettledOnce'
  BY <1>1, <1>3 DEF SettlementsInvariant, LineSettledOnce, Live, Ids
<1>6. StateFollowsBill' /\ OnlyInvoicedRefer'
  BY <1>1, <1>3 DEF SettlementsInvariant, StateFollowsBill, OnlyInvoicedRefer
<1> QED BY <1>4, <1>5, <1>6 DEF SettlementsInvariant

LEMMA OpenWizardKeeps ==
    ASSUME SettlementsInvariant, NEW S \in SUBSET Ids, OpenWizard(S) PROVE SettlementsInvariant'
<1>1. UNCHANGED <<inv, sett, bill, changes, again>> /\ wizards' = wizards \cup {S}
  BY DEF OpenWizard
<1>2. SettlementTypeOK'
  BY <1>1 DEF SettlementsInvariant, SettlementTypeOK
<1> QED BY <1>1, <1>2 DEF SettlementsInvariant, LineSettledOnce, StateFollowsBill, OnlyInvoicedRefer

\* The settlements of a wizard get bills that did not exist, whatever their
\* state is; those that were not settled are remembered in again.
LEMMA MakeInvoicesKeeps ==
    ASSUME SettlementsInvariant, NEW S \in SUBSET Ids, MakeInvoices(S), wizards' \subseteq SUBSET Ids
    PROVE  SettlementsInvariant'
<1>1. PICK fresh \in [S -> 1..MaxEach] :
          /\ \A i \in S : bill[<<i, fresh[i]>>] = "none"
          /\ bill' = [b \in Bills |-> IF b[1] \in S /\ b[2] = fresh[b[1]]
                                      THEN "draft" ELSE bill[b]]
          /\ sett' = [i \in Ids |->
                        IF i \in S
                        THEN [sett[i] EXCEPT !.state = "invoiced", !.invoice = fresh[i]]
                        ELSE sett[i]]
  BY DEF MakeInvoices
<1>2. /\ SettlementTypeOK
      /\ UNCHANGED <<inv, changes>>
      /\ again' = again \cup {i \in S : sett[i].state # "settled"}
      /\ again' \subseteq Ids
  BY DEF SettlementsInvariant, MakeInvoices, SettlementTypeOK
<1>3. /\ \A i \in Ids : sett[i] \in SettRows
      /\ bill \in [Bills -> BillStates]
      /\ 1..MaxEach \subseteq 0..MaxEach
  BY <1>2, SettlementsAssumption DEF SettlementTypeOK, SettRows, SettStates, BillStates
<1>4. \A i \in S : /\ sett'[i] \in SettRows /\ sett'[i].state = "invoiced"
                   /\ sett'[i].invoice = fresh[i]
                   /\ bill'[<<i, sett'[i].invoice>>] = "draft"
  <2> SUFFICES ASSUME NEW i \in S
               PROVE  /\ sett'[i] \in SettRows /\ sett'[i].state = "invoiced"
                      /\ sett'[i].invoice = fresh[i]
                      /\ bill'[<<i, sett'[i].invoice>>] = "draft"
    OBVIOUS
  <2>1. i \in Ids /\ fresh[i] \in 0..MaxEach /\ fresh[i] \in 1..MaxEach
    BY <1>3
  <2>2. /\ sett'[i] = [sett[i] EXCEPT !.state = "invoiced", !.invoice = fresh[i]]
        /\ sett[i] \in SettRows
    BY <1>1, <1>3, <2>1
  <2>3. sett'[i] \in SettRows /\ sett'[i].state = "invoiced" /\ sett'[i].invoice = fresh[i]
    BY <2>1, <2>2 DEF SettRows, SettStates, Live
  <2>4. <<i, fresh[i]>> \in Bills
    BY <2>1 DEF Bills
  <2> QED BY <1>1, <2>3, <2>4
<1>5. \A i \in Ids : i \notin S =>
          /\ sett'[i] = sett[i]
          /\ \A k \in 1..MaxEach : bill'[<<i, k>>] = bill[<<i, k>>]
  BY <1>1 DEF Bills
<1>6. bill' \in [Bills -> BillStates]
  BY <1>1, <1>3 DEF BillStates
<1>7. \A i \in Ids : sett'[i].invoice # 0 =>
          bill'[<<i, sett'[i].invoice>>] \notin {"none", "deleted"}
  <2> SUFFICES ASSUME NEW i \in Ids, i \notin S, sett'[i].invoice # 0
               PROVE  bill'[<<i, sett'[i].invoice>>] \notin {"none", "deleted"}
    BY <1>4
  <2>1. sett'[i] = sett[i] /\ sett[i].invoice \in 1..MaxEach
    BY <1>3, <1>5, SettlementsAssumption DEF SettRows
  <2> QED BY <1>2, <1>5, <2>1 DEF SettlementTypeOK
<1>8. SettlementTypeOK'
  <2>1. \A i \in Ids : sett'[i] \in SettRows
    BY <1>3, <1>4, <1>5
  <2>2. sett' = [i \in Ids |-> sett'[i]]
    BY <1>1
  <2> QED BY <1>2, <1>6, <1>7, <2>1, <2>2, RowsKeepBills DEF SettlementTypeOK
<1>9. LineSettledOnce'
  <2> SUFFICES ASSUME NEW l \in Lines, NEW k \in 1..MaxEach, sett'[<<l, k>>].state \in Live,
                      sett[<<l, k>>].state \notin Live
               PROVE  <<l, k>> \in again'
    BY <1>2, CountsOnce DEF SettlementsInvariant
  <2>1. <<l, k>> \in Ids
    BY DEF Ids
  <2> QED BY <1>2, <1>5, <2>1 DEF Live
<1>10. StateFollowsBill' /\ OnlyInvoicedRefer'
  <2> SUFFICES ASSUME NEW i \in Ids, i \notin S
               PROVE  /\ sett'[i].invoice # 0 /\ sett'[i].state # "deleted" =>
                            LET x == bill'[<<i, sett'[i].invoice>>]
                            IN /\ x \in {"open", "paid"} => sett'[i].state = "invoiced"
                               /\ x = "cancel" => sett'[i].state = "except_invoice"
                      /\ sett'[i].invoice # 0 =>
                            sett'[i].state \in {"invoiced", "except_invoice", "deleted"}
    BY <1>4 DEF StateFollowsBill, OnlyInvoicedRefer
  <2>1. sett'[i] = sett[i] /\ (sett[i].invoice # 0 => sett[i].invoice \in 1..MaxEach)
    BY <1>3, <1>5, SettlementsAssumption DEF SettRows
  <2> QED BY <1>5, <2>1 DEF SettlementsInvariant, StateFollowsBill, OnlyInvoicedRefer
<1> QED BY <1>8, <1>9, <1>10 DEF SettlementsInvariant

LEMMA ButtonCreateKeeps ==
    ASSUME SettlementsInvariant, NEW S \in SUBSET Ids, ButtonCreate(S) PROVE SettlementsInvariant'
<1> DEFINE T == IF S = {} THEN {i \in Ids : sett[i].state = "settled"} ELSE S
<1>1. T \in SUBSET Ids /\ MakeInvoices(T) /\ wizards' \subseteq SUBSET Ids
  BY DEF ButtonCreate, SettlementsInvariant, SettlementTypeOK
<1> QED BY <1>1, MakeInvoicesKeeps

-----------------------------------------------------------------------------
(* Steps of the bills                                                      *)

\* Only the settlement of a bill is written, and only if it refers to it.
LEMMA MarkRows ==
    ASSUME SettlementTypeOK, NEW b \in Bills, NEW state \in {"invoiced", "except_invoice"},
           Mark(b, state)
    PROVE  /\ sett' = [i \in Ids |-> sett'[i]]
           /\ \A i \in Ids :
                 IF i = b[1] /\ sett[i].invoice = b[2] /\ sett[i].state # "deleted"
                 THEN /\ sett'[i] \in SettRows /\ sett'[i].state = state
                      /\ sett'[i].invoice = sett[i].invoice
                 ELSE sett'[i] = sett[i]
<1>1. \A i \in Ids : sett[i] \in SettRows
  BY DEF SettlementTypeOK, SettRows, SettStates
<1>2. b[1] \in Ids
  BY DEF Bills
<1> QED BY <1>1, <1>2 DEF Mark, SettlementTypeOK, SettRows, SettStates, Live

\* A bill b that refers changes to v, and the settlement that refers to it to
\* the state that goes with v.
LEMMA MarkKeeps ==
    ASSUME SettlementsInvariant, NEW b \in Bills, NEW v \in {"open", "cancel"},
           bill' = [bill EXCEPT ![b] = v],
           Mark(b, IF v = "open" THEN "invoiced" ELSE "except_invoice"),
           UNCHANGED <<inv, wizards, again>>, changes' \in 0..MaxChanges
    PROVE  SettlementsInvariant'
<1> DEFINE state == IF v = "open" THEN "invoiced" ELSE "except_invoice"
           Refers(i) == i = b[1] /\ sett[i].invoice = b[2] /\ sett[i].state # "deleted"
<1>1. SettlementTypeOK /\ state \in {"invoiced", "except_invoice"} /\ Mark(b, state)
  BY DEF SettlementsInvariant
<1>2. /\ sett' = [i \in Ids |-> sett'[i]]
      /\ \A i \in Ids : IF Refers(i)
                        THEN /\ sett'[i] \in SettRows /\ sett'[i].state = state
                             /\ sett'[i].invoice = sett[i].invoice
                        ELSE sett'[i] = sett[i]
  <2> HIDE DEF state
  <2> QED BY <1>1, MarkRows
<1>3. /\ \A i \in Ids : sett[i] \in SettRows
      /\ bill \in [Bills -> BillStates]
      /\ b[1] \in Ids /\ b[2] \in 1..MaxEach /\ b = <<b[1], b[2]>>
  BY <1>1 DEF SettlementTypeOK, SettRows, SettStates, BillStates, Bills
<1>4. bill' \in [Bills -> BillStates] /\ bill'[b] = v
      /\ \A c \in Bills : c # b => bill'[c] = bill[c]
  BY <1>3 DEF BillStates
<1>5. \A i \in Ids : sett'[i] \in SettRows /\ sett'[i].invoice = sett[i].invoice
  BY <1>2, <1>3
<1>6. \A i \in Ids : sett[i].invoice # 0 => <<i, sett[i].invoice>> \in Bills
  BY <1>1, BillOfSettlement
<1>7. \A i \in Ids : sett'[i].invoice # 0 =>
          bill'[<<i, sett'[i].invoice>>] \notin {"none", "deleted"}
  BY <1>1, <1>4, <1>5, <1>6 DEF SettlementTypeOK
<1>8. SettlementTypeOK'
  BY <1>1, <1>2, <1>4, <1>5, <1>7, RowsKeepBills DEF SettlementTypeOK
<1>9. /\ OnlyInvoicedRefer'
      /\ \A i \in Ids : sett'[i].state \in Live => sett[i].state \in Live
  <2> SUFFICES ASSUME NEW i \in Ids
               PROVE  /\ sett'[i].invoice # 0 =>
                            sett'[i].state \in {"invoiced", "except_invoice", "deleted"}
                      /\ sett'[i].state \in Live => sett[i].state \in Live
    BY DEF OnlyInvoicedRefer
  <2>1. CASE Refers(i)
    BY <1>2, <1>3, <2>1, SettlementsAssumption DEF SettlementsInvariant, OnlyInvoicedRefer, Live
  <2>2. CASE ~Refers(i)
    BY <1>2, <2>2 DEF SettlementsInvariant, OnlyInvoicedRefer
  <2> QED BY <2>1, <2>2
<1>10. LineSettledOnce'
  BY <1>9 DEF SettlementsInvariant, LineSettledOnce, Ids
<1>11. StateFollowsBill'
  <2> SUFFICES ASSUME NEW i \in Ids, sett'[i].invoice # 0, sett'[i].state # "deleted"
               PROVE  LET x == bill'[<<i, sett'[i].invoice>>]
                      IN /\ x \in {"open", "paid"} => sett'[i].state = "invoiced"
                         /\ x = "cancel" => sett'[i].state = "except_invoice"
    BY DEF StateFollowsBill
  <2>1. CASE Refers(i)
    BY <1>2, <1>3, <1>4, <2>1
  <2>2. CASE ~Refers(i)
    <3>1. sett'[i] = sett[i] /\ <<i, sett[i].invoice>> # b
      BY <1>2, <1>3, <2>2
    <3> QED BY <1>4, <1>6, <3>1 DEF SettlementsInvariant, StateFollowsBill
  <2> QED BY <2>1, <2>2
<1> QED BY <1>8, <1>9, <1>10, <1>11 DEF SettlementsInvariant

LEMMA BillValidateKeeps ==
    ASSUME SettlementsInvariant, NEW b \in Bills, BillValidate(b) PROVE SettlementsInvariant'
<1>1. changes' \in 0..MaxChanges
  BY DEF BillValidate, SettlementsInvariant, SettlementTypeOK
<1> QED BY <1>1, MarkKeeps DEF BillValidate

LEMMA BillCancelKeeps ==
    ASSUME SettlementsInvariant, NEW b \in Bills, BillCancel(b) PROVE SettlementsInvariant'
<1>1. changes' \in 0..MaxChanges
  BY ChangeType DEF BillCancel, SettlementsInvariant
<1> QED BY <1>1, MarkKeeps DEF BillCancel

\* A bill is paid, or a cancelled one is reset to draft.
LEMMA BillAloneKeeps ==
    ASSUME SettlementsInvariant, NEW b \in Bills, BillPay(b) \/ BillToDraft(b) PROVE SettlementsInvariant'
<1>1. /\ UNCHANGED <<inv, sett, wizards, again>>
      /\ \/ bill[b] = "open" /\ bill' = [bill EXCEPT ![b] = "paid"]
         \/ bill[b] = "cancel" /\ bill' = [bill EXCEPT ![b] = "draft"]
      /\ changes' \in 0..MaxChanges
  BY ChangeType DEF SettlementsInvariant, BillPay, BillToDraft, SettlementTypeOK
<1>2. \A i \in Ids : sett[i].invoice # 0 => <<i, sett[i].invoice>> \in Bills
  BY BillOfSettlement DEF SettlementsInvariant
<1>3. SettlementTypeOK'
  BY <1>1, <1>2 DEF SettlementsInvariant, SettlementTypeOK
<1>4. StateFollowsBill'
  BY <1>1, <1>2 DEF SettlementsInvariant, StateFollowsBill, SettlementTypeOK
<1> QED BY <1>1, <1>3, <1>4 DEF SettlementsInvariant, LineSettledOnce, OnlyInvoicedRefer

LEMMA BillUnlinkKeeps ==
    ASSUME SettlementsInvariant, NEW b \in Bills, BillUnlink(b) PROVE SettlementsInvariant'
<1>1. /\ SettlementTypeOK
      /\ UNCHANGED <<inv, wizards, again>>
      /\ bill' = [bill EXCEPT ![b] = "deleted"]
      /\ sett' = [sett EXCEPT ![b[1]].invoice = IF @ = b[2] THEN 0 ELSE @]
      /\ changes' \in 0..MaxChanges
  BY ChangeType DEF SettlementsInvariant, BillUnlink
<1>2. /\ \A i \in Ids : sett[i] \in SettRows
      /\ bill \in [Bills -> BillStates]
      /\ b[1] \in Ids /\ b[2] \in 1..MaxEach /\ b = <<b[1], b[2]>>
      /\ 0 \in 0..MaxEach
  BY <1>1, SettlementsAssumption
     DEF SettlementTypeOK, SettRows, SettStates, BillStates, Bills
<1>3. /\ sett' = [i \in Ids |-> sett'[i]]
      /\ \A i \in Ids : i # b[1] => sett'[i] = sett[i]
      /\ sett'[b[1]] = [sett[b[1]] EXCEPT !.invoice = IF @ = b[2] THEN 0 ELSE @]
  BY <1>1, <1>2 DEF SettlementTypeOK
<1>4. \A i \in Ids : /\ sett'[i] \in SettRows /\ sett'[i].state = sett[i].state
                     /\ \/ sett'[i].invoice = 0
                        \/ sett'[i].invoice = sett[i].invoice /\ <<i, sett[i].invoice>> # b
  BY <1>2, <1>3 DEF SettRows, SettStates
<1>5. bill' \in [Bills -> BillStates] /\ \A c \in Bills : c # b => bill'[c] = bill[c]
  BY <1>1, <1>2 DEF BillStates
<1>6. \A i \in Ids : sett[i].invoice # 0 => <<i, sett[i].invoice>> \in Bills
  BY <1>1, BillOfSettlement
<1>7. \A i \in Ids : sett'[i].invoice # 0 =>
          /\ sett'[i].invoice = sett[i].invoice
          /\ bill'[<<i, sett'[i].invoice>>] = bill[<<i, sett[i].invoice>>]
  BY <1>4, <1>5, <1>6
<1>8. SettlementTypeOK'
  <2>1. \A i \in Ids : sett'[i].invoice # 0 =>
            bill'[<<i, sett'[i].invoice>>] \notin {"none", "deleted"}
    BY <1>1, <1>7 DEF SettlementTypeOK
  <2> QED BY <1>1, <1>3, <1>4, <1>5, <2>1, RowsKeepBills DEF SettlementTypeOK
<1>9. LineSettledOnce'
  BY <1>1, <1>4 DEF SettlementsInvariant, LineSettledOnce, Ids
<1>10. StateFollowsBill' /\ OnlyInvoicedRefer'
  BY <1>4, <1>7 DEF SettlementsInvariant, StateFollowsBill, OnlyInvoicedRefer
<1> QED BY <1>8, <1>9, <1>10 DEF SettlementsInvariant

\* The customers' invoices: only their rows change.
LEMMA InvoicesKeep ==
    ASSUME SettlementsInvariant, NEW x \in CustomerInvoices,
           InvoicePaid(x) \/ InvoiceCancel(x) \/ \E m \in Months : InvoiceOpen(x, m)
    PROVE  SettlementsInvariant'
<1>1. /\ UNCHANGED <<sett, bill, wizards, again>>
      /\ \/ \E m \in Months : inv' = [inv EXCEPT ![x] = [state |-> "open", date |-> m]]
         \/ \E s \in {"paid", "draft"} : inv' = [inv EXCEPT ![x].state = s]
      /\ changes' \in 0..MaxChanges
  BY ChangeType DEF SettlementsInvariant, InvoiceOpen, InvoicePaid, InvoiceCancel, SettlementTypeOK
<1>2. inv' \in [CustomerInvoices -> [state : {"draft", "open", "paid"}, date : Nat]]
  BY <1>1, SettlementsAssumption DEF SettlementsInvariant, SettlementTypeOK
<1>3. SettlementTypeOK'
  BY <1>1, <1>2 DEF SettlementsInvariant, SettlementTypeOK
<1> QED BY <1>1, <1>3 DEF SettlementsInvariant, LineSettledOnce, StateFollowsBill, OnlyInvoicedRefer

-----------------------------------------------------------------------------
LEMMA NextKeeps == SettlementsInvariant /\ [SettlementsNext]_settlementVars => SettlementsInvariant'
<1> SUFFICES ASSUME SettlementsInvariant, [SettlementsNext]_settlementVars PROVE SettlementsInvariant'
  OBVIOUS
<1>1. CASE UNCHANGED settlementVars
  BY <1>1 DEF settlementVars, SettlementsInvariant, SettlementTypeOK, LineSettledOnce, StateFollowsBill, OnlyInvoicedRefer
<1>2. CASE \E agents \in SUBSET Agents, m \in Months : Settle(agents, m)
  BY <1>2, SettleKeeps
<1>3. CASE \E i \in Ids : ActionCancel(i) \/ Unlink(i)
  BY <1>3, ActionCancelKeeps, UnlinkKeeps
<1>4. CASE \E S \in SUBSET Ids : OpenWizard(S) \/ ButtonCreate(S)
  BY <1>4, OpenWizardKeeps, ButtonCreateKeeps
<1>5. CASE \E b \in Bills : \/ BillValidate(b) \/ BillCancel(b) \/ BillPay(b)
                            \/ BillToDraft(b) \/ BillUnlink(b)
  BY <1>5, BillValidateKeeps, BillCancelKeeps, BillAloneKeeps, BillUnlinkKeeps
<1>6. CASE \E x \in CustomerInvoices : InvoicePaid(x) \/ InvoiceCancel(x)
                               \/ \E m \in Months : InvoiceOpen(x, m)
  BY <1>6, InvoicesKeep
<1> QED BY <1>1, <1>2, <1>3, <1>4, <1>5, <1>6 DEF SettlementsNext

LEMMA Inductive == SettlementsSpec => []SettlementsInvariant
BY InitSettlements, NextKeeps, PTL DEF SettlementsSpec

\* The rows of settlements, bills and wizards are well typed, and a
\* settlement never refers to a bill that was deleted.
THEOREM SettlementTypes == SettlementsSpec => []SettlementTypeOK
<1>1. SettlementsInvariant => SettlementTypeOK
  BY DEF SettlementsInvariant
<1> QED BY Inductive, <1>1, PTL

\* A line counts in one settlement, for any agents, lines and invoices and
\* any cancellations, unless a wizard invoiced one that was not settled.
THEOREM LinesSettledOnce == SettlementsSpec => []LineSettledOnce
<1>1. SettlementsInvariant => LineSettledOnce
  BY DEF SettlementsInvariant
<1> QED BY Inductive, <1>1, PTL

\* The state of a settlement is the one its bill demands.
THEOREM StatesFollowBills == SettlementsSpec => []StateFollowsBill
<1>1. SettlementsInvariant => StateFollowsBill
  BY DEF SettlementsInvariant
<1> QED BY Inductive, <1>1, PTL
-----------------------------------------------------------------------------
(* Bills                                                                   *)

\* A set of which no two elements differ.
LEMMA AtMostOne ==
    ASSUME NEW S, \A x, y \in S : x = y PROVE Cardinality(S) <= 1
<1>1. CASE S = {}
  BY <1>1, FS_EmptySet
<1>2. CASE S # {}
  <2>1. PICK x \in S : S = {x}
    BY <1>2
  <2> QED BY <2>1, FS_Singleton
<1> QED BY <1>1, <1>2

\* No settlement of the line was deleted, or invoiced when it was not settled.
Undisturbed(l) ==
    \A k \in 1..MaxEach : <<l, k>> \notin again /\ sett[<<l, k>>].state # "deleted"

\* Every bill that exists, cancelled or not, is the one its settlement refers
\* to: a settlement is not invoiced a second time, so a bill that is set back
\* to draft is still the only one.
BillsReferred ==
    \A b \in Bills : bill[b] \notin {"none", "deleted"} /\ Undisturbed(b[1][1])
                      => sett[b[1]].invoice = b[2]

\* A line that was disturbed remains so.
LEMMA StaysDisturbed ==
    ASSUME SettlementsInvariant, SettlementsNext, NEW l \in Lines, Undisturbed(l)' PROVE Undisturbed(l)
<1> SUFFICES ASSUME NEW k \in 1..MaxEach
             PROVE  <<l, k>> \notin again /\ sett[<<l, k>>].state # "deleted"
  BY DEF Undisturbed
<1> DEFINE i == <<l, k>>
<1>1. i \in Ids /\ i \notin again' /\ sett'[i].state # "deleted" /\ i[1] = l /\ i[2] = k
  BY DEF Undisturbed, Ids
<1>2. again \subseteq again'
  BY DEF SettlementsNext, Settle, ActionCancel, Unlink, OpenWizard, ButtonCreate, MakeInvoices,
         BillValidate, BillCancel, BillPay, BillToDraft, BillUnlink,
         InvoicePaid, InvoiceCancel, InvoiceOpen
<1>3. sett \in [Ids -> SettRows]
  BY DEF SettlementsInvariant, SettlementTypeOK, SettRows, SettStates
<1>4. SUFFICES ASSUME sett[i].state = "deleted" PROVE FALSE
  BY <1>1, <1>2
<1>5. ASSUME NEW agents \in SUBSET Agents, NEW m \in Months, Settle(agents, m) PROVE FALSE
  <2>1. PICK fresh \in [Due(agents, m) -> 1..MaxEach] :
            /\ \A x \in Due(agents, m) : sett[<<x, fresh[x]>>].state = "none"
            /\ sett' = [j \in Ids |-> IF j[1] \in Due(agents, m) /\ j[2] = fresh[j[1]]
                                      THEN New(j[1]) ELSE sett[j]]
    BY <1>5 DEF Settle
  <2>2. ~(l \in Due(agents, m) /\ k = fresh[l])
    BY <1>4, <2>1
  <2> QED BY <1>1, <1>4, <2>1, <2>2
<1>6. ASSUME NEW j \in Ids, ActionCancel(j) \/ Unlink(j) PROVE FALSE
  BY <1>1, <1>3, <1>4, <1>6 DEF ActionCancel, Unlink, SettRows
<1>7. ASSUME NEW S \in SUBSET Ids, MakeInvoices(S) PROVE FALSE
  <2>1. i \in S => i \in again'
    BY <1>4, <1>7 DEF MakeInvoices
  <2> QED BY <1>1, <1>4, <1>7, <2>1 DEF MakeInvoices
<1>8. ASSUME NEW S \in SUBSET Ids, OpenWizard(S) \/ ButtonCreate(S) PROVE FALSE
  <2>1. CASE OpenWizard(S)
    BY <1>1, <1>4, <2>1 DEF OpenWizard
  <2>2. CASE ButtonCreate(S)
    <3>1. (IF S = {} THEN {j \in Ids : sett[j].state = "settled"} ELSE S) \in SUBSET Ids
      OBVIOUS
    <3> QED BY <1>7, <2>2, <3>1 DEF ButtonCreate
  <2> QED BY <1>8, <2>1, <2>2
<1>9. ASSUME NEW b \in Bills, NEW state \in {"invoiced", "except_invoice"}, Mark(b, state)
      PROVE  FALSE
  BY <1>1, <1>4, <1>9, MarkRows DEF SettlementsInvariant
<1>10. ASSUME NEW b \in Bills,
              \/ BillValidate(b) \/ BillCancel(b) \/ BillPay(b) \/ BillToDraft(b)
              \/ BillUnlink(b)
       PROVE  FALSE
  <2>1. CASE BillUnlink(b)
    <3>1. sett'[i].state = sett[i].state
      BY <1>1, <1>3, <2>1 DEF BillUnlink, SettRows
    <3> QED BY <1>1, <1>4, <3>1
  <2>2. CASE BillPay(b) \/ BillToDraft(b)
    BY <1>1, <1>4, <2>2 DEF BillPay, BillToDraft
  <2> QED BY <1>9, <1>10, <2>1, <2>2 DEF BillValidate, BillCancel
<1>11. ASSUME NEW x \in CustomerInvoices,
              InvoicePaid(x) \/ InvoiceCancel(x) \/ \E m \in Months : InvoiceOpen(x, m)
       PROVE  FALSE
  BY <1>1, <1>4, <1>11 DEF InvoicePaid, InvoiceCancel, InvoiceOpen
<1> QED BY <1>5, <1>6, <1>8, <1>10, <1>11 DEF SettlementsNext

\* A step that adds no bill and takes no reference from a bill that remains.
LEMMA ReferencesStay ==
    ASSUME SettlementsInvariant, BillsReferred, SettlementsNext,
           \A b \in Bills : bill'[b] \notin {"none", "deleted"} =>
               /\ bill[b] \notin {"none", "deleted"}
               /\ sett[b[1]].invoice = b[2] => sett'[b[1]].invoice = b[2]
    PROVE  BillsReferred'
<1> SUFFICES ASSUME NEW b \in Bills, bill'[b] \notin {"none", "deleted"},
                    Undisturbed(b[1][1])'
             PROVE  sett'[b[1]].invoice = b[2]
  BY DEF BillsReferred
<1>1. b[1][1] \in Lines
  BY DEF Bills, Ids
<1> QED BY <1>1, StaysDisturbed DEF BillsReferred

LEMMA MakeInvoicesRefers ==
    ASSUME SettlementsInvariant, BillsReferred, SettlementsNext, NEW S \in SUBSET Ids, MakeInvoices(S)
    PROVE  BillsReferred'
<1>1. PICK fresh \in [S -> 1..MaxEach] :
          /\ bill' = [b \in Bills |-> IF b[1] \in S /\ b[2] = fresh[b[1]]
                                      THEN "draft" ELSE bill[b]]
          /\ sett' = [i \in Ids |->
                        IF i \in S
                        THEN [sett[i] EXCEPT !.state = "invoiced", !.invoice = fresh[i]]
                        ELSE sett[i]]
          /\ again' = again \cup {i \in S : sett[i].state # "settled"}
  BY DEF MakeInvoices
<1> SUFFICES ASSUME NEW b \in Bills, bill'[b] \notin {"none", "deleted"},
                    Undisturbed(b[1][1])'
             PROVE  sett'[b[1]].invoice = b[2]
  BY DEF BillsReferred
<1> DEFINE i == b[1]
<1>2. /\ i \in Ids /\ i[1] \in Lines /\ i[2] \in 1..MaxEach /\ i = <<i[1], i[2]>>
      /\ b[2] \in 1..MaxEach /\ sett[i] \in SettRows
  BY DEF Bills, Ids, SettlementsInvariant, SettlementTypeOK, SettRows, SettStates
<1>3. CASE i \notin S
  <2>1. bill[b] \notin {"none", "deleted"} /\ sett'[i] = sett[i]
    BY <1>1, <1>2, <1>3
  <2> QED BY <1>2, <2>1, StaysDisturbed DEF BillsReferred
<1>4. CASE i \in S
  <2>1. sett[i].state = "settled"
    BY <1>1, <1>2, <1>4 DEF Undisturbed
  <2>2. sett[i].invoice = 0
    BY <1>2, <2>1 DEF SettlementsInvariant, OnlyInvoicedRefer
  <2>3. bill[b] \in {"none", "deleted"}
    BY <1>2, <2>2, StaysDisturbed DEF BillsReferred
  <2>4. b[2] = fresh[i]
    BY <1>1, <2>3
  <2> QED BY <1>1, <1>2, <1>4, <2>4 DEF SettRows
<1> QED BY <1>3, <1>4

LEMMA ReferredNext == SettlementsInvariant /\ BillsReferred /\ [SettlementsNext]_settlementVars => BillsReferred'
<1> SUFFICES ASSUME SettlementsInvariant, BillsReferred, [SettlementsNext]_settlementVars PROVE BillsReferred'
  OBVIOUS
<1>1. CASE UNCHANGED settlementVars
  BY <1>1 DEF settlementVars, BillsReferred, Undisturbed
<1>2. sett \in [Ids -> SettRows] /\ bill \in [Bills -> BillStates]
      /\ \A b \in Bills : b[1] \in Ids /\ b[2] # 0 /\ b = <<b[1], b[2]>>
  BY DEF SettlementsInvariant, SettlementTypeOK, SettRows, SettStates, BillStates, Bills
<1>3. ASSUME NEW agents \in SUBSET Agents, NEW m \in Months, Settle(agents, m), SettlementsNext
      PROVE  BillsReferred'
  <2>1. PICK fresh \in [Due(agents, m) -> 1..MaxEach] :
            /\ \A x \in Due(agents, m) : sett[<<x, fresh[x]>>].state = "none"
            /\ sett' = [j \in Ids |-> IF j[1] \in Due(agents, m) /\ j[2] = fresh[j[1]]
                                      THEN New(j[1]) ELSE sett[j]]
    BY <1>3 DEF Settle
  <2>2. ASSUME NEW i \in Ids, sett[i].invoice # 0 PROVE sett'[i] = sett[i]
    <3>1. sett[i].state # "none" /\ i = <<i[1], i[2]>>
      BY <2>2 DEF SettlementsInvariant, OnlyInvoicedRefer, Ids
    <3> QED BY <2>1, <3>1
  <2>3. UNCHANGED bill
    BY <1>3 DEF Settle
  <2> QED BY <1>2, <1>3, <2>2, <2>3, ReferencesStay
<1>4. ASSUME NEW i \in Ids, ActionCancel(i) \/ Unlink(i), SettlementsNext PROVE BillsReferred'
  <2>2. /\ UNCHANGED bill
        /\ \/ sett' = [sett EXCEPT ![i].state = "cancel"]
           \/ sett' = [sett EXCEPT ![i].state = "deleted"]
    BY <1>4 DEF ActionCancel, Unlink
  <2>3. sett[i] \in SettRows
    BY <1>2
  <2>1. UNCHANGED bill /\ \A j \in Ids : sett'[j].invoice = sett[j].invoice
    BY <1>2, <2>2, <2>3 DEF SettRows
  <2> QED BY <1>2, <1>4, <2>1, ReferencesStay
<1>5. ASSUME NEW S \in SUBSET Ids, OpenWizard(S) \/ ButtonCreate(S), SettlementsNext
      PROVE  BillsReferred'
  <2>1. CASE OpenWizard(S)
    BY <1>5, <2>1, ReferencesStay DEF OpenWizard
  <2>2. CASE ButtonCreate(S)
    <3>1. (IF S = {} THEN {j \in Ids : sett[j].state = "settled"} ELSE S) \in SUBSET Ids
      OBVIOUS
    <3> QED BY <1>5, <2>2, <3>1, MakeInvoicesRefers DEF ButtonCreate
  <2> QED BY <1>5, <2>1, <2>2
<1>6. ASSUME NEW b \in Bills, BillValidate(b) \/ BillCancel(b), SettlementsNext PROVE BillsReferred'
  <2>1. PICK state \in {"invoiced", "except_invoice"}, v \in {"open", "cancel"} :
            Mark(b, state) /\ bill' = [bill EXCEPT ![b] = v]
            /\ bill[b] \in {"draft", "open"}
    BY <1>6 DEF BillValidate, BillCancel
  <2>2. \A i \in Ids : sett'[i].invoice = sett[i].invoice
    BY <2>1, MarkRows DEF SettlementsInvariant
  <2>3. \A c \in Bills : bill'[c] \notin {"none", "deleted"}
                          => bill[c] \notin {"none", "deleted"}
    BY <1>2, <2>1
  <2> QED BY <1>2, <1>6, <2>2, <2>3, ReferencesStay
<1>7. ASSUME NEW b \in Bills, BillPay(b) \/ BillToDraft(b), SettlementsNext PROVE BillsReferred'
  <2>1. UNCHANGED sett /\ \A c \in Bills : bill'[c] \notin {"none", "deleted"}
                          => bill[c] \notin {"none", "deleted"}
    BY <1>2, <1>7 DEF BillPay, BillToDraft
  <2> QED BY <1>7, <2>1, ReferencesStay
<1>8. ASSUME NEW b \in Bills, BillUnlink(b), SettlementsNext PROVE BillsReferred'
  <2>1. /\ sett' = [sett EXCEPT ![b[1]].invoice = IF @ = b[2] THEN 0 ELSE @]
        /\ bill' = [bill EXCEPT ![b] = "deleted"]
    BY <1>8 DEF BillUnlink
  <2>2. ASSUME NEW c \in Bills, bill'[c] \notin {"none", "deleted"}
        PROVE  /\ bill[c] \notin {"none", "deleted"}
               /\ sett[c[1]].invoice = c[2] => sett'[c[1]].invoice = c[2]
    <3>1. c # b /\ bill'[c] = bill[c]
      BY <1>2, <2>1, <2>2
    <3>2. ~(c[1] = b[1] /\ c[2] = b[2])
      BY <1>2, <3>1
    <3> QED BY <1>2, <2>1, <2>2, <3>1, <3>2 DEF SettRows
  <2> QED BY <1>8, <2>2, ReferencesStay
<1>9. ASSUME NEW x \in CustomerInvoices, SettlementsNext,
             InvoicePaid(x) \/ InvoiceCancel(x) \/ \E m \in Months : InvoiceOpen(x, m)
      PROVE  BillsReferred'
  BY <1>9, ReferencesStay DEF InvoicePaid, InvoiceCancel, InvoiceOpen
<1> QED BY <1>1, <1>3, <1>4, <1>5, <1>6, <1>7, <1>8, <1>9 DEF SettlementsNext

LEMMA ReferredAlways == SettlementsSpec => []BillsReferred
<1>1. SettlementsInit => BillsReferred
  BY DEF SettlementsInit, BillsReferred
<1> QED BY <1>1, ReferredNext, Inductive, PTL DEF SettlementsSpec

\* For any agents, lines and wizards, and any bills that are cancelled, reset
\* and deleted: a commission has at most one bill that is not cancelled, unless
\* one of its settlements was deleted or invoiced when it was not settled.
THEOREM LinesBilledOnce == SettlementsSpec => []BilledOnce
<1>1. ASSUME SettlementsInvariant, BillsReferred PROVE BilledOnce
  <2> SUFFICES ASSUME NEW l \in Lines, Undisturbed(l)
               PROVE  Cardinality({b \in Bills : b[1][1] = l
                                     /\ bill[b] \in {"draft", "open", "paid"}}) <= 1
    BY DEF BilledOnce, Undisturbed
  <2> DEFINE mine == {b \in Bills : b[1][1] = l /\ bill[b] \in {"draft", "open", "paid"}}
  <2>1. ASSUME NEW b \in mine
        PROVE  /\ b[1] \in Ids /\ b[1] = <<l, b[1][2]>> /\ b = <<b[1], b[2]>>
               /\ b[1][2] \in 1..MaxEach /\ sett[b[1]].invoice = b[2]
               /\ sett[b[1]].state \in Live
    <3>1. b[1] \in Ids /\ b[1] = <<l, b[1][2]>> /\ b = <<b[1], b[2]>>
          /\ b[1][2] \in 1..MaxEach /\ b[2] # 0
      BY DEF Bills, Ids
    <3>2. sett[b[1]].invoice = b[2]
      BY <1>1 DEF BillsReferred
    <3>3. sett[b[1]].state # "deleted"
      BY <3>1 DEF Undisturbed
    <3>4. sett[b[1]].state \in {"invoiced", "except_invoice"}
      BY <1>1, <3>1, <3>2, <3>3 DEF SettlementsInvariant, OnlyInvoicedRefer
    <3> QED BY <3>1, <3>2, <3>4 DEF Live
  <2>2. ASSUME NEW b \in mine, NEW c \in mine PROVE b = c
    <3>1. b[1][2] = c[1][2]
      BY <1>1, <2>1 DEF SettlementsInvariant, LineSettledOnce, Undisturbed
    <3>2. b[1] = c[1]
      BY <2>1, <3>1
    <3> QED BY <2>1, <3>2
  <2>3. Cardinality(mine) <= 1
    <3> HIDE DEF mine
    <3> QED BY <2>2, AtMostOne
  <2> QED BY <2>3
<1> QED BY <1>1, Inductive, ReferredAlways, PTL

-----------------------------------------------------------------------------
(* Periods of settlements                                                  *)

Offset(p) == IF p = "quaterly" THEN 2 ELSE 0

\* The months from..to are a period of this kind; a quarter begins with a last month.
Aligned(p, from, to) ==
    /\ \E c \in Int : from = PeriodLength(p) * c + Offset(p)
    /\ to = from + PeriodLength(p) - 1

LEMMA PeriodIsAligned ==
    ASSUME NEW p \in Periods, NEW m \in Nat
    PROVE  /\ Aligned(p, PeriodStart(p, m), PeriodStart(p, m) + PeriodLength(p) - 1)
           /\ PeriodStart(p, m) \div PeriodLength(p) = m \div PeriodLength(p)
<1> DEFINE y == m \div 12
           r == m % 12
<1>1. y \in Int /\ r \in 0..11 /\ m = 12 * y + r
  OBVIOUS
<1>2. CASE p = "monthly"
  <2>1. PeriodStart(p, m) = m /\ PeriodLength(p) = 1 /\ Offset(p) = 0
    BY <1>2 DEF PeriodStart, PeriodLength, Offset
  <2> QED BY <2>1 DEF Aligned
<1>3. CASE p = "quaterly"
  <2> DEFINE q == r \div 3
  <2>1. q \in Int /\ r - 3 * q \in 0..2
    BY <1>1
  <2>2. PeriodStart(p, m) = m - r + (q + 1) * 3 - 1 /\ PeriodLength(p) = 3 /\ Offset(p) = 2
    BY <1>3 DEF PeriodStart, PeriodLength, Offset
  <2> HIDE DEF q, y, r
  <2>3. PeriodStart(p, m) = 3 * (4 * y + q) + 2 /\ 4 * y + q \in Int
    BY <1>1, <2>1, <2>2
  <2>4. PeriodStart(p, m) \div 3 = 4 * y + q /\ m \div 3 = 4 * y + q
    BY <1>1, <2>1, <2>3
  <2> QED BY <2>2, <2>3, <2>4 DEF Aligned
<1>4. CASE p = "semi"
  <2>1. PeriodStart(p, m) = m - r + SemiStart(m) /\ PeriodLength(p) = 6 /\ Offset(p) = 0
    BY <1>4 DEF PeriodStart, PeriodLength, Offset
  <2> DEFINE h == IF r + 1 > 6 THEN 1 ELSE 0
  <2>2. h \in Int /\ SemiStart(m) = 6 * h /\ r - 6 * h \in 0..5
    BY <1>1 DEF SemiStart
  <2> HIDE DEF h, y, r
  <2>3. PeriodStart(p, m) = 6 * (2 * y + h) + 0 /\ 2 * y + h \in Int
    BY <1>1, <2>1, <2>2
  <2>4. PeriodStart(p, m) \div 6 = 2 * y + h /\ m \div 6 = 2 * y + h
    BY <1>1, <2>2, <2>3
  <2> QED BY <2>1, <2>3, <2>4 DEF Aligned
<1>5. CASE p = "annual"
  <2>1. PeriodStart(p, m) = m - r /\ PeriodLength(p) = 12 /\ Offset(p) = 0
    BY <1>5 DEF PeriodStart, PeriodLength, Offset
  <2>2. PeriodStart(p, m) = 12 * y + 0 /\ PeriodStart(p, m) \div 12 = y
    <3> HIDE DEF y, r
    <3> QED BY <1>1, <2>1
  <2> QED BY <1>1, <2>1, <2>2 DEF Aligned
<1> QED BY <1>2, <1>3, <1>4, <1>5 DEF Periods

LEMMA AlignedApart ==
    ASSUME NEW p \in Periods, NEW from \in Int, NEW to, NEW start \in Int, NEW end,
           Aligned(p, from, to), Aligned(p, start, end)
    PROVE  from = start \/ to < start \/ end < from
<1>1. PICK c \in Int, e \in Int : /\ from = PeriodLength(p) * c + Offset(p)
                                  /\ start = PeriodLength(p) * e + Offset(p)
  BY DEF Aligned
<1>2. to = from + PeriodLength(p) - 1 /\ end = start + PeriodLength(p) - 1
  BY DEF Aligned
<1>3. PeriodLength(p) \in {1, 3, 6, 12} /\ Offset(p) \in {0, 2}
  BY DEF PeriodLength, Offset, Periods
<1>4. c = e \/ c + 1 <= e \/ e + 1 <= c
  OBVIOUS
<1>5. CASE PeriodLength(p) = 1
  BY <1>1, <1>2, <1>3, <1>4, <1>5
<1>6. CASE PeriodLength(p) = 3
  BY <1>1, <1>2, <1>3, <1>4, <1>6
<1>7. CASE PeriodLength(p) = 6
  BY <1>1, <1>2, <1>3, <1>4, <1>7
<1>8. CASE PeriodLength(p) = 12
  BY <1>1, <1>2, <1>3, <1>4, <1>8
<1> QED BY <1>3, <1>5, <1>6, <1>7, <1>8

\* Every settlement that was ever created is of a period of its agent, and the
\* wizards have been opened with such settlements.
InPeriods ==
    /\ \A i \in Ids : sett[i].state # "none" =>
          Aligned(Period[AgentOf[i[1]]], sett[i].from, sett[i].to)
    /\ \A S \in wizards : \A i \in S : sett[i].state # "none"

\* A row that is there keeps its period, a new one is of the period of its invoice.
Dated(i) ==
    LET p == Period[AgentOf[i[1]]]  m == inv[InvoiceOf[i[1]]].date
    IN \/ sett'[i].state = "none" /\ sett[i].state = "none"
       \/ /\ sett[i].state # "none" /\ sett'[i].state # "none"
          /\ sett'[i].from = sett[i].from /\ sett'[i].to = sett[i].to
       \/ /\ sett[i].state = "none" /\ sett'[i].state = "settled"
          /\ sett'[i].from = PeriodStart(p, m)
          /\ sett'[i].to = PeriodStart(p, m) + PeriodLength(p) - 1

\* What a step does to the periods.
DatedStep ==
    /\ \A i \in Ids : Dated(i)
    /\ \A S \in wizards' : \A i \in S : sett'[i].state # "none"

LEMMA PeriodsKept ==
    ASSUME SettlementTypeOK, InPeriods, DatedStep
    PROVE  /\ InPeriods'
           /\ \A i \in Ids : Created(i) =>
                 LET length == PeriodLength(Period[AgentOf[i[1]]])
                 IN sett'[i].from \div length = inv[InvoiceOf[i[1]]].date \div length
<1> DEFINE p(i) == Period[AgentOf[i[1]]]
           m(i) == inv[InvoiceOf[i[1]]].date
<1>1. ASSUME NEW i \in Ids PROVE p(i) \in Periods /\ m(i) \in Nat
  <2>1. i[1] \in Lines
    BY DEF Ids
  <2> QED BY <2>1, SettlementsAssumption DEF SettlementTypeOK
<1>2. ASSUME NEW i \in Ids, sett'[i].state # "none" PROVE Aligned(p(i), sett'[i].from, sett'[i].to)
  <2>1. CASE sett[i].state = "none"
    <3>1. sett'[i].from = PeriodStart(p(i), m(i))
          /\ sett'[i].to = PeriodStart(p(i), m(i)) + PeriodLength(p(i)) - 1
      BY <1>2, <2>1 DEF DatedStep, Dated
    <3> QED BY <1>1, <3>1, PeriodIsAligned
  <2>2. CASE sett[i].state # "none"
    BY <1>2, <2>2 DEF DatedStep, Dated, InPeriods
  <2> QED BY <2>1, <2>2
<1>3. ASSUME NEW i \in Ids, Created(i)
      PROVE  sett'[i].from \div PeriodLength(p(i)) = m(i) \div PeriodLength(p(i))
  <2>1. sett'[i].from = PeriodStart(p(i), m(i))
    BY <1>3 DEF DatedStep, Dated, Created
  <2> QED BY <1>1, <2>1, PeriodIsAligned
<1>4. InPeriods'
  BY <1>2 DEF InPeriods, DatedStep, Aligned, PeriodLength, Offset
<1> QED BY <1>3, <1>4

LEMMA NextDated ==
    ASSUME SettlementsInvariant, InPeriods, [SettlementsNext]_settlementVars
    PROVE  DatedStep
<1>1. /\ sett \in [Ids -> SettRows] /\ wizards \subseteq SUBSET Ids
      /\ \A b \in Bills : b[1] \in Ids /\ b[2] # 0
      /\ \A i \in Ids : sett[i].invoice # 0 => sett[i].state # "none"
  BY DEF SettlementsInvariant, SettlementTypeOK, OnlyInvoicedRefer, SettRows, SettStates, Bills
<1>2. \A S \in wizards : S \subseteq Ids /\ \A i \in S : sett[i].state # "none"
  BY <1>1 DEF InPeriods
<1>3. ASSUME NEW agents \in SUBSET Agents, NEW upTo \in Months, Settle(agents, upTo) PROVE DatedStep
  <2>1. PICK fresh \in [Due(agents, upTo) -> 1..MaxEach] :
            /\ \A x \in Due(agents, upTo) : sett[<<x, fresh[x]>>].state = "none"
            /\ sett' = [j \in Ids |-> IF j[1] \in Due(agents, upTo) /\ j[2] = fresh[j[1]]
                                      THEN New(j[1]) ELSE sett[j]]
    BY <1>3 DEF Settle
  <2>2. ASSUME NEW i \in Ids PROVE Dated(i) /\ (sett[i].state # "none" => sett'[i].state # "none")
    <3>1. CASE i[1] \in Due(agents, upTo) /\ i[2] = fresh[i[1]]
      <4>1. i = <<i[1], i[2]>> /\ sett'[i] = New(i[1])
        BY <2>1, <3>1 DEF Ids
      <4>2. sett[i].state = "none"
        BY <2>1, <3>1, <4>1
      <4> QED BY <4>1, <4>2 DEF New, Dated
    <3>2. CASE ~(i[1] \in Due(agents, upTo) /\ i[2] = fresh[i[1]])
      <4>1. sett'[i] = sett[i]
        BY <2>1, <3>2
      <4> QED BY <4>1 DEF Dated
    <3> QED BY <3>1, <3>2
  <2> QED BY <1>2, <1>3, <2>2 DEF Settle, DatedStep
<1>4. ASSUME \A i \in Ids : /\ sett'[i].from = sett[i].from /\ sett'[i].to = sett[i].to
                            /\ sett'[i].state = "none" <=> sett[i].state = "none",
             \A S \in wizards' : S \subseteq Ids /\ \A i \in S : sett[i].state # "none"
      PROVE  DatedStep
  BY <1>4 DEF DatedStep, Dated
<1>5. ASSUME NEW i \in Ids, ActionCancel(i) \/ Unlink(i) PROVE DatedStep
  <2>1. /\ sett[i].state # "none"
        /\ \/ sett' = [sett EXCEPT ![i].state = "cancel"] /\ wizards' = wizards
           \/ sett' = [sett EXCEPT ![i].state = "deleted"] /\ wizards' = {S \ {i} : S \in wizards}
    BY <1>5 DEF ActionCancel, Unlink
  <2>2. sett[i] \in SettRows
    BY <1>1
  <2>3. \A k \in Ids : /\ sett'[k].from = sett[k].from /\ sett'[k].to = sett[k].to
                       /\ sett'[k].state = "none" <=> sett[k].state = "none"
    BY <1>1, <2>1, <2>2 DEF SettRows
  <2>4. \A S \in wizards' : S \subseteq Ids /\ \A k \in S : sett[k].state # "none"
    BY <1>2, <2>1
  <2> QED BY <1>4, <2>3, <2>4
<1>6. ASSUME NEW S \in SUBSET Ids, OpenWizard(S) PROVE DatedStep
  <2>1. sett' = sett /\ \A T \in wizards' : T \subseteq Ids /\ \A k \in T : sett[k].state # "none"
    BY <1>2, <1>6 DEF OpenWizard
  <2> QED BY <1>4, <2>1
<1>7. ASSUME NEW S \in SUBSET Ids, ButtonCreate(S) PROVE DatedStep
  <2> DEFINE all == IF S = {} THEN {k \in Ids : sett[k].state = "settled"} ELSE S
  <2>1. /\ S \in wizards /\ wizards' \subseteq wizards
        /\ MakeInvoices(all)
    BY <1>7 DEF ButtonCreate
  <2>2. all \subseteq Ids /\ \A k \in all : sett[k].state # "none"
    BY <1>2, <2>1
  <2> HIDE DEF all
  <2>3. PICK fresh : sett' = [k \in Ids |->
                        IF k \in all THEN [sett[k] EXCEPT !.state = "invoiced", !.invoice = fresh[k]]
                        ELSE sett[k]]
    BY <2>1 DEF MakeInvoices
  <2>4. ASSUME NEW k \in Ids
        PROVE  /\ sett'[k].from = sett[k].from /\ sett'[k].to = sett[k].to
               /\ sett'[k].state = "none" <=> sett[k].state = "none"
    <3>1. sett[k] \in SettRows
      BY <1>1
    <3> QED BY <2>2, <2>3, <3>1 DEF SettRows
  <2> QED BY <1>2, <1>4, <2>1, <2>4
<1>8. ASSUME NEW b \in Bills, NEW r \in SettRows, sett' = [sett EXCEPT ![b[1]] = r],
             r.from = sett[b[1]].from, r.to = sett[b[1]].to,
             r.state = "none" <=> sett[b[1]].state = "none", wizards' = wizards
      PROVE  DatedStep
  BY <1>1, <1>2, <1>4, <1>8
<1>9. ASSUME NEW b \in Bills, BillValidate(b) \/ BillCancel(b) PROVE DatedStep
  <2>1. PICK state \in {"invoiced", "except_invoice"} : Mark(b, state) /\ wizards' = wizards
    BY <1>9 DEF BillValidate, BillCancel
  <2>2. sett[b[1]] \in SettRows /\ b[1] \in Ids
    BY <1>1
  <2>3. CASE sett[b[1]].invoice = b[2] /\ sett[b[1]].state # "deleted"
    <3> DEFINE r == [sett[b[1]] EXCEPT !.state = state]
    <3>1. r \in SettRows /\ r.from = sett[b[1]].from /\ r.to = sett[b[1]].to /\ r.state # "none"
      BY <2>2 DEF SettRows, SettStates, Live
    <3>2. sett[b[1]].state # "none"
      BY <1>1, <2>2, <2>3
    <3>3. sett' = [sett EXCEPT ![b[1]] = r]
      BY <2>1, <2>3 DEF Mark
    <3> HIDE DEF r
    <3> QED BY <1>8, <2>1, <3>1, <3>2, <3>3
  <2>4. CASE ~(sett[b[1]].invoice = b[2] /\ sett[b[1]].state # "deleted")
    <3>1. sett' = [sett EXCEPT ![b[1]] = sett[b[1]]]
      BY <2>1, <2>4 DEF Mark
    <3> QED BY <1>8, <2>1, <2>2, <3>1
  <2> QED BY <2>3, <2>4
<1>10. ASSUME NEW b \in Bills, BillUnlink(b) PROVE DatedStep
  <2> DEFINE n == IF sett[b[1]].invoice = b[2] THEN 0 ELSE sett[b[1]].invoice
             r == [sett[b[1]] EXCEPT !.invoice = n]
  <2>1. sett[b[1]] \in SettRows /\ n \in 0..MaxEach
    <3>1. sett[b[1]] \in SettRows
      BY <1>1
    <3> QED BY <3>1, SettlementsAssumption DEF SettRows
  <2>2. sett' = [sett EXCEPT ![b[1]] = r] /\ wizards' = wizards
    BY <1>10 DEF BillUnlink
  <2> HIDE DEF n
  <2>3. r \in SettRows /\ r.from = sett[b[1]].from /\ r.to = sett[b[1]].to
        /\ r.state = sett[b[1]].state
    BY <2>1 DEF SettRows
  <2> HIDE DEF r
  <2> QED BY <1>8, <2>2, <2>3
<1>11. ASSUME UNCHANGED <<sett, wizards>> PROVE DatedStep
  BY <1>2, <1>4, <1>11
<1>12. ASSUME NEW b \in Bills, BillPay(b) \/ BillToDraft(b) PROVE DatedStep
  BY <1>11, <1>12 DEF BillPay, BillToDraft
<1>13. ASSUME NEW x \in CustomerInvoices,
              InvoicePaid(x) \/ InvoiceCancel(x) \/ \E m \in Months : InvoiceOpen(x, m)
       PROVE  DatedStep
  BY <1>11, <1>13 DEF InvoicePaid, InvoiceCancel, InvoiceOpen
<1>14. CASE UNCHANGED settlementVars
  BY <1>11, <1>14 DEF settlementVars
<1> QED BY <1>3, <1>5, <1>6, <1>7, <1>9, <1>10, <1>12, <1>13, <1>14 DEF SettlementsNext

LEMMA PeriodsNext ==
    ASSUME SettlementsInvariant, SettlementsInvariant', InPeriods, [SettlementsNext]_settlementVars
    PROVE  /\ InPeriods'
           /\ \A i, j \in Ids : Created(i) =>
                 /\ LET length == PeriodLength(Period[AgentOf[i[1]]])
                    IN sett'[i].from \div length = inv[InvoiceOf[i[1]]].date \div length
                 /\ AgentOf[i[1]] = AgentOf[j[1]] /\ sett'[j].state # "none"
                       => \/ sett'[i].from = sett'[j].from
                          \/ sett'[i].to < sett'[j].from
                          \/ sett'[j].to < sett'[i].from
<1>1. /\ InPeriods'
      /\ \A i \in Ids : Created(i) =>
            LET length == PeriodLength(Period[AgentOf[i[1]]])
            IN sett'[i].from \div length = inv[InvoiceOf[i[1]]].date \div length
  BY NextDated, PeriodsKept DEF SettlementsInvariant
<1>2. ASSUME NEW i \in Ids, NEW j \in Ids, sett'[i].state # "none", sett'[j].state # "none",
             AgentOf[i[1]] = AgentOf[j[1]]
      PROVE  \/ sett'[i].from = sett'[j].from
             \/ sett'[i].to < sett'[j].from
             \/ sett'[j].to < sett'[i].from
  <2> DEFINE p == Period[AgentOf[i[1]]]
  <2>1. p \in Periods
    <3>1. i[1] \in Lines
      BY DEF Ids
    <3> QED BY <3>1, SettlementsAssumption
  <2>2. Aligned(p, sett'[i].from, sett'[i].to) /\ Aligned(p, sett'[j].from, sett'[j].to)
    BY <1>1, <1>2 DEF InPeriods, Aligned, PeriodLength, Offset
  <2>3. sett'[i].from \in Int /\ sett'[j].from \in Int
    BY DEF SettlementsInvariant, SettlementTypeOK
  <2> HIDE DEF p
  <2> QED BY <2>1, <2>2, <2>3, AlignedApart
<1> QED BY <1>1, <1>2 DEF Created

\* For any agents, of the four kinds of periods, and any dates: a settlement begins
\* in the period of its agent in which its invoice is dated, and those of an agent
\* are of the same period or do not overlap, although a quarter begins with its last
\* month (_get_period_start, _get_next_period_date, action_settle).
THEOREM SettlementsAreApart == SettlementsSpec => SettledApart
<1>1. SettlementsInit => InPeriods
  BY DEF SettlementsInit, InPeriods
<1>2. SettlementsInvariant /\ SettlementsInvariant' /\ InPeriods /\ [SettlementsNext]_settlementVars
      => InPeriods'
  BY PeriodsNext
<1>3. SettlementsInvariant /\ SettlementsInvariant' /\ InPeriods /\ [SettlementsNext]_settlementVars
      => [\A i, j \in Ids : Created(i) =>
             /\ LET length == PeriodLength(Period[AgentOf[i[1]]])
                IN sett'[i].from \div length = inv[InvoiceOf[i[1]]].date \div length
             /\ AgentOf[i[1]] = AgentOf[j[1]] /\ sett'[j].state # "none"
                   => \/ sett'[i].from = sett'[j].from
                      \/ sett'[i].to < sett'[j].from
                      \/ sett'[j].to < sett'[i].from]_settlementVars
  BY PeriodsNext
<1> QED BY <1>1, <1>2, <1>3, Inductive, PTL DEF SettlementsSpec, SettledApart

=============================================================================
