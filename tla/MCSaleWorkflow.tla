--------------------------- MODULE MCSaleWorkflow ---------------------------
(* Two orders of the same document class: one is invoiced when it is         *)
(* confirmed, with its own date, the other when it is delivered.             *)
EXTENDS SaleWorkflow

CONSTANTS O1, O2, C1, C2, U

MCData == [o \in {O1, O2} |-> [vat |-> "05", debit_note |-> FALSE, anonymous |-> FALSE,
                               class |-> C1, refund_class |-> C2]]
MCMonthOf == [d \in {1, 2, 9} |-> IF d = 9 THEN 2 ELSE 1]
MCTotal == [o \in {O1, O2} |-> 2]
MCAmounts == [o \in {O1, O2} |-> IF o = O1 THEN {2} ELSE {0, 2}]
MCInvoiceOn == [o \in {O1, O2} |-> IF o = O1 THEN "on_order_confirm" ELSE "on_picking_done"]
MCOrderDates == [o \in {O1, O2} |-> 1]
=============================================================================
