----------------------------- MODULE MCVouchers ----------------------------
(* A customer with an agent below: three invoices, one of the agent, and a *)
(* bill; two receipts, a reconciliation and a voucher.                     *)
EXTENDS Vouchers

CONSTANTS Rep, Agent, R1, R2, K1, V1

MCPartners == {Rep, Agent}
MCChildOf == [p \in MCPartners |-> IF p = Rep THEN {Rep, Agent} ELSE {Agent}]
MCDebts ==
    <<[type |-> "receivable", partner |-> Rep, due |-> 31, amount |-> 3],
      [type |-> "payable", partner |-> Rep, due |-> -60, amount |-> 2],
      [type |-> "receivable", partner |-> Agent, due |-> -31, amount |-> 1],
      [type |-> "receivable", partner |-> Rep, due |-> -5, amount |-> 2]>>
MCPayments ==
    {[cash |-> 1, bt |-> 5, qm |-> 0], [cash |-> 0, bt |-> 2, qm |-> 3]}

\* Two receipts differ in nothing that is compared.
ReceiptSymmetry == Permutations(Receipts)
=============================================================================
