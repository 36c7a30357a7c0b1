---------------------------- MODULE MCSettlements --------------------------
(* An agent paid by the month or by the quarter on invoices, one by the half *)
(* year on payments                                                         *)
EXTENDS Settlements, TLC

CONSTANTS A1, A2, X1, L1, L2, FirstPeriod

MCAgents == {A1, A2}
MCPeriod == [a \in MCAgents |-> IF a = A1 THEN FirstPeriod ELSE "semi"]
MCPaidBased == {A2}
MCInvoices == {X1}
MCLines == {L1, L2}
MCAgentOf == [l \in MCLines |-> IF l = L1 THEN A1 ELSE A2]
MCInvoiceOf == [l \in MCLines |-> X1]
=============================================================================
