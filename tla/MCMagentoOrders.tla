--------------------------- MODULE MCMagentoOrders --------------------------
(* An order that is edited twice.                                           *)
EXTENDS MagentoOrders

CONSTANTS O1, O2, O3

MCChain == <<O1, O2, O3>>
MCRule == [o \in {O1, O2, O3} |-> IF o = O1 THEN "paid" ELSE "always"]
=============================================================================
