------------------------- MODULE MCMagentoDocuments ------------------------
(* An order with up to two deliveries and some invoices.                    *)
EXTENDS MagentoDocuments

CONSTANTS P1, P2, I1, I2

MCPickings == <<P1, P2>>
MCInvoices == {I1, I2}
MCManual == {P1, I2}
=============================================================================
