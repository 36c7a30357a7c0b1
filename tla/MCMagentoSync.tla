---------------------------- MODULE MCMagentoSync --------------------------
(* A product of the shop and its category, a product of Odoo and the one    *)
(* that its export needs, two workers.                                      *)
EXTENDS MagentoSync, TLC

CONSTANTS P, C, N1, N2, N3,        \* records of Magento, three of them to come
    E, F, X1, X2,               \* bindings, two of them to come
    W1, W2,
    MaxShop, MaxBatch, MaxUser, MaxCrash, MaxTotal

MCMagentoIds == {P, C, N1, N2, N3}
MCShop == {P, C}
MCBindings == {E, F, X1, X2}
MCProducts == {E, F}
MCBorn == {E}
MCWaiting == {}
MCLinked == [b \in MCBindings \ MCProducts |-> IF b = X1 THEN P ELSE None]
MCWorkers == {W1, W2}
MCCategory == [m \in MCMagentoIds |-> IF m = P THEN C ELSE None]
MCParent == [b \in MCBindings |-> IF b = E THEN {F} ELSE {}]
MCAllowance ==
    [kind \in Perturbations |->
        CASE kind = "shop" -> MaxShop
          [] kind = "batch" -> MaxBatch
          [] kind = "user" -> MaxUser
          [] kind = "crash" -> MaxCrash
          [] kind = "total" -> MaxTotal]

\* The workers have no identity of their own.
WorkerSymmetry == Permutations(MCWorkers)
=============================================================================
