----------------------- MODULE MCTransactionManager -----------------------
(* Small instances of TransactionManager: requests t and u, a task v.      *)
EXTENDS TransactionManager, TLC

CONSTANTS t, u, v, d1, d2

Depths == (t :> 2) @@ (u :> 1) @@ (v :> 0)
Deeper == (t :> 3)

Symmetry == Permutations({d1, d2})
=============================================================================
