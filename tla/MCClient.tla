------------------------------ MODULE MCClient ------------------------------
(* Every page, with up to three items. *)
EXTENDS Client, TLC

CONSTANTS r1, r2

MCPages == {"review", "transactions", "rules", "recurring", "settings", "export", "status"}
MCRequests == {r1, r2}
Symmetry == Permutations(Requests)
=============================================================================
