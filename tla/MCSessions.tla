----------------------------- MODULE MCSessions -----------------------------
(* Two tabs, with and without sign-in. *)
EXTENDS Sessions

CONSTANTS t1, t2

Symmetry == Permutations(Tabs)
=============================================================================
