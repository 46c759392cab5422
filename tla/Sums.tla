-------------------------------- MODULE Sums --------------------------------
(* Sums over finite sets of what a function gives: SUM in a SELECT.        *)
EXTENDS Integers, FiniteSetsExt

SumOf(f, S) == MapThenSumSet(LAMBDA x : f[x], S)
=============================================================================
