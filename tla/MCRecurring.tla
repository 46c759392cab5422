---------------------------- MODULE MCRecurring ----------------------------
(* Small instances of Recurring for TLC. *)
EXTENDS Recurring

\* Each transaction is of a month of its own.
Months == [t \in Tx |-> t]
=============================================================================
