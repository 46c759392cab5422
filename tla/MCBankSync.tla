----------------------------- MODULE MCBankSync -----------------------------
(* Small instances of BankSync for TLC. *)
EXTENDS BankSync

\* The first two bookings are of one day.
MCDay == [b \in Booking |-> IF b <= 2 THEN 1 ELSE 2]
=============================================================================
