----------------------------- MODULE BankLedger -----------------------------
(***************************************************************************)
(* What importing promises, whatever runs overlap, fail or stop: the       *)
(* bookings of the account that have been imported are the first ones of   *)
(* the bank's list, without a gap, and their number only grows.            *)
(***************************************************************************)
EXTENDS Naturals

CONSTANT Bookings   \* how many bookings the bank's list will ever have

VARIABLE ledger     \* the bookings imported

Init == ledger = {}

Extend(n) == ledger \subseteq 1 .. n /\ ledger' = 1 .. n

Next == \E n \in 1 .. Bookings : Extend(n)

Spec == Init /\ [][Next]_ledger
=============================================================================
