----------------------------- MODULE MCForecast -----------------------------
(* A small instance of Forecast for TLC: months of three days. *)
EXTENDS Forecast, TLC

CONSTANTS u1, u2

Symmetry == Permutations(Updater)

\* A payment in each month, and a refund in the second.
MCAmount == <<-20, -30, 10>>
MCDay == <<1, 4, 4>>

\* And another payment, for lists of two categories in a month
MCMoreAmounts == <<-20, -30, 10, -5>>
MCMoreDays == <<1, 4, 4, 4>>

Keep == [category |-> Null, transfer |-> FALSE, savings |-> FALSE, oneOff |-> FALSE,
         excluded |-> FALSE]
MCCorrections == {[Keep EXCEPT !.category = "Rent"], [Keep EXCEPT !.savings = TRUE],
                  [Keep EXCEPT !.oneOff = TRUE, !.excluded = TRUE]}

NoFlags == [category |-> "Rent", income |-> FALSE, transfer |-> FALSE, savings |-> FALSE,
            fixed |-> FALSE, excluded |-> FALSE]
MCRules == {[NoFlags EXCEPT !.savings = TRUE], [NoFlags EXCEPT !.fixed = TRUE],
            [NoFlags EXCEPT !.income = TRUE]}
MCFewRules == {[NoFlags EXCEPT !.savings = TRUE], [NoFlags EXCEPT !.income = TRUE]}

MCLimit == [upcoming |-> 1, pace |-> 1, blockers |-> 1, recent |-> 1, top |-> 1, linked |-> 1]

\* After a sync, two detections that took the payments for those of two payees in
\* turn, a confirmation, an edit and a classification; an update is still to come.
ConfirmedInit ==
  /\ db = [rows |-> [t \in 1 .. 2 |-> [Linked(NewRow(t)) EXCEPT
                       !.category = IF t = 1 THEN "Rent" ELSE Unknown, !.review = (t = 2)]],
           series |->
             [s \in {1, 2} |-> [active |-> TRUE, confirmed |-> TRUE, amount |-> 25,
                                next |-> IF s = 1 THEN 5 ELSE NextDate({1, 2}),
                                rows |-> IF s = 1 THEN {} ELSE {1, 2}]],
           settings |-> Null, balance |-> BalanceAfter(2), synced |-> 4]
  /\ today = 5
  /\ forecasts = [m \in Month |-> Null] /\ updated = Null
  /\ up = [u \in Updater |-> Null]
  /\ found = [d \in Detector |-> Null] /\ caught = {}
  /\ settled = FALSE
  /\ changes = 6

ConfirmedSpec == ConfirmedInit /\ [][Next]_vars

MCTerms == {[amount |-> 25, next |-> 5], [amount |-> 25, next |-> Null]}
MCSettings == {[savings |-> 1000, buffer |-> 500, base3 |-> 50, base6 |-> 0, manual |-> 40]}
=============================================================================
