------------------------------ MODULE Forecast ------------------------------
(***************************************************************************)
(* The monthly forecast and the pages that show it.  Jobs and requests     *)
(* update the forecast (updateMonthlyForecast) while the bank, the user    *)
(* and other jobs go on changing the tables it is computed from, and days  *)
(* and months pass.                                                        *)
(*                                                                         *)
(* An update sends its queries in parallel, each on a connection of its    *)
(* own, and stores the forecast when all have returned: each query sees    *)
(* the tables at some moment in between.  up[u].seen holds what it may see.*)
(***************************************************************************)
EXTENDS Figures

CONSTANTS
  Bookings,      \* the bank's list has this many bookings
  AmountOf,      \* of each, fixed by the bank
  DayOf,
  Opening,       \* balance before the first
  Series,        \* ids of recurring_series
  Corrections,   \* category and flags of reviews and edits
  RuleForms,     \* category and flags a rule sets
  Terms,         \* amounts and days users type for a series
  SettingsForms,
  Updater,       \* jobs and requests that update the forecast
  Detector,      \* detections of recurring payments
  LastDay,       \* bound: days
  MaxChanges     \* bound: changes of the tables

Tx == 1 .. Bookings
Day == 1 .. LastDay
Month == MonthOf(1) .. MonthOf(LastDay)

Settings == [savings: Int, buffer: Int, base3: Int, base6: Int, manual: Int]

\* Rows of monthly_forecasts
Forecasts ==
  [income: Int, expected: {0}, fixed: Int, upcoming: Int, variable: Int,
   predicted: Int, savings: Int, buffer: Int, safe: Int, perDay: Int,
   projected: Int, confidence: {"low", "medium"}]

ASSUME ForecastAssumption ==
  /\ Bookings \in Nat /\ Opening \in Int
  /\ AmountOf \in [Tx -> Int]
  /\ DayOf \in [Tx -> Nat \ {0}]
  /\ \A i, j \in Tx : i <= j => DayOf[i] <= DayOf[j]
  /\ LastDay \in Nat \ {0}
  /\ MaxChanges \in Nat
  /\ Null \notin Forecasts

\* What the request schemas let through; a form without a category has Null.
ASSUME FormsAssumption ==
  /\ Corrections \subseteq
       [category: Category \cup {Null}, transfer: BOOLEAN, savings: BOOLEAN,
        oneOff: BOOLEAN, excluded: BOOLEAN]
  /\ RuleForms \subseteq
       [category: Category \cup {Null}, income: BOOLEAN, transfer: BOOLEAN,
        savings: BOOLEAN, fixed: BOOLEAN, excluded: BOOLEAN]
  /\ Terms \subseteq [amount: Nat \cup {Null}, next: Nat \cup {Null}]
  /\ SettingsForms \subseteq Settings

VARIABLES
  db,          \* the tables a forecast is computed from
  today,
  forecasts,   \* monthly_forecasts, a row for each month or Null
  updated,     \* the month whose row was written last, or Null
  up,          \* updates in progress
  found,       \* detections in progress
  caught,      \* history: series disabled when a detection had chosen them
  settled,     \* history: the last write saw the tables and the day as they are
  changes      \* history: number of changes so far

vars == <<db, today, forecasts, updated, up, found, caught, settled, changes>>

RowState ==
  [amount: Int, day: Nat, category: Category, review: BOOLEAN, manual: BOOLEAN,
   income: BOOLEAN, transfer: BOOLEAN, savings: BOOLEAN, fixed: BOOLEAN,
   variable: BOOLEAN, recurring: BOOLEAN, oneOff: BOOLEAN, excluded: BOOLEAN]

SeriesState ==
  [active: BOOLEAN, confirmed: BOOLEAN, amount: Nat \cup {Null}, next: Nat \cup {Null},
   rows: SUBSET Tx]

Nothing == [x \in {} |-> 0]

Init ==
  /\ db = [rows |-> Nothing, series |-> Nothing, settings |-> Null,
           balance |-> Null, synced |-> Null]
  /\ today = 1
  /\ forecasts = [m \in Month |-> Null]
  /\ updated = Null
  /\ up = [u \in Updater |-> Null]
  /\ found = [d \in Detector |-> Null]
  /\ caught = {}
  /\ settled = FALSE
  /\ changes = 0

------------------------------------------------------------------------------
(* Updates *)

\* Variant: only reviews of the month count.
ReadingsOfTheMonth(b, d) ==
  [balance   |-> b.balance,
   settings  |-> ForecastSettings(b.settings),
   totals    |-> MonthlyTotals(b.rows, MonthOf(d)),
   recurring |-> SeriesUpcoming(b.series, d),
   manual    |-> ManualUpcoming(b.settings),
   reviews   |-> ReviewCount(b.rows, InMonth(b.rows, MonthOf(d))),
   synced    |-> b.synced]

\* What the queries of an update for day d return while the tables are as in b.
Readings(b, d) ==
  [balance   |-> b.balance,
   settings  |-> ForecastSettings(b.settings),
   totals    |-> MonthlyTotals(b.rows, MonthOf(d)),
   recurring |-> SeriesUpcoming(b.series, d),
   manual    |-> ManualUpcoming(b.settings),
   reviews   |-> ReviewCount(b.rows, DOMAIN b.rows),
   synced    |-> b.synced]

\* One set for each query that runs by itself; of the two queries of
\* fixedCostsUpcomingTotal the second follows the first.
First(r) ==
  [balance |-> {r.balance}, settings |-> {r.settings}, totals |-> {r.totals},
   upcoming |-> {<<r.recurring, r.manual>>}, reviews |-> {r.reviews},
   synced |-> {r.synced}]

Widen(seen, r) ==
  [balance  |-> seen.balance \cup {r.balance},
   settings |-> seen.settings \cup {r.settings},
   totals   |-> seen.totals \cup {r.totals},
   upcoming |-> seen.upcoming \cup {<<p[1], r.manual>> : p \in seen.upcoming}
                  \cup {<<r.recurring, r.manual>>},
   reviews  |-> seen.reviews \cup {r.reviews},
   synced   |-> seen.synced \cup {r.synced}]

\* Combinations of answers
Answers(seen) ==
  {[balance |-> b, settings |-> s, totals |-> t, recurring |-> p[1], manual |-> p[2],
    reviews |-> n, synced |-> d] :
     b \in seen.balance, s \in seen.settings, t \in seen.totals,
     p \in seen.upcoming, n \in seen.reviews, d \in seen.synced}

Begin(u) ==
  /\ up[u] = Null
  /\ up' = [up EXCEPT ![u] = [asOf |-> today, seen |-> First(Readings(db, today)),
                              undisturbed |-> TRUE]]
  /\ UNCHANGED <<db, today, forecasts, updated, found, caught, settled, changes>>

\* Variant: the newest row there is takes the new figures.
StoreInNewest(u) ==
  /\ up[u] # Null
  /\ LET stored == {m \in Month : forecasts[m] # Null}
     IN \E r \in Answers(up[u].seen) :
          forecasts' = [forecasts EXCEPT
            ![IF stored = {} THEN MonthOf(up[u].asOf) ELSE Max(stored)] =
              ForecastOf(r, up[u].asOf)]
  /\ updated' = MonthOf(up[u].asOf)
  /\ settled' = up[u].undisturbed
  /\ up' = [up EXCEPT ![u] = Null]
  /\ UNCHANGED <<db, today, found, caught, changes>>

\* Variant: ON CONFLICT (year_month) DO NOTHING
StoreOnce(u) ==
  /\ up[u] # Null
  /\ \E r \in Answers(up[u].seen) :
       forecasts' = [forecasts EXCEPT ![MonthOf(up[u].asOf)] =
                       IF @ = Null THEN ForecastOf(r, up[u].asOf) ELSE @]
  /\ updated' = MonthOf(up[u].asOf)
  /\ settled' = up[u].undisturbed
  /\ up' = [up EXCEPT ![u] = Null]
  /\ UNCHANGED <<db, today, found, caught, changes>>

\* The upsert
Store(u) ==
  /\ up[u] # Null
  /\ \E r \in Answers(up[u].seen) :
       forecasts' = [forecasts EXCEPT ![MonthOf(up[u].asOf)] = ForecastOf(r, up[u].asOf)]
  /\ updated' = MonthOf(up[u].asOf)
  /\ settled' = up[u].undisturbed
  /\ up' = [up EXCEPT ![u] = Null]
  /\ UNCHANGED <<db, today, found, caught, changes>>

\* A query fails or the process stops.
Fail(u) ==
  /\ up[u] # Null
  /\ up' = [up EXCEPT ![u] = Null]
  /\ UNCHANGED <<db, today, forecasts, updated, found, caught, settled, changes>>

NextDay ==
  /\ today < LastDay
  /\ today' = today + 1
  /\ settled' = FALSE
  /\ up' = [u \in Updater |-> IF up[u] = Null THEN Null
                              ELSE [up[u] EXCEPT !.undisturbed = FALSE]]
  /\ UNCHANGED <<db, forecasts, updated, found, caught, changes>>

------------------------------------------------------------------------------
(* What changes the tables; each is a commit of its own. *)

\* The tables become b, and the queries under way may see either.
Change(b) ==
  /\ b # db
  /\ changes < MaxChanges
  /\ db' = b
  /\ up' = [u \in Updater |-> IF up[u] = Null THEN Null
              ELSE [up[u] EXCEPT !.seen = Widen(@, Readings(b, up[u].asOf)),
                                 !.undisturbed = FALSE]]
  /\ settled' = FALSE
  /\ changes' = changes + 1
  /\ UNCHANGED <<today, forecasts, updated>>

\* normalizePendingTransactions
NewRow(t) ==
  [amount |-> AmountOf[t], day |-> DayOf[t], category |-> Unknown,
   review |-> TRUE, manual |-> FALSE, income |-> FALSE, transfer |-> FALSE,
   savings |-> FALSE, fixed |-> FALSE, variable |-> TRUE, recurring |-> FALSE,
   oneOff |-> FALSE, excluded |-> FALSE]

\* The balance after booking n
BalanceAfter(n) == Opening + SumOf(AmountOf, 1 .. n)

\* A sync commits the bookings up to n that it had not, their rows, the balance
\* and its completed run (BankSync).
Sync ==
  \E n \in 0 .. Bookings :
    /\ \A t \in DOMAIN db.rows : t <= n
    /\ \A t \in 1 .. n : DayOf[t] <= today
    /\ Change([db EXCEPT
         !.rows = [t \in 1 .. n |-> IF t \in DOMAIN db.rows THEN db.rows[t] ELSE NewRow(t)],
         !.balance = IF n = 0 THEN @ ELSE BalanceAfter(n),
         !.synced = today])
    /\ UNCHANGED <<found, caught>>

\* A classification writes no flag (classify/service.ts).
Classify(t, c) ==
  /\ t \in DOMAIN db.rows
  /\ db.rows[t].review /\ ~db.rows[t].manual
  /\ Change([db EXCEPT !.rows[t].category = c, !.rows[t].review = FALSE])
  /\ UNCHANGED <<found, caught>>

\* Variant: without COALESCE.
CorrectedUncoalesced(r, f) ==
  [r EXCEPT !.category = f.category, !.review = FALSE, !.manual = TRUE,
            !.transfer = f.transfer, !.savings = f.savings,
            !.oneOff = f.oneOff, !.excluded = f.excluded,
            !.variable = ~(f.transfer \/ f.savings)]

\* A review or an edit; without a category it keeps the row's.
Corrected(r, f) ==
  [r EXCEPT !.category = IF f.category = Null THEN @ ELSE f.category,
            !.review = FALSE, !.manual = TRUE,
            !.transfer = f.transfer, !.savings = f.savings,
            !.oneOff = f.oneOff, !.excluded = f.excluded,
            !.variable = ~(f.transfer \/ f.savings)]

Correct(t, f) ==
  /\ t \in DOMAIN db.rows
  /\ Change([db EXCEPT !.rows[t] = Corrected(@, f)])
  /\ UNCHANGED <<found, caught>>

\* applyRule's UPDATE: flags are set or left (COALESCE), is_variable_cost is left.
Backfilled(r, f) ==
  [r EXCEPT !.category = IF f.category = Null THEN @ ELSE f.category,
            !.review = FALSE,
            !.income = @ \/ f.income, !.transfer = @ \/ f.transfer,
            !.savings = @ \/ f.savings, !.fixed = @ \/ f.fixed,
            !.excluded = @ \/ f.excluded]

\* The rows the rule matches are any.
Backfill(S, f) ==
  /\ S \subseteq {t \in DOMAIN db.rows : ~db.rows[t].manual}
  /\ Change([db EXCEPT !.rows = [t \in DOMAIN db.rows |->
               IF t \in S THEN Backfilled(db.rows[t], f) ELSE db.rows[t]]])
  /\ UNCHANGED <<found, caught>>

Active(s) == s \in DOMAIN db.series /\ db.series[s].active

\* A detection of one payee (Recurring has those of several).  What it writes it
\* keeps locked until it commits, so that the writes are one step, Detect.

Monthly(S) ==
  /\ \A t \in S : LET r == db.rows[t]
                  IN r.amount < 0 /\ ~r.income /\ ~r.transfer /\ ~r.excluded
  /\ \E t, v \in S : /\ MonthOf(DayOf[t]) # MonthOf(DayOf[v])
                     /\ db.rows[t].category = db.rows[v].category

\* findMonthlyCandidates finds the bookings S of a payee.
Look(d, S) ==
  /\ found[d] = Null
  /\ S \subseteq DOMAIN db.rows /\ Monthly(S)
  /\ found' = [found EXCEPT ![d] = [step |-> "select", rows |-> S, series |-> Null]]
  /\ UNCHANGED <<db, today, forecasts, updated, up, caught, settled, changes>>

\* Variant: without is_active = true.
ChooseAnyState(d, s) ==
  /\ found[d] # Null /\ found[d].step = "select"
  /\ s = Null \/ s \in DOMAIN db.series
  /\ found' = [found EXCEPT ![d] = [step |-> "write", rows |-> @.rows, series |-> s]]
  /\ UNCHANGED <<db, today, forecasts, updated, up, caught, settled, changes>>

\* The SELECT of upsertRecurringSeries: an active series with the payee's name,
\* or Null when there is none.
Choose(d, s) ==
  /\ found[d] # Null /\ found[d].step = "select"
  /\ s = Null \/ Active(s)
  /\ found' = [found EXCEPT ![d] = [step |-> "write", rows |-> @.rows, series |-> s]]
  /\ UNCHANGED <<db, today, forecasts, updated, up, caught, settled, changes>>

HasChosen(d, s) == found[d] # Null /\ found[d].step = "write" /\ found[d].series = s

\* An error, or the process stops.
FailDetection(d) ==
  /\ found[d] # Null
  /\ found' = [found EXCEPT ![d] = Null]
  /\ UNCHANGED <<db, today, forecasts, updated, up, caught, settled, changes>>

Average(f, S) == SumOf(f, S) \div Cardinality(S)

\* nextMonthDate of a payee's bookings
NextDate(S) ==
  LastDayOf(MonthOf(DayOf[Max(S)])) + Average([t \in S |-> DayOfMonth(DayOf[t])], S)

\* linkRecurringTransactions
Linked(r) == [r EXCEPT !.recurring = TRUE, !.fixed = TRUE, !.variable = FALSE]

NewSeries ==
  [active |-> TRUE, confirmed |-> FALSE, amount |-> Null, next |-> Null, rows |-> {}]

\* Its UPDATE of the series s it has chosen, by id alone, whatever became of s,
\* or the INSERT of one that is not there, and linking, which takes the rows
\* from other series.
Detect(d, s) ==
  LET S   == found[d].rows
      old == IF s \in DOMAIN db.series THEN db.series[s] ELSE NewSeries
  IN /\ found[d] # Null /\ found[d].step = "write"
     /\ IF found[d].series = Null THEN s \notin DOMAIN db.series ELSE s = found[d].series
     /\ Change([db EXCEPT
          !.rows = [t \in DOMAIN db.rows |->
                      IF t \in S THEN Linked(db.rows[t]) ELSE db.rows[t]],
          !.series = [x \in DOMAIN db.series \cup {s} |->
            IF x = s
            THEN [old EXCEPT
                    !.amount = Average([t \in S |-> Abs(AmountOf[t])], S),
                    !.next = NextDate(S), !.rows = @ \cup S]
            ELSE [db.series[x] EXCEPT !.rows = @ \ S]]])
     /\ found' = [found EXCEPT ![d] = Null]
     /\ caught' = caught

\* confirmRecurring, updateRecurring
ConfirmSeries(s) ==
  /\ Active(s)
  /\ Change([db EXCEPT !.series[s].confirmed = TRUE])
  /\ UNCHANGED <<found, caught>>

UpdateSeries(s, f) ==
  /\ Active(s)
  /\ Change([db EXCEPT !.series[s].confirmed = TRUE,
                       !.series[s].amount = f.amount, !.series[s].next = f.next])
  /\ UNCHANGED <<found, caught>>

\* Variant: freed rows are no longer fixed costs.
FreedNotFixed(r) == [r EXCEPT !.recurring = FALSE, !.fixed = FALSE]

\* disableRecurring leaves is_fixed_cost and is_variable_cost as linking set them.
Freed(r) == [r EXCEPT !.recurring = FALSE]

DisableSeries(s) ==
  /\ Active(s)
  /\ Change([db EXCEPT
       !.series[s].active = FALSE, !.series[s].confirmed = FALSE, !.series[s].rows = {},
       !.rows = [t \in DOMAIN db.rows |->
                   IF t \in db.series[s].rows THEN Freed(db.rows[t]) ELSE db.rows[t]]])
  /\ caught' = IF \E d \in Detector : HasChosen(d, s) THEN caught \cup {s} ELSE caught
  /\ found' = found

\* saveSettings, one statement
SaveSettings(f) ==
  /\ Change([db EXCEPT !.settings = f])
  /\ UNCHANGED <<found, caught>>

------------------------------------------------------------------------------
Decide ==
  \/ \E t \in Tx, f \in Corrections : Correct(t, f)
  \/ \E s \in Series : ConfirmSeries(s) \/ DisableSeries(s)
  \/ \E s \in Series, f \in Terms : UpdateSeries(s, f)
  \/ \E f \in SettingsForms : SaveSettings(f)

Work ==
  \/ Sync
  \/ \E t \in Tx, c \in Category : Classify(t, c)
  \/ \E S \in SUBSET Tx, f \in RuleForms : Backfill(S, f)
  \/ \E d \in Detector, s \in Series : Detect(d, s)

Search ==
  \E d \in Detector :
    \/ \E S \in SUBSET Tx : Look(d, S)
    \/ \E s \in Series \cup {Null} : Choose(d, s)
    \/ FailDetection(d)

Next ==
  \/ NextDay
  \/ Decide
  \/ Work
  \/ Search
  \/ \E u \in Updater : Begin(u) \/ Store(u) \/ Fail(u)

Spec == Init /\ [][Next]_vars

------------------------------------------------------------------------------
(* Properties *)

\* Tables, forecasts and updates have their types: no correction leaves a row
\* without a category, no forecast lacks a figure (updateMonthlyForecast).
TypeOK ==
  /\ DOMAIN db.rows \in SUBSET Tx /\ \A t \in DOMAIN db.rows : db.rows[t] \in RowState
  /\ DOMAIN db.series \in SUBSET Series
  /\ \A s \in DOMAIN db.series : db.series[s] \in SeriesState
  /\ db.settings \in Settings \cup {Null}
  /\ db.balance \in Int \cup {Null}
  /\ db.synced \in Day \cup {Null}
  /\ today \in Day
  /\ \A m \in Month : forecasts[m] # Null => forecasts[m] \in Forecasts
  /\ updated \in Month \cup {Null}
  /\ \A u \in Updater : up[u] # Null => up[u].asOf \in 1 .. today
  /\ \A d \in Detector : found[d] # Null => found[d].series \in DOMAIN db.series \cup {Null}
  /\ caught \in SUBSET Series
  /\ settled \in BOOLEAN
  /\ changes \in 0 .. MaxChanges

\* When the last update to store its figures saw no change under way, what is
\* stored for the month is what the tables give, whatever updates overlapped it
\* before and whatever was stored already (updateMonthlyForecast).
SettledForecastIsCurrent ==
  settled =>
    /\ updated = MonthOf(today)
    /\ forecasts[MonthOf(today)] = ForecastOf(Readings(db, today), today)

\* Then the dashboard, which calculates anew, the status page, which takes the
\* row written last, the workbook, which takes the month's, and the categories
\* page show the same month, the same amounts and those of the settings page; and
\* the dashboard lists every series that is counted, unless more than it lists
\* have a date: it sorts them by the date, the overdue ones first, and those that
\* follow drop out (loadDashboard, loadStatus, workbookBuffer, listCategoryBudgets,
\* loadSettings, readUpcomingFixedCosts).
SettledPagesAgree ==
  settled /\ db.balance # Null =>
    LET shown   == Dashboard(db.rows, db.series, forecasts, db.balance, today)
        status  == StatusPage(db.rows, forecasts, updated)
        summary == SummarySheet(forecasts, MonthOf(today))
        history == HistorySheet(db.rows, forecasts)
        page    == SettingsPage(db.settings)
        sheet   == AssumptionsSheet(db.settings)
    IN /\ shown.month = updated /\ CategoryMonth(forecasts, today) = updated
       /\ shown.safe = status.forecast.safe /\ shown.perDay = status.forecast.perDay
       /\ page.savings = status.forecast.savings /\ page.buffer = status.forecast.buffer
       /\ sheet # Null => sheet = page
       /\ Cardinality(Dated(db.series)) <= Limit.upcoming
            => \A L \in shown.upcoming : Upcoming(db.series, today) \subseteq L
       /\ shown.safe = summary.safe /\ shown.projected = summary.projected
       /\ history[shown.month].savings = shown.projected

\* Then the dashboard says "Recent sync and no review blockers" only when no row
\* of any month waits for a review, as the status page and the workbook show it,
\* and a sync ended in the last days, although the dashboard counts the reviews of
\* its own month only; and then reserving the reviews changes no allowance
\* (confidenceNote, forecastConfidence, guardrailFor).
SettledNoteIsTrue ==
  LET shown == Dashboard(db.rows, db.series, forecasts, db.balance, today)
      sheet == RawSheet(db.rows)
  IN settled /\ shown # Null /\ shown.note = "Recent sync and no review blockers" =>
       /\ StatusPage(db.rows, forecasts, updated).reviews = 0
       /\ \A t \in DOMAIN sheet : ~sheet[t][3]
       /\ today - db.synced <= StaleSyncAfterDays
       /\ \A L \in shown.blockers : L = {}
       /\ Guardrail(shown, TRUE, today) = Guardrail(shown, FALSE, today)

\* Whatever corrections, rules, detections and disablings did to a row's flags,
\* what the dashboard counts as spending is in the forecast's totals too: no flag
\* is left behind that hides a payment from it (monthlyTotals, readCategoryPace).
SpendingIsForecast ==
  \A m \in Month :
    LET totals == MonthlyTotals(db.rows, m)
    IN totals.fixed + totals.variable
         >= SumOf([c \in Category |-> SpentOn(db.rows, c, m)], Category)

\* The pages agree on a month: what the dashboard lists as spending and what is
\* booked against an income is no more than the transaction workspace's outflow,
\* and is all of it unless more categories have spending than the list may have;
\* the categories page has the dashboard's spending and the refunds, and shows every
\* amount once.
PagesAgreeOnSpending ==
  \A m \in Month :
    LET R == db.rows
        I == Matching(R, [NoFilter EXCEPT !.month = m])
        spent == [c \in Category |-> SpentOn(R, c, m)]
        refunds(c) == {t \in OfCategory(R, I \ Out(R), c) : Budgeted(R[t])}
        unbudgeted == {t \in I \cap OfKind(R, "income") \cap Out(R) :
                         ~R[t].transfer /\ ~R[t].savings /\ ~R[t].excluded}
    IN /\ \A L \in CategoryPace(R, m) :
            LET listed  == SumOf(spent, L) + Spent(R, unbudgeted)
                outflow == TransactionSummary(R, I).outflow
            IN /\ listed <= outflow
               /\ Cardinality({c \in Category : spent[c] > 0}) <= Limit.pace
                    => listed = outflow
       /\ \A c \in Category :
            /\ CategoryBudget(R, c, m).current = spent[c] + Spent(R, refunds(c))
            /\ LET sheet == AveragesSheet(R, c, m)
               IN sheet.current + sheet.excluded =
                    Spent(R, Matching(R, [NoFilter EXCEPT !.month = m, !.category = c]))
       /\ SumOf([c \in Category |-> CategoryBudget(R, c, m).current], Category)
             + CategoryTotals(R, m).excluded = Spent(R, I)
       /\ OneOffsSheet(R) \cap I =
            Matching(R, [NoFilter EXCEPT !.month = m, !.kind = "excluded"])
              \cup Matching(R, [NoFilter EXCEPT !.month = m, !.kind = "one_off"])

\* What the recurring page lists under its series the transaction workspace counts
\* as recurring.  The other way round, through detections, edits, rules and
\* disablings, a recurring row has a series, and either the page lists it there,
\* or that series' list is full, or the series was disabled when a detection had
\* chosen it, which then linked rows to it all the same.  What the workbook has of
\* series the page has not was never confirmed or lost its confirmation
\* (listRecurring, kindFilter, upsertRecurringSeries, writeRecurringSheet).
RecurringPagesAgree ==
  LET page      == RecurringPage(db.rows, db.series)
      sheet     == RecurringSheet(db.series)
      recurring == OfKind(db.rows, "recurring")
  IN /\ \A s \in DOMAIN page : \A L \in page[s] : L \subseteq recurring
     /\ \A t \in recurring : \E s \in DOMAIN db.series :
          /\ t \in db.series[s].rows
          /\ IF s \in DOMAIN page
             THEN \A L \in page[s] : t \in L \/ Cardinality(L) = Limit.linked
             ELSE s \in caught
     /\ \A s \in DOMAIN sheet \ DOMAIN page : ~sheet[s]

\* The forecast of a month that is over stays, once no update begun in that month
\* is under way: late updates write their own month's row (updateMonthlyForecast).
PastForecastsRest ==
  [][\A m \in Month :
       /\ m < MonthOf(today)
       /\ \A u \in Updater : up[u] # Null => MonthOf(up[u].asOf) # m
       => forecasts'[m] = forecasts[m]]_vars
=============================================================================
