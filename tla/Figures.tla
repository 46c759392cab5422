------------------------------- MODULE Figures -------------------------------
(***************************************************************************)
(* The figures treasuri computes from its tables: the monthly forecast, the *)
(* dashboard, the categories page, the transaction summary and the sheets   *)
(* of the workbook.  Each is an operator on the rows, as each is one SELECT *)
(* (or a calculation on what SELECTs returned).  Amounts are whole numbers; *)
(* rounding to cents is left out.  Lists a LIMIT cuts short are the sets of *)
(* what may be in them.                                                     *)
(*                                                                          *)
(* R is a function from the ids of the bookings there are to                *)
(*   amount, day           of raw_transactions,                             *)
(*   category, review and the flags income, transfer, savings, fixed,       *)
(*   variable, recurring, oneOff, excluded   of enriched_transactions.      *)
(***************************************************************************)
EXTENDS Integers, Sums

CONSTANTS
  Category,
  OutsideForecast,   \* Income, Transfers, Savings, One-off, Unknown
  Unknown,
  DaysInMonth,       \* of every month
  Limit,             \* LIMITs of the lists
  Null

\* What the transaction page can be asked to show (kindFilter)
Kinds == {"excluded", "fixed", "income", "one_off", "recurring", "savings", "spending",
          "transfer", "uncategorized"}

ASSUME FiguresAssumption ==
  /\ IsFiniteSet(Category)
  /\ OutsideForecast \subseteq Category
  /\ Unknown \in OutsideForecast
  /\ DaysInMonth \in Nat \ {0}
  /\ Limit \in [upcoming: Nat, pace: Nat, blockers: Nat, recent: Nat, top: Nat, linked: Nat]
  /\ Null \notin Category \cup Int \cup Kinds

\* Days count from 1, months too.
MonthOf(d) == 1 + (d - 1) \div DaysInMonth
LastDayOf(m) == m * DaysInMonth
DayOfMonth(d) == 1 + ((d - 1) % DaysInMonth)

\* daysLeftInMonth, today included
DaysLeft(d) == DaysInMonth - DayOfMonth(d) + 1

Abs(n) == Max({n, -n})

Total(R, S) == SumOf([t \in S |-> R[t].amount], S)
Spent(R, S) == SumOf([t \in S |-> Abs(R[t].amount)], S)

InMonths(R, from, to) == {t \in DOMAIN R : MonthOf(R[t].day) \in from .. to}
InMonth(R, m) == InMonths(R, m, m)

Out(R) == {t \in DOMAIN R : R[t].amount < 0}

\* What ORDER BY and LIMIT n may leave of S: <<u, v>> \in before when the order
\* lets u come before v; of ties any come first.
Limited(S, before, n) ==
  {L \in SUBSET S :
     /\ Cardinality(L) = Min({n, Cardinality(S)})
     /\ \A u \in L, v \in S \ L : <<u, v>> \in before}

\* Of rows: the newest first, or the largest first, of these the newest
Newer(R, t, v) == R[t].day > R[v].day \/ (R[t].day = R[v].day /\ t >= v)

Larger(R, t, v) ==
  \/ Abs(R[t].amount) > Abs(R[v].amount)
  \/ Abs(R[t].amount) = Abs(R[v].amount) /\ Newer(R, t, v)

NewestFirst(R) == {p \in (DOMAIN R) \X (DOMAIN R) : Newer(R, p[1], p[2])}
LargestFirst(R) == {p \in (DOMAIN R) \X (DOMAIN R) : Larger(R, p[1], p[2])}

\* Categories, the one with most spending first
MostSpent(spent) == {p \in Category \X Category : spent[p[1]] >= spent[p[2]]}

------------------------------------------------------------------------------
(* The forecast *)

MonthlyTotals(R, m) ==
  LET I == InMonth(R, m)
  IN [income   |-> Total(R, {t \in I : R[t].income}),
      fixed    |-> Spent(R, {t \in I \cap Out(R) : R[t].fixed}),
      variable |-> Spent(R, {t \in I \cap Out(R) :
                               /\ R[t].variable
                               /\ ~R[t].income /\ ~R[t].transfer /\ ~R[t].excluded})]

\* Of the series: active, confirmed, with an amount, expected from day d to the
\* end of its month.
Upcoming(series, d) ==
  {s \in DOMAIN series :
     /\ series[s].active /\ series[s].confirmed
     /\ series[s].amount # Null /\ series[s].next # Null
     /\ series[s].next \in d .. LastDayOf(MonthOf(d))}

SeriesUpcoming(series, d) ==
  LET U == Upcoming(series, d) IN SumOf([s \in U |-> series[s].amount], U)

\* forecastSettings and loadSettings, each with defaults of its own; Null: no rows.
ForecastSettings(stored) ==
  IF stored = Null THEN [savings |-> 1000, buffer |-> 1000, base3 |-> 0, base6 |-> 0]
  ELSE [savings |-> stored.savings, buffer |-> stored.buffer,
        base3 |-> stored.base3, base6 |-> stored.base6]

ManualUpcoming(stored) == IF stored = Null THEN 0 ELSE stored.manual

SettingsPage(stored) ==
  IF stored = Null
  THEN [savings |-> 1000, buffer |-> 1000, base3 |-> 0, base6 |-> 0, manual |-> 0]
  ELSE stored

ReviewCount(R, S) == Cardinality({t \in S : R[t].review})

PaceProjection(spent, d) == (spent * DaysInMonth) \div DayOfMonth(d)

PredictedRemaining(settings, spent, d) ==
  LET monthEnd == Max({settings.base3, settings.base6, PaceProjection(spent, d)})
  IN Max({0, monthEnd - spent})

SafeToSpend(liquid, income, upcoming, predicted, savings, buffer) ==
  liquid + income - upcoming - predicted - savings - buffer

StaleSyncAfterDays == 2

\* forecastConfidence on day d; synced is the day of the last completed sync.
Confidence(reviews, synced, d) ==
  IF reviews > 0 \/ synced = Null THEN "low"
  ELSE IF d - synced > StaleSyncAfterDays THEN "low" ELSE "medium"

\* What updateMonthlyForecast stores on day d for what its queries returned;
\* r.recurring and r.manual are the two queries of fixedCostsUpcomingTotal.
ForecastOf(r, d) ==
  LET liquid    == IF r.balance = Null THEN 0 ELSE r.balance
      upcoming  == r.recurring + r.manual
      predicted == PredictedRemaining(r.settings, r.totals.variable, d)
      safe      == SafeToSpend(liquid, 0, upcoming, predicted,
                               r.settings.savings, r.settings.buffer)
  IN [income |-> r.totals.income, expected |-> 0,
      fixed |-> r.totals.fixed, upcoming |-> upcoming,
      variable |-> r.totals.variable, predicted |-> predicted,
      savings |-> r.settings.savings, buffer |-> r.settings.buffer,
      safe |-> safe, perDay |-> safe \div DaysLeft(d),
      projected |-> safe + r.settings.savings,
      confidence |-> Confidence(r.reviews, r.synced, d)]

------------------------------------------------------------------------------
(* The dashboard *)

\* Variant: the buffer is forgotten.
DashboardSafeUnbuffered(f, balance) ==
  SafeToSpend(balance, f.expected, f.upcoming, f.predicted, f.savings, 0)

\* Its own calculation, from the stored inputs, the newest balance and the day.
DashboardSafe(f, balance) ==
  SafeToSpend(balance, f.expected, f.upcoming, f.predicted, f.savings, f.buffer)

ConfidenceNote(confidence, reviews) ==
  IF reviews > 0 THEN "Review needed"
  ELSE IF confidence = "low" THEN "Forecast needs more history"
  ELSE "Recent sync and no review blockers"

IncomeStatus(received, expected) ==
  IF received > 0 /\ expected <= 0 THEN "Income received"
  ELSE IF received > 0 THEN "Income partly received"
  ELSE IF expected > 0 THEN "Income expected" ELSE "No income seen yet"

\* What the pages count as spending: rows with none of the four flags.
Budgeted(r) == ~r.income /\ ~r.transfer /\ ~r.savings /\ ~r.excluded

OfCategory(R, S, c) == {t \in S : R[t].category = c}

\* Variant: without is_savings = false.
SpentOnWithSavings(R, c, m) ==
  Spent(R, {t \in OfCategory(R, InMonth(R, m) \cap Out(R), c) :
              ~R[t].income /\ ~R[t].transfer /\ ~R[t].excluded})

\* category_months: what was spent on c in month m
SpentOn(R, c, m) ==
  Spent(R, {t \in OfCategory(R, InMonth(R, m) \cap Out(R), c) : Budgeted(R[t])})

\* readCategoryPace: the categories listed
CategoryPace(R, m) ==
  LET spent == [c \in Category |-> SpentOn(R, c, m)]
  IN Limited({c \in Category : spent[c] > 0}, MostSpent(spent), Limit.pace)

PaceStatus(current, suggested) ==
  IF suggested <= 0 THEN "empty"
  ELSE IF current > suggested THEN "over"
  ELSE IF 10 * current >= 8 * suggested THEN "watch" ELSE "ok"

\* The status of c: its spending against the average of the months before that
\* have any, both multiplied by the number of these.
CategoryPaceStatus(R, c, m) ==
  LET prior   == {n \in 1 .. m - 1 : SpentOn(R, c, n) > 0}
      k       == Max({1, Cardinality(prior)})
      current == k * SpentOn(R, c, m)
      average == IF prior = {} THEN current
                 ELSE SumOf([n \in prior |-> SpentOn(R, c, n)], prior)
  IN PaceStatus(current, Max({average, current}))

\* readTopCategorySpend: what is spent on c, and the categories listed
TopSpent(R, c, m) ==
  Spent(R, {t \in OfCategory(R, InMonth(R, m) \cap Out(R), c) : ~R[t].excluded})

TopCategorySpend(R, m) ==
  LET spent == [c \in Category |-> TopSpent(R, c, m)]
  IN Limited({c \in Category : spent[c] > 0}, MostSpent(spent), Limit.top)

\* readReviewImpact
ReviewImpact(R, m) == Spent(R, {t \in InMonth(R, m) : R[t].review})

\* readUncategorizedImpact
UncategorizedImpact(R, m) ==
  Spent(R, {t \in InMonth(R, m) \cap Out(R) :
              /\ ~R[t].income /\ ~R[t].transfer
              /\ R[t].review \/ R[t].category = Unknown})

\* readReviewBlockers, readRecentTransactions
ReviewBlockers(R, m) ==
  Limited({t \in InMonth(R, m) : R[t].review}, LargestFirst(R), Limit.blockers)
RecentTransactions(R, m) == Limited(InMonth(R, m), NewestFirst(R), Limit.recent)

\* readUpcomingFixedCosts: series that are overdue or not due this month are
\* listed as well.
Dated(series) ==
  {s \in DOMAIN series : series[s].active /\ series[s].confirmed /\ series[s].next # Null}

UpcomingFixedCosts(series) ==
  LET dated == Dated(series)
  IN Limited(dated, {p \in dated \X dated : series[p[1]].next <= series[p[2]].next},
             Limit.upcoming)

\* loadDashboard; Null stands for sampleDashboard.  Lists are the sets of what
\* may be in them.
Dashboard(R, series, forecasts, balance, d) ==
  LET months == {m \in DOMAIN forecasts : forecasts[m] # Null}
  IN IF months = {} \/ balance = Null THEN Null
     ELSE LET m    == Max(months)
              f    == forecasts[m]
              safe == DashboardSafe(f, balance)
              n    == ReviewCount(R, InMonth(R, m))
          IN [month |-> m, safe |-> safe, perDay |-> safe \div DaysLeft(d),
              projected |-> safe + f.savings, fixedTotal |-> f.fixed + f.upcoming,
              income |-> IncomeStatus(f.income, f.expected),
              reviews |-> n, note |-> ConfidenceNote(f.confidence, n),
              upcoming |-> UpcomingFixedCosts(series),
              impact |-> ReviewImpact(R, m), uncategorized |-> UncategorizedImpact(R, m),
              blockers |-> ReviewBlockers(R, m), recent |-> RecentTransactions(R, m),
              pace |-> CategoryPace(R, m), top |-> TopCategorySpend(R, m),
              status |-> [c \in Category |-> CategoryPaceStatus(R, c, m)]]

\* guardrailFor: what the page shows as allowance on day d when the user has the
\* reviews reserved.
Guardrail(shown, reserve, d) ==
  IF reserve
  THEN [safe |-> shown.safe - shown.impact,
        perDay |-> (shown.safe - shown.impact) \div Max({1, DaysLeft(d)})]
  ELSE [safe |-> shown.safe, perDay |-> shown.perDay]

------------------------------------------------------------------------------
(* The categories page, and the workbook's sheet of category averages *)

\* Refunds count as spending here: the SELECT has no amount < 0.
BudgetedIn(R, c, from, to) ==
  Spent(R, {t \in OfCategory(R, InMonths(R, from, to), c) : Budgeted(R[t])})

ExcludedIn(R, c, m) ==
  Spent(R, {t \in OfCategory(R, InMonth(R, m), c) : ~Budgeted(R[t])})

RoundUpBudget(twelfths) == IF twelfths <= 0 THEN 0 ELSE 10 * ((twelfths + 119) \div 120)

\* The largest of the month and the averages over 3, 6 and 12 months before it.
SuggestedBudget(R, c, m) ==
  RoundUpBudget(Max({12 * BudgetedIn(R, c, m, m), 4 * BudgetedIn(R, c, m - 3, m - 1),
                     2 * BudgetedIn(R, c, m - 6, m - 1), BudgetedIn(R, c, m - 12, m - 1)}))

CategoryBudget(R, c, m) ==
  LET current   == BudgetedIn(R, c, m, m)
      suggested == SuggestedBudget(R, c, m)
  IN [current |-> current, excluded |-> ExcludedIn(R, c, m),
      suggested |-> suggested, included |-> c \notin OutsideForecast,
      status |-> PaceStatus(current, suggested)]

\* listCategoryBudgets: its month, and the totals above the list.
CategoryMonth(forecasts, d) ==
  LET months == {m \in DOMAIN forecasts : forecasts[m] # Null}
  IN IF months = {} THEN MonthOf(d) ELSE Max(months)

CategoryTotals(R, m) ==
  LET included == Category \ OutsideForecast
      budgets  == [c \in Category |-> CategoryBudget(R, c, m)]
  IN [current   |-> SumOf([c \in Category |-> budgets[c].current], included),
      excluded  |-> SumOf([c \in Category |-> budgets[c].excluded], Category),
      suggested |-> SumOf([c \in Category |-> budgets[c].suggested], included)]

\* writeCategoryAveragesSheet: no suggestion outside the forecast.
AveragesSheet(R, c, m) ==
  [current |-> BudgetedIn(R, c, m, m), excluded |-> ExcludedIn(R, c, m),
   suggested |-> IF c \in OutsideForecast THEN 0 ELSE SuggestedBudget(R, c, m)]

\* writeSummarySheet
SummarySheet(forecasts, m) ==
  IF forecasts[m] = Null THEN [safe |-> 0, projected |-> 0, confidence |-> "low"]
  ELSE [safe |-> forecasts[m].safe, projected |-> forecasts[m].projected,
        confidence |-> forecasts[m].confidence]

\* writeMonthlyHistorySheet
HistorySheet(R, forecasts) ==
  [m \in {m \in DOMAIN forecasts : forecasts[m] # Null} |->
     [income |-> forecasts[m].income, fixed |-> forecasts[m].fixed,
      variable |-> forecasts[m].variable, savings |-> forecasts[m].projected,
      excluded |-> Spent(R, {t \in InMonth(R, m) : R[t].excluded})]]

\* writeRecurringSheet: every series, the disabled ones too
RecurringSheet(series) == [s \in DOMAIN series |-> series[s].confirmed]

\* writeRawTransactionsSheet
RawSheet(R) == [t \in DOMAIN R |-> <<R[t].amount, R[t].category, R[t].review>>]

\* writeAssumptionsSheet: the rows of app_settings as they are; Null: the line
\* that says there are none.
AssumptionsSheet(stored) == stored

\* writeExcludedOneOffsSheet
OneOffsSheet(R) == {t \in DOMAIN R : R[t].excluded \/ R[t].oneOff}

------------------------------------------------------------------------------
(* The status, recurring and transaction pages *)

\* loadStatus: the row of monthly_forecasts written last, and the counts of rows
StatusPage(R, forecasts, updated) ==
  [forecast   |-> IF updated = Null THEN Null ELSE forecasts[updated],
   total      |-> Cardinality(DOMAIN R),
   classified |-> Cardinality({t \in DOMAIN R : ~R[t].review}),
   reviews    |-> ReviewCount(R, DOMAIN R)]

\* listRecurring: the active series, each with its newest rows
RecurringPage(R, series) ==
  [s \in {s \in DOMAIN series : series[s].active} |->
     Limited(series[s].rows, NewestFirst(R), Limit.linked)]

\* kindFilter
OfKind(R, kind) ==
  {t \in DOMAIN R :
     CASE kind = "excluded"      -> R[t].excluded
       [] kind = "fixed"         -> R[t].fixed
       [] kind = "income"        -> R[t].income
       [] kind = "one_off"       -> R[t].oneOff
       [] kind = "recurring"     -> R[t].recurring
       [] kind = "savings"       -> R[t].savings
       [] kind = "spending"      -> R[t].amount < 0 /\ ~R[t].transfer /\ ~R[t].excluded
       [] kind = "transfer"      -> R[t].transfer
       [] kind = "uncategorized" -> R[t].category = Unknown
       [] OTHER                  -> TRUE}

NoFilter ==
  [review |-> Null, month |-> Null, category |-> Null, min |-> Null, max |-> Null, kind |-> Null]

\* buildTransactionWhere without the texts to look for; Null: not asked for.  The
\* summary is of all rows that match, the list below it shows the newest 100.
Matching(R, f) ==
  {t \in OfKind(R, f.kind) :
     /\ f.review # Null => R[t].review = f.review
     /\ f.month # Null => MonthOf(R[t].day) = f.month
     /\ f.category # Null => R[t].category = f.category
     /\ f.min # Null => Abs(R[t].amount) >= Abs(f.min)
     /\ f.max # Null => Abs(R[t].amount) <= Abs(f.max)}

\* readTransactionSummary of the rows a filter matches
TransactionSummary(R, S) ==
  [count    |-> Cardinality(S), reviews |-> ReviewCount(R, S),
   net      |-> Total(R, S),
   income   |-> Total(R, S \ Out(R)),
   outflow  |-> Spent(R, {t \in S \cap Out(R) :
                            ~R[t].transfer /\ ~R[t].savings /\ ~R[t].excluded}),
   excluded |-> Spent(R, {t \in S \cap Out(R) : R[t].excluded})]
=============================================================================
