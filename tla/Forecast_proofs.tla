--------------------------- MODULE Forecast_proofs ---------------------------
(***************************************************************************)
(* Theorems about Forecast for any bookings, series, settings, updates and *)
(* number of days.  What the queries sum is compared with Sums_proofs.     *)
(***************************************************************************)
EXTENDS Forecast, Sums_proofs

(* Days and months *)

LEMMA MonthsRise ==
  ASSUME NEW a \in Nat \ {0}, NEW b \in Nat \ {0}, a <= b
  PROVE  MonthOf(a) \in Int /\ MonthOf(b) \in Int /\ MonthOf(a) <= MonthOf(b)
<1> DEFINE q == (a - 1) \div DaysInMonth
           r == (b - 1) \div DaysInMonth
<1>1. DaysInMonth \in Nat \ {0}
  BY FiguresAssumption
<1>2. /\ q \in Int /\ DaysInMonth * q <= a - 1 /\ a - 1 < DaysInMonth * q + DaysInMonth
      /\ r \in Int /\ DaysInMonth * r <= b - 1 /\ b - 1 < DaysInMonth * r + DaysInMonth
  BY <1>1
<1>3. q <= r
  BY <1>1, <1>2
<1> QED
  BY <1>2, <1>3 DEF MonthOf

LEMMA DayTyped ==
  ASSUME NEW d \in Day
  PROVE  d \in Nat \ {0} /\ MonthOf(d) \in Month /\ MonthOf(d) \in Int
BY ForecastAssumption, MonthsRise DEF Day, Month

------------------------------------------------------------------------------
(* What an update may see while nothing changes *)

LEMMA ReadingsFields ==
  ASSUME NEW b, NEW d
  PROVE  LET r == Readings(b, d)
         IN r = [balance |-> r.balance, settings |-> r.settings, totals |-> r.totals,
                 recurring |-> r.recurring, manual |-> r.manual, reviews |-> r.reviews,
                 synced |-> r.synced]
BY DEF Readings

LEMMA SingleAnswer ==
  ASSUME NEW b, NEW d, NEW r \in Answers(First(Readings(b, d)))
  PROVE  r = Readings(b, d)
<1>1. PICK f : f = Readings(b, d)
  OBVIOUS
<1>2. f = [balance |-> f.balance, settings |-> f.settings, totals |-> f.totals,
           recurring |-> f.recurring, manual |-> f.manual, reviews |-> f.reviews,
           synced |-> f.synced]
  BY <1>1, ReadingsFields
<1>3. r \in Answers(First(f))
  BY <1>1
<1>4. r = [balance |-> f.balance, settings |-> f.settings, totals |-> f.totals,
           recurring |-> f.recurring, manual |-> f.manual, reviews |-> f.reviews,
           synced |-> f.synced]
  BY <1>3 DEF Answers, First
<1> QED
  BY <1>1, <1>2, <1>4

------------------------------------------------------------------------------
(* The invariant *)

IsUpdate(x) ==
  /\ x = [asOf |-> x.asOf, seen |-> x.seen, undisturbed |-> x.undisturbed]
  /\ x.asOf \in Day

\* An update nothing has disturbed sees the tables as they are.
Fresh(x) ==
  x.undisturbed => x.asOf = today /\ x.seen = First(Readings(db, today))

Updating ==
  /\ DOMAIN up = Updater
  /\ \A u \in Updater : up[u] # Null => IsUpdate(up[u]) /\ Fresh(up[u])

MonthsThere == DOMAIN forecasts = Month

IInv ==
  /\ today \in Day
  /\ MonthsThere
  /\ Updating
  /\ SettledForecastIsCurrent

LEMMA Initially == Init => IInv
BY ForecastAssumption DEF Init, IInv, Day, MonthsThere, Updating, SettledForecastIsCurrent

LEMMA BeginStep == ASSUME IInv, NEW u \in Updater, Begin(u) PROVE IInv'
<1>1. PICK x : x = [asOf |-> today, seen |-> First(Readings(db, today)), undisturbed |-> TRUE]
  OBVIOUS
<1>2. /\ up' = [up EXCEPT ![u] = x]
      /\ db' = db /\ today' = today /\ forecasts' = forecasts /\ updated' = updated
      /\ settled' = settled
  BY <1>1 DEF Begin
<1>3. x.asOf = today /\ x.seen = First(Readings(db, today)) /\ x.undisturbed
      /\ x = [asOf |-> x.asOf, seen |-> x.seen, undisturbed |-> x.undisturbed]
  BY <1>1
<1>4. IsUpdate(x) /\ (Fresh(x))'
  BY <1>2, <1>3 DEF IsUpdate, Fresh, IInv
<1>5. Updating'
  BY <1>2, <1>4 DEF IInv, Updating, Fresh
<1> QED
  BY <1>2, <1>5 DEF IInv, MonthsThere, SettledForecastIsCurrent

LEMMA StoreStep == ASSUME IInv, NEW u \in Updater, Store(u) PROVE IInv'
<1>1. PICK r \in Answers(up[u].seen) :
        forecasts' = [forecasts EXCEPT ![MonthOf(up[u].asOf)] = ForecastOf(r, up[u].asOf)]
  BY DEF Store
<1>2. /\ up[u] # Null /\ updated' = MonthOf(up[u].asOf) /\ settled' = up[u].undisturbed
      /\ up' = [up EXCEPT ![u] = Null] /\ db' = db /\ today' = today
  BY DEF Store
<1>3. Updating'
  BY <1>2 DEF IInv, Updating, Fresh
<1>4. MonthsThere'
  BY <1>1 DEF IInv, MonthsThere
<1>5. SettledForecastIsCurrent'
  <2> SUFFICES ASSUME up[u].undisturbed
               PROVE  /\ updated' = MonthOf(today)
                      /\ forecasts'[MonthOf(today)] = ForecastOf(Readings(db, today), today)
    BY <1>2 DEF SettledForecastIsCurrent
  <2>1. up[u].asOf = today /\ up[u].seen = First(Readings(db, today))
    BY <1>2 DEF IInv, Updating, Fresh
  <2>2. r = Readings(db, today)
    BY <1>1, <2>1, SingleAnswer
  <2>3. MonthOf(today) \in DOMAIN forecasts
    BY DayTyped DEF IInv, MonthsThere
  <2> QED
    BY <1>1, <1>2, <2>1, <2>2, <2>3
<1> QED
  BY <1>2, <1>3, <1>4, <1>5 DEF IInv

LEMMA FailStep == ASSUME IInv, NEW u \in Updater, Fail(u) PROVE IInv'
BY DEF Fail, IInv, Updating, Fresh, MonthsThere, SettledForecastIsCurrent

\* Updates under way that were disturbed are no longer held to anything.
LEMMA Disturbed ==
  ASSUME Updating,
         DOMAIN up' = Updater,
         \A u \in Updater : up[u] = Null => up'[u] = Null,
         \A u \in Updater : up[u] # Null =>
           IsUpdate(up'[u]) /\ ~up'[u].undisturbed
  PROVE  Updating'
BY DEF Updating, Fresh

Update(a, s, b) == [asOf: {a}, seen: {s}, undisturbed: {b}]

LEMMA UpdateTyped ==
  ASSUME NEW x, IsUpdate(x) PROVE x \in Update(x.asOf, x.seen, x.undisturbed)
<1>1. PICK a, s, b : a = x.asOf /\ s = x.seen /\ b = x.undisturbed
  OBVIOUS
<1>2. x = [asOf |-> a, seen |-> s, undisturbed |-> b]
  BY <1>1 DEF IsUpdate
<1> QED
  BY <1>1, <1>2 DEF Update

LEMMA Overwritten ==
  ASSUME NEW a, NEW s, NEW b, NEW x \in Update(a, s, b), NEW w, a \in Day
  PROVE  LET y == [x EXCEPT !.undisturbed = FALSE]
             z == [x EXCEPT !.seen = w, !.undisturbed = FALSE]
         IN IsUpdate(y) /\ ~y.undisturbed /\ IsUpdate(z) /\ ~z.undisturbed
<1>1. [x EXCEPT !.undisturbed = FALSE] \in Update(a, s, FALSE)
  BY DEF Update
<1>2. [x EXCEPT !.seen = w, !.undisturbed = FALSE] \in Update(a, w, FALSE)
  BY DEF Update
<1>3. ASSUME NEW v, NEW y \in Update(a, v, FALSE) PROVE IsUpdate(y) /\ ~y.undisturbed
  BY DEF Update, IsUpdate
<1> QED
  BY <1>1, <1>2, <1>3

LEMMA NextDayStep == ASSUME IInv, NextDay PROVE IInv'
<1>1. /\ up' = [u \in Updater |-> IF up[u] = Null THEN Null
                                  ELSE [up[u] EXCEPT !.undisturbed = FALSE]]
      /\ today' \in Day /\ ~settled' /\ forecasts' = forecasts
  BY ForecastAssumption DEF NextDay, IInv, Day
<1>2. ASSUME NEW u \in Updater, up[u] # Null
      PROVE  IsUpdate(up'[u]) /\ ~up'[u].undisturbed
  <2>1. up'[u] = [up[u] EXCEPT !.undisturbed = FALSE]
    BY <1>1, <1>2
  <2>3. PICK x : x = up[u]
    OBVIOUS
  <2>4. IsUpdate(x) /\ x.asOf \in Day
    BY <1>2, <2>3 DEF IInv, Updating, IsUpdate
  <2>5. IsUpdate([x EXCEPT !.undisturbed = FALSE]) /\ ~[x EXCEPT !.undisturbed = FALSE].undisturbed
    BY <2>4, UpdateTyped, Overwritten
  <2> QED
    BY <2>1, <2>3, <2>5
<1>3. Updating'
  BY <1>1, <1>2, Disturbed DEF IInv
<1> QED
  BY <1>1, <1>3 DEF IInv, MonthsThere, SettledForecastIsCurrent

LEMMA ChangeStep == ASSUME IInv, NEW b, Change(b) PROVE IInv'
<1>1. /\ up' = [u \in Updater |-> IF up[u] = Null THEN Null
                  ELSE [up[u] EXCEPT !.seen = Widen(@, Readings(b, up[u].asOf)),
                                     !.undisturbed = FALSE]]
      /\ today' = today /\ ~settled' /\ forecasts' = forecasts
  BY DEF Change
<1>2. ASSUME NEW u \in Updater, up[u] # Null
      PROVE  IsUpdate(up'[u]) /\ ~up'[u].undisturbed
  <2>1. PICK w : w = Widen(up[u].seen, Readings(b, up[u].asOf))
    OBVIOUS
  <2>2. up'[u] = [up[u] EXCEPT !.seen = w, !.undisturbed = FALSE]
    BY <1>1, <1>2, <2>1
  <2>3. PICK x : x = up[u]
    OBVIOUS
  <2>4. IsUpdate(x) /\ x.asOf \in Day
    BY <1>2, <2>3 DEF IInv, Updating, IsUpdate
  <2>5. IsUpdate([x EXCEPT !.seen = w, !.undisturbed = FALSE]) /\ ~[x EXCEPT !.seen = w, !.undisturbed = FALSE].undisturbed
    BY <2>4, UpdateTyped, Overwritten
  <2> QED
    BY <2>2, <2>3, <2>5
<1>3. Updating'
  BY <1>1, <1>2, Disturbed DEF IInv
<1> QED
  BY <1>1, <1>3 DEF IInv, MonthsThere, SettledForecastIsCurrent

\* Whatever commits, it is one change of the tables.
LEMMA CommitsChange == Decide \/ Work => \E b : Change(b)
<1>1. ASSUME NEW t, NEW f, Correct(t, f) PROVE \E b : Change(b)
  BY <1>1 DEF Correct
<1>2. ASSUME NEW s, ConfirmSeries(s) PROVE \E b : Change(b)
  BY <1>2 DEF ConfirmSeries
<1>3. ASSUME NEW s, DisableSeries(s) PROVE \E b : Change(b)
  BY <1>3 DEF DisableSeries
<1>4. ASSUME NEW s, NEW f, UpdateSeries(s, f) PROVE \E b : Change(b)
  BY <1>4 DEF UpdateSeries
<1>5. ASSUME NEW f, SaveSettings(f) PROVE \E b : Change(b)
  BY <1>5 DEF SaveSettings
<1>6. ASSUME Sync PROVE \E b : Change(b)
  BY <1>6 DEF Sync
<1>7. ASSUME NEW t, NEW c, Classify(t, c) PROVE \E b : Change(b)
  BY <1>7 DEF Classify
<1>8. ASSUME NEW S, NEW f, Backfill(S, f) PROVE \E b : Change(b)
  BY <1>8 DEF Backfill
<1>9. ASSUME NEW d, NEW s, Detect(d, s) PROVE \E b : Change(b)
  BY <1>9 DEF Detect
<1> QED
  BY <1>1, <1>2, <1>3, <1>4, <1>5, <1>6, <1>7, <1>8, <1>9 DEF Decide, Work

\* What a detection reads changes none of what the forecasts depend on.
LEMMA SearchReads ==
  ASSUME Search
  PROVE  UNCHANGED <<db, today, forecasts, updated, up, caught, settled, changes>>
BY DEF Search, Look, Choose, FailDetection

LEMMA Inductive == IInv /\ [Next]_vars => IInv'
<1> SUFFICES ASSUME IInv, [Next]_vars PROVE IInv'
  OBVIOUS
<1>1. CASE Decide \/ Work
  BY <1>1, CommitsChange, ChangeStep
<1>2. CASE Search \/ UNCHANGED vars
  BY <1>2, SearchReads DEF vars, IInv, Updating, Fresh, MonthsThere, SettledForecastIsCurrent
<1> QED
  BY <1>1, <1>2, BeginStep, StoreStep, FailStep, NextDayStep DEF Next

LEMMA Invariance == Spec => []IInv
BY Initially, Inductive, PTL DEF Spec

\* Once the last update to store its figures saw no change under way, the month's
\* forecast is what the tables give, whatever overlapped it (updateMonthlyForecast).
THEOREM SettledIsCurrent == Spec => []SettledForecastIsCurrent
BY Invariance, PTL DEF IInv

\* The forecast of a month that is over rests, once no update begun in that month
\* is under way (updateMonthlyForecast).
THEOREM PastRests == Spec => PastForecastsRest
<1>1. ASSUME IInv, [Next]_vars, NEW m \in Month,
             \A u \in Updater : up[u] # Null => MonthOf(up[u].asOf) # m
      PROVE  forecasts'[m] = forecasts[m]
  <2>1. ASSUME NEW u \in Updater, Store(u) PROVE forecasts'[m] = forecasts[m]
    <3>1. up[u] # Null /\ MonthOf(up[u].asOf) # m
      BY <1>1, <2>1 DEF Store
    <3>2. PICK r : forecasts' = [forecasts EXCEPT ![MonthOf(up[u].asOf)] = r]
      BY <2>1 DEF Store
    <3> QED
      BY <1>1, <3>1, <3>2 DEF IInv, MonthsThere
  <2>2. CASE Decide \/ Work
    BY <2>2, CommitsChange DEF Change
  <2>3. CASE NextDay \/ Search \/ (\E u \in Updater : Begin(u) \/ Fail(u)) \/ UNCHANGED vars
    BY <2>3, SearchReads DEF NextDay, Begin, Fail, vars
  <2> QED
    BY <1>1, <2>1, <2>2, <2>3 DEF Next
<1>2. IInv /\ [Next]_vars =>
        [\A m \in Month :
           /\ m < MonthOf(today)
           /\ \A u \in Updater : up[u] # Null => MonthOf(up[u].asOf) # m
           => forecasts'[m] = forecasts[m]]_vars
  BY <1>1
<1> QED
  BY <1>2, Invariance, PTL DEF Spec, PastForecastsRest

------------------------------------------------------------------------------
(* Recurring rows and their series *)

LEMMA TxFinite == ASSUME NEW S \in SUBSET Tx PROVE IsFiniteSet(S)
<1>1. IsFiniteSet(Tx)
  BY ForecastAssumption, FS_Interval DEF Tx
<1> QED
  BY <1>1, FS_Subset

Tables(b) == DOMAIN b = {"rows", "series", "settings", "balance", "synced"}

RowTyped(r) == "recurring" \in DOMAIN r /\ r.recurring \in BOOLEAN

SeriesTyped(x) ==
  /\ DOMAIN x = {"active", "confirmed", "amount", "next", "rows"}
  /\ x.active \in BOOLEAN /\ x.confirmed \in BOOLEAN
  /\ ~x.active => ~x.confirmed

RowsTyped(R) == DOMAIN R \subseteq Tx /\ \A t \in DOMAIN R : RowTyped(R[t])

SeriesApart(S, R) ==
  /\ \A s \in DOMAIN S : SeriesTyped(S[s]) /\ S[s].rows \subseteq DOMAIN R
  /\ \A s, x \in DOMAIN S : s # x => S[s].rows \cap S[x].rows = {}

\* A row says it is recurring when a series has it.
Linking(R, S) ==
  \A t \in DOMAIN R : R[t].recurring <=> \E s \in DOMAIN S : t \in S[s].rows

Consistent(R, S) == RowsTyped(R) /\ SeriesApart(S, R) /\ Linking(R, S)

\* A series that is not active has no rows, unless a detection had chosen it.
Rested(S, C) ==
  /\ C \subseteq DOMAIN S
  /\ \A s \in DOMAIN S : ~S[s].active => S[s].rows = {} \/ s \in C

\* A detection has found rows there are, and chosen a series that is active or
\* was disabled since.
IsDetection(x, R, S, C) ==
  /\ x = [step |-> x.step, rows |-> x.rows, series |-> x.series]
  /\ x.rows \subseteq DOMAIN R /\ x.rows # {}
  /\ x.series # Null => /\ x.step = "write" /\ x.series \in DOMAIN S
                        /\ S[x.series].active \/ x.series \in C

Detecting(F, R, S, C) ==
  /\ DOMAIN F = Detector
  /\ \A d \in Detector : F[d] # Null => IsDetection(F[d], R, S, C)

RInv ==
  /\ Tables(db)
  /\ Consistent(db.rows, db.series)
  /\ Rested(db.series, caught)
  /\ Detecting(found, db.rows, db.series, caught)

LEMMA RecurringInitially == Init => RInv
BY DEF Init, RInv, Consistent, Tables, RowsTyped, SeriesApart, Linking, Nothing, Rested,
       Detecting

\* The rows keep what they say of recurring, or are new and not recurring.
SameLinks(Q, R) ==
  /\ RowsTyped(Q) /\ DOMAIN R \subseteq DOMAIN Q
  /\ \A t \in DOMAIN Q : Q[t].recurring = (t \in DOMAIN R /\ R[t].recurring)

LEMMA SameLinksAgree ==
  ASSUME NEW Q, NEW R, NEW S, Consistent(R, S), SameLinks(Q, R)
  PROVE  Consistent(Q, S)
<1>1. SeriesApart(S, Q)
  BY DEF Consistent, SameLinks, SeriesApart
<1>2. Linking(Q, S)
  BY DEF Consistent, SameLinks, SeriesApart, Linking
<1> QED
  BY <1>1, <1>2 DEF Consistent, SameLinks

LEMMA SameLinksFound ==
  ASSUME NEW Q, NEW R, NEW F, NEW S, NEW C, SameLinks(Q, R), Detecting(F, R, S, C)
  PROVE  Detecting(F, Q, S, C)
BY DEF SameLinks, Detecting, IsDetection

\* One row of R becomes one that says the same.
LEMMA OneRow ==
  ASSUME NEW R, RowsTyped(R), NEW t \in DOMAIN R, NEW r,
         RowTyped(r), r.recurring = R[t].recurring
  PROVE  SameLinks([R EXCEPT ![t] = r], R)
BY DEF SameLinks, RowsTyped, RowTyped

LEMMA RowsChange ==
  ASSUME RInv, NEW Q, SameLinks(Q, db.rows), Change([db EXCEPT !.rows = Q]),
         UNCHANGED <<found, caught>>
  PROVE  RInv'
<1>1. db' = [db EXCEPT !.rows = Q]
  BY DEF Change
<1>2. Tables(db)' /\ db'.rows = Q /\ db'.series = db.series
  BY <1>1 DEF RInv, Tables
<1> QED
  BY <1>2, SameLinksAgree, SameLinksFound DEF RInv

LEMMA CorrectKeeps == ASSUME RInv, NEW t, NEW f, Correct(t, f) PROVE RInv'
<1>1. PICK r : r = Corrected(db.rows[t], f)
  OBVIOUS
<1>2. t \in DOMAIN db.rows /\ RowTyped(db.rows[t]) /\ RowsTyped(db.rows)
  BY DEF Correct, RInv, Consistent, RowsTyped
<1>3. RowTyped(r) /\ r.recurring = db.rows[t].recurring
  BY <1>1, <1>2 DEF Corrected, RowTyped
<1>4. PICK Q : Q = [db.rows EXCEPT ![t] = r]
  OBVIOUS
<1>5. Change([db EXCEPT !.rows = Q]) /\ UNCHANGED <<found, caught>>
  BY <1>1, <1>4 DEF Correct
<1> QED
  BY <1>2, <1>3, <1>4, <1>5, OneRow, RowsChange

LEMMA ClassifyKeeps == ASSUME RInv, NEW t, NEW c, Classify(t, c) PROVE RInv'
<1>1. PICK r : r = [db.rows[t] EXCEPT !.category = c, !.review = FALSE]
  OBVIOUS
<1>2. t \in DOMAIN db.rows /\ RowTyped(db.rows[t]) /\ RowsTyped(db.rows) /\ Tables(db)
  BY DEF Classify, RInv, Consistent, RowsTyped
<1>3. RowTyped(r) /\ r.recurring = db.rows[t].recurring
  BY <1>1, <1>2 DEF RowTyped
<1>4. PICK Q : Q = [db.rows EXCEPT ![t] = r]
  OBVIOUS
<1>5. [db EXCEPT !.rows[t].category = c, !.rows[t].review = FALSE] = [db EXCEPT !.rows = Q]
  BY <1>1, <1>2, <1>4 DEF Tables
<1>6. Change([db EXCEPT !.rows = Q]) /\ UNCHANGED <<found, caught>>
  BY <1>5 DEF Classify
<1> QED
  BY <1>2, <1>3, <1>4, <1>6, OneRow, RowsChange

LEMMA BackfillKeeps == ASSUME RInv, NEW S, NEW f, Backfill(S, f) PROVE RInv'
<1>1. PICK Q : Q = [t \in DOMAIN db.rows |->
                      IF t \in S THEN Backfilled(db.rows[t], f) ELSE db.rows[t]]
  OBVIOUS
<1>2. ASSUME NEW t \in DOMAIN db.rows
      PROVE  RowTyped(Q[t]) /\ Q[t].recurring = db.rows[t].recurring
  <2>1. RowTyped(db.rows[t])
    BY DEF RInv, Consistent, RowsTyped
  <2>2. LET r == Backfilled(db.rows[t], f)
        IN RowTyped(r) /\ r.recurring = db.rows[t].recurring
    BY <2>1 DEF Backfilled, RowTyped
  <2> QED
    BY <1>1, <2>1, <2>2
<1>3. SameLinks(Q, db.rows)
  BY <1>1, <1>2 DEF SameLinks, RInv, Consistent, RowsTyped, RowTyped
<1> QED
  BY <1>1, <1>3, RowsChange DEF Backfill

LEMMA SyncKeeps == ASSUME RInv, Sync PROVE RInv'
<1>1. PICK n \in 0 .. Bookings :
        /\ \A t \in DOMAIN db.rows : t <= n
        /\ Change([db EXCEPT
             !.rows = [t \in 1 .. n |-> IF t \in DOMAIN db.rows THEN db.rows[t] ELSE NewRow(t)],
             !.balance = IF n = 0 THEN @ ELSE BalanceAfter(n),
             !.synced = today])
  BY DEF Sync
<1>2. PICK Q : Q = [t \in 1 .. n |-> IF t \in DOMAIN db.rows THEN db.rows[t] ELSE NewRow(t)]
  OBVIOUS
<1>3. PICK a : a = IF n = 0 THEN db.balance ELSE BalanceAfter(n)
  OBVIOUS
<1>4. db' = [db EXCEPT !.rows = Q, !.balance = a, !.synced = today]
  BY <1>1, <1>2, <1>3 DEF Change
<1>5. Tables(db)' /\ db'.rows = Q /\ db'.series = db.series
  BY <1>4 DEF RInv, Tables
<1>6. DOMAIN db.rows \subseteq 1 .. n /\ 1 .. n \subseteq Tx
  BY <1>1, ForecastAssumption DEF RInv, Consistent, RowsTyped, Tx
<1>7. ASSUME NEW t \in 1 .. n
      PROVE  RowTyped(Q[t]) /\ Q[t].recurring = (t \in DOMAIN db.rows /\ db.rows[t].recurring)
  BY <1>2 DEF NewRow, RowTyped, RInv, Consistent, RowsTyped
<1>8. SameLinks(Q, db.rows)
  BY <1>2, <1>6, <1>7 DEF SameLinks, RowsTyped
<1>9. UNCHANGED <<found, caught>>
  BY DEF Sync
<1> QED
  BY <1>5, <1>8, <1>9, SameLinksAgree, SameLinksFound DEF RInv

\* One series of S becomes one with the same rows that is active.
LEMMA OneSeries ==
  ASSUME RInv, NEW s \in DOMAIN db.series, NEW x, SeriesTyped(x),
         x.rows = db.series[s].rows, x.active, UNCHANGED <<found, caught>>,
         Tables(db)', db'.rows = db.rows, db'.series = [db.series EXCEPT ![s] = x]
  PROVE  RInv'
<1>1. SeriesApart(db'.series, db.rows)
  BY DEF RInv, Consistent, SeriesApart
<1>2. Linking(db.rows, db'.series)
  BY DEF RInv, Consistent, Linking
<1>3. Rested(db'.series, caught) /\ Detecting(found, db.rows, db'.series, caught)
  BY DEF RInv, Rested, Detecting, IsDetection
<1> QED
  BY <1>1, <1>2, <1>3 DEF RInv, Consistent

LEMMA ConfirmKeeps == ASSUME RInv, NEW s, ConfirmSeries(s) PROVE RInv'
<1>1. s \in DOMAIN db.series /\ SeriesTyped(db.series[s]) /\ db.series[s].active
  BY DEF ConfirmSeries, Active, RInv, Consistent, SeriesApart
<1>2. PICK x : x = [db.series[s] EXCEPT !.confirmed = TRUE]
  OBVIOUS
<1>3. SeriesTyped(x) /\ x.rows = db.series[s].rows /\ x.active
  BY <1>1, <1>2 DEF SeriesTyped
<1>4. db' = [db EXCEPT !.series = [db.series EXCEPT ![s] = x]]
  BY <1>2 DEF ConfirmSeries, Change
<1>5. Tables(db)' /\ db'.rows = db.rows /\ db'.series = [db.series EXCEPT ![s] = x]
  BY <1>4 DEF RInv, Tables
<1>6. UNCHANGED <<found, caught>>
  BY DEF ConfirmSeries
<1> QED
  BY <1>1, <1>3, <1>5, <1>6, OneSeries

LEMMA UpdateKeeps == ASSUME RInv, NEW s, NEW f, UpdateSeries(s, f) PROVE RInv'
<1>1. s \in DOMAIN db.series /\ SeriesTyped(db.series[s]) /\ db.series[s].active /\ Tables(db)
  BY DEF UpdateSeries, Active, RInv, Consistent, SeriesApart
<1>2. PICK x : x = [db.series[s] EXCEPT !.confirmed = TRUE, !.amount = f.amount,
                                        !.next = f.next]
  OBVIOUS
<1>3. SeriesTyped(x) /\ x.rows = db.series[s].rows /\ x.active
  BY <1>1, <1>2 DEF SeriesTyped
<1>4. PICK y : y = [db.series EXCEPT ![s] = x]
  OBVIOUS
<1>5. [db EXCEPT !.series[s].confirmed = TRUE, !.series[s].amount = f.amount,
                 !.series[s].next = f.next] = [db EXCEPT !.series = y]
  BY <1>1, <1>2, <1>4 DEF Tables, SeriesTyped
<1>6. db' = [db EXCEPT !.series = y]
  BY <1>5 DEF UpdateSeries, Change
<1>7. Tables(db)' /\ db'.rows = db.rows /\ db'.series = y
  BY <1>1, <1>6 DEF Tables
<1>8. UNCHANGED <<found, caught>>
  BY DEF UpdateSeries
<1> QED
  BY <1>1, <1>3, <1>4, <1>7, <1>8, OneSeries

LEMMA DisableKeeps == ASSUME RInv, NEW s, DisableSeries(s) PROVE RInv'
<1>1. s \in DOMAIN db.series /\ SeriesTyped(db.series[s]) /\ Tables(db)
  BY DEF DisableSeries, Active, RInv, Consistent, SeriesApart
<1>2. PICK x : x = [db.series[s] EXCEPT !.active = FALSE, !.confirmed = FALSE, !.rows = {}]
  OBVIOUS
<1>3. SeriesTyped(x) /\ x.rows = {} /\ ~x.active
  BY <1>1, <1>2 DEF SeriesTyped
<1>4. PICK y : y = [db.series EXCEPT ![s] = x]
  OBVIOUS
<1>5. PICK Q : Q = [t \in DOMAIN db.rows |->
                      IF t \in db.series[s].rows THEN Freed(db.rows[t]) ELSE db.rows[t]]
  OBVIOUS
<1>6. [db EXCEPT !.series[s].active = FALSE, !.series[s].confirmed = FALSE,
                 !.series[s].rows = {}, !.rows = Q]
        = [db EXCEPT !.series = y, !.rows = Q]
  BY <1>1, <1>2, <1>4 DEF Tables, SeriesTyped
<1>7. db' = [db EXCEPT !.series = y, !.rows = Q]
  BY <1>5, <1>6 DEF DisableSeries, Change
<1>8. Tables(db)' /\ db'.rows = Q /\ db'.series = y
  BY <1>1, <1>7 DEF Tables
<1>9. ASSUME NEW t \in DOMAIN db.rows
      PROVE  /\ RowTyped(Q[t])
             /\ Q[t].recurring = (db.rows[t].recurring /\ t \notin db.series[s].rows)
  <2>1. RowTyped(db.rows[t])
    BY DEF RInv, Consistent, RowsTyped
  <2>2. RowTyped(Freed(db.rows[t])) /\ Freed(db.rows[t]).recurring = FALSE
    BY <2>1 DEF Freed, RowTyped
  <2>3. CASE t \in db.series[s].rows
    <3>1. Q[t] = Freed(db.rows[t])
      BY <1>5, <2>3
    <3>2. (db.rows[t].recurring /\ t \notin db.series[s].rows) = FALSE
      BY <2>3
    <3>3. RowTyped(Q[t]) /\ Q[t].recurring = FALSE
      BY <2>2, <3>1
    <3> QED
      BY <3>2, <3>3
  <2>4. CASE t \notin db.series[s].rows
    <3>1. Q[t] = db.rows[t]
      BY <1>5, <2>4
    <3> QED
      BY <2>1, <2>4, <3>1 DEF RowTyped
  <2> QED
    BY <2>3, <2>4
<1>10. RowsTyped(Q) /\ DOMAIN Q = DOMAIN db.rows
  BY <1>5, <1>9 DEF RInv, Consistent, RowsTyped
<1>11. SeriesApart(y, Q)
  BY <1>1, <1>3, <1>4, <1>10 DEF RInv, Consistent, SeriesApart
<1>12. Linking(Q, y)
  <2> SUFFICES ASSUME NEW t \in DOMAIN db.rows
               PROVE  Q[t].recurring <=> \E z \in DOMAIN y : t \in y[z].rows
    BY <1>10 DEF Linking
  <2>1. db.rows[t].recurring <=> \E z \in DOMAIN db.series : t \in db.series[z].rows
    BY DEF RInv, Consistent, Linking
  <2>2. \A z \in DOMAIN db.series : z # s /\ t \in db.series[s].rows => t \notin db.series[z].rows
    BY <1>1 DEF RInv, Consistent, SeriesApart
  <2>3. DOMAIN y = DOMAIN db.series /\ y[s] = x
        /\ \A z \in DOMAIN db.series : z # s => y[z] = db.series[z]
    BY <1>1, <1>4
  <2> QED
    BY <1>3, <1>9, <2>1, <2>2, <2>3
<1>13. /\ caught' = IF \E d \in Detector : HasChosen(d, s) THEN caught \cup {s} ELSE caught
       /\ found' = found
  BY DEF DisableSeries
<1>14. Rested(y, caught')
  BY <1>1, <1>3, <1>4, <1>13 DEF RInv, Rested
<1>15. Detecting(found, Q, y, caught')
  <2> SUFFICES ASSUME NEW d \in Detector, found[d] # Null
               PROVE  IsDetection(found[d], Q, y, caught')
    BY DEF RInv, Detecting
  <2>1. IsDetection(found[d], db.rows, db.series, caught)
    BY DEF RInv, Detecting
  <2>2. caught \subseteq caught' /\ DOMAIN y = DOMAIN db.series
        /\ \A z \in DOMAIN db.series : z # s => y[z] = db.series[z]
    BY <1>1, <1>4, <1>13
  <2>3. ASSUME found[d].series = s, s # Null PROVE s \in caught'
    <3>1. found[d].step = "write"
      BY <2>1, <2>3 DEF IsDetection
    <3> QED
      BY <1>13, <2>3, <3>1 DEF HasChosen
  <2> QED
    BY <1>10, <2>1, <2>2, <2>3 DEF IsDetection
<1> QED
  BY <1>8, <1>10, <1>11, <1>12, <1>13, <1>14, <1>15 DEF RInv, Consistent

LEMMA DetectKeeps == ASSUME RInv, NEW d \in Detector, NEW s, Detect(d, s) PROVE RInv'
<1> DEFINE S == found[d].rows
           old == IF s \in DOMAIN db.series THEN db.series[s] ELSE NewSeries
           terms == [amount |-> Average([t \in S |-> Abs(AmountOf[t])], S),
                     next |-> NextDate(S)]
<1>1. PICK a, n :
        /\ a = terms.amount /\ n = terms.next
        /\ Change([db EXCEPT
          !.rows = [t \in DOMAIN db.rows |->
                      IF t \in S THEN Linked(db.rows[t]) ELSE db.rows[t]],
          !.series = [x \in DOMAIN db.series \cup {s} |->
            IF x = s THEN [old EXCEPT !.amount = a, !.next = n, !.rows = @ \cup S]
            ELSE [db.series[x] EXCEPT !.rows = @ \ S]]])
  <2>1. Change([db EXCEPT
          !.rows = [t \in DOMAIN db.rows |->
                      IF t \in S THEN Linked(db.rows[t]) ELSE db.rows[t]],
          !.series = [x \in DOMAIN db.series \cup {s} |->
            IF x = s THEN [old EXCEPT !.amount = terms.amount, !.next = terms.next,
                                      !.rows = @ \cup S]
            ELSE [db.series[x] EXCEPT !.rows = @ \ S]]])
    BY DEF Detect
  <2> HIDE DEF old, terms, S
  <2> QED
    BY <2>1
<1>2. /\ IsDetection(found[d], db.rows, db.series, caught)
      /\ S \subseteq DOMAIN db.rows /\ Tables(db)
  BY DEF Detect, RInv, Detecting, IsDetection
<1>3. SeriesTyped(old) /\ old.rows \subseteq DOMAIN db.rows
      /\ (s \notin DOMAIN db.series => old.rows = {} /\ old.active)
  BY DEF RInv, Consistent, SeriesApart, SeriesTyped, NewSeries
<1>3a. s \in DOMAIN db.series => old = db.series[s] /\ (old.active \/ s \in caught)
  BY <1>2 DEF Detect, IsDetection
<1> HIDE DEF old, S
<1>4. PICK v : v = [old EXCEPT !.amount = a, !.next = n, !.rows = @ \cup S]
  OBVIOUS
<1>5. SeriesTyped(v) /\ v.rows = old.rows \cup S
  BY <1>2, <1>3, <1>4 DEF SeriesTyped
<1>6. PICK y : y = [x \in DOMAIN db.series \cup {s} |->
                      IF x = s THEN v ELSE [db.series[x] EXCEPT !.rows = @ \ S]]
  OBVIOUS
<1>7. PICK Q : Q = [t \in DOMAIN db.rows |->
                      IF t \in S THEN Linked(db.rows[t]) ELSE db.rows[t]]
  OBVIOUS
<1>8. db' = [db EXCEPT !.rows = Q, !.series = y]
  BY <1>1, <1>4, <1>6, <1>7 DEF Change
<1>9. Tables(db)' /\ db'.rows = Q /\ db'.series = y
  BY <1>2, <1>8 DEF Tables
<1>10. ASSUME NEW t \in DOMAIN db.rows
       PROVE  RowTyped(Q[t]) /\ Q[t].recurring = (t \in S \/ db.rows[t].recurring)
  <2>1. RowTyped(db.rows[t])
    BY DEF RInv, Consistent, RowsTyped
  <2>2. RowTyped(Linked(db.rows[t])) /\ Linked(db.rows[t]).recurring
    BY <2>1 DEF Linked, RowTyped
  <2>3. CASE t \in S
    BY <1>7, <2>2, <2>3
  <2>4. CASE t \notin S
    <3>1. Q[t] = db.rows[t]
      BY <1>7, <2>4
    <3> QED
      BY <2>1, <2>4, <3>1 DEF RowTyped
  <2> QED
    BY <2>3, <2>4
<1>11. RowsTyped(Q) /\ DOMAIN Q = DOMAIN db.rows
  BY <1>7, <1>10 DEF RInv, Consistent, RowsTyped
<1>12. ASSUME NEW z \in DOMAIN db.series, z # s
       PROVE  SeriesTyped(y[z]) /\ y[z].rows = db.series[z].rows \ S
  <2>1. y[z] = [db.series[z] EXCEPT !.rows = @ \ S]
    BY <1>6, <1>12
  <2>2. SeriesTyped(db.series[z])
    BY DEF RInv, Consistent, SeriesApart
  <2> QED
    BY <2>1, <2>2 DEF SeriesTyped
<1>13. DOMAIN y = DOMAIN db.series \cup {s} /\ y[s] = v
  BY <1>6
<1>14. s \in DOMAIN db.series => old = db.series[s]
  BY <1>3a
<1>15. SeriesApart(y, Q)
  <2>1. ASSUME NEW z \in DOMAIN y PROVE SeriesTyped(y[z]) /\ y[z].rows \subseteq DOMAIN Q
    <3>1. CASE z = s
      BY <1>2, <1>3, <1>5, <1>11, <1>13, <3>1
    <3>2. CASE z # s
      BY <1>11, <1>12, <1>13, <3>2 DEF RInv, Consistent, SeriesApart
    <3> QED
      BY <3>1, <3>2
  <2>2. ASSUME NEW z \in DOMAIN db.series, z # s PROVE y[z].rows \cap v.rows = {}
    <3>1. db.series[z].rows \cap old.rows = {}
      BY <1>3, <1>14, <2>2 DEF RInv, Consistent, SeriesApart
    <3> QED
      BY <1>5, <1>12, <2>2, <3>1
  <2>3. ASSUME NEW z \in DOMAIN db.series, NEW w \in DOMAIN db.series, z # s, w # s, z # w
        PROVE  y[z].rows \cap y[w].rows = {}
    <3>1. db.series[z].rows \cap db.series[w].rows = {}
      BY <2>3 DEF RInv, Consistent, SeriesApart
    <3> QED
      BY <1>12, <2>3, <3>1
  <2>4. ASSUME NEW z \in DOMAIN y, NEW w \in DOMAIN y, z # w
        PROVE  y[z].rows \cap y[w].rows = {}
    <3>1. CASE z = s
      BY <1>13, <2>2, <2>4, <3>1
    <3>2. CASE w = s
      BY <1>13, <2>2, <2>4, <3>2
    <3>3. CASE z # s /\ w # s
      BY <1>13, <2>3, <2>4, <3>3
    <3> QED
      BY <3>1, <3>2, <3>3
  <2> QED
    BY <2>1, <2>4 DEF SeriesApart
<1>16. Linking(Q, y)
  <2> SUFFICES ASSUME NEW t \in DOMAIN db.rows
               PROVE  Q[t].recurring <=> \E z \in DOMAIN y : t \in y[z].rows
    BY <1>11 DEF Linking
  <2>1. db.rows[t].recurring <=> \E z \in DOMAIN db.series : t \in db.series[z].rows
    BY DEF RInv, Consistent, Linking
  <2>2. CASE t \in S
    BY <1>5, <1>10, <1>13, <2>2
  <2>3. CASE t \notin S
    <3>1. \A z \in DOMAIN db.series : t \in y[z].rows <=> t \in db.series[z].rows
      BY <1>5, <1>12, <1>13, <1>14, <2>3
    <3>2. s \notin DOMAIN db.series => t \notin y[s].rows
      BY <1>3, <1>5, <1>13, <2>3
    <3>3. Q[t].recurring = db.rows[t].recurring /\ db.rows[t].recurring \in BOOLEAN
      BY <1>10, <2>3 DEF RInv, Consistent, RowsTyped, RowTyped
    <3> QED
      BY <1>13, <2>1, <3>1, <3>2, <3>3
  <2> QED
    BY <2>2, <2>3
<1>17. v.active = old.active
  BY <1>3, <1>4 DEF SeriesTyped
<1>18. \A z \in DOMAIN db.series : z # s => y[z].active = db.series[z].active
  BY <1>6 DEF RInv, Consistent, SeriesApart, SeriesTyped
<1>19. caught' = caught /\ found' = [found EXCEPT ![d] = Null]
  BY DEF Detect
<1>20. Rested(y, caught)
  <2>1. caught \subseteq DOMAIN y
    BY <1>13 DEF RInv, Rested
  <2>2. ASSUME NEW z \in DOMAIN y, ~y[z].active PROVE y[z].rows = {} \/ z \in caught
    <3>1. CASE z = s
      BY <1>3, <1>3a, <1>13, <1>17, <2>2, <3>1
    <3>2. CASE z # s
      BY <1>12, <1>13, <1>18, <2>2, <3>2 DEF RInv, Rested
    <3> QED
      BY <3>1, <3>2
  <2> QED
    BY <2>1, <2>2 DEF Rested
<1>21. Detecting(found', Q, y, caught)
  <2> SUFFICES ASSUME NEW x \in Detector, found'[x] # Null
               PROVE  IsDetection(found'[x], Q, y, caught)
    BY <1>19 DEF RInv, Detecting
  <2>1. found'[x] = found[x] /\ IsDetection(found[x], db.rows, db.series, caught)
    BY <1>19 DEF RInv, Detecting
  <2>2. ASSUME NEW z \in DOMAIN db.series, db.series[z].active
        PROVE  y[z].active \/ z \in caught
    BY <1>3a, <1>13, <1>17, <1>18, <2>2
  <2> QED
    BY <1>11, <1>13, <2>1, <2>2 DEF IsDetection
<1> QED
  BY <1>9, <1>11, <1>15, <1>16, <1>19, <1>20, <1>21 DEF RInv, Consistent

LEMMA LookKeeps == ASSUME RInv, NEW d \in Detector, NEW S, Look(d, S) PROVE RInv'
<1>1. PICK x : x = [step |-> "select", rows |-> S, series |-> Null]
  OBVIOUS
<1>2. /\ found' = [found EXCEPT ![d] = x] /\ db' = db /\ caught' = caught
      /\ S \subseteq DOMAIN db.rows /\ S # {}
  BY <1>1 DEF Look, Monthly
<1>3. IsDetection(x, db.rows, db.series, caught)
  BY <1>1, <1>2 DEF IsDetection
<1> QED
  BY <1>2, <1>3 DEF RInv, Detecting

LEMMA ChooseKeeps == ASSUME RInv, NEW d \in Detector, NEW s, Choose(d, s) PROVE RInv'
<1>1. PICK x : x = [step |-> "write", rows |-> found[d].rows, series |-> s]
  OBVIOUS
<1>2. /\ found' = [found EXCEPT ![d] = x] /\ db' = db /\ caught' = caught
      /\ found[d].rows \subseteq DOMAIN db.rows /\ found[d].rows # {}
      /\ s # Null => s \in DOMAIN db.series /\ db.series[s].active
  BY <1>1 DEF Choose, Active, RInv, Detecting, IsDetection
<1>3. IsDetection(x, db.rows, db.series, caught)
  BY <1>1, <1>2 DEF IsDetection
<1> QED
  BY <1>2, <1>3 DEF RInv, Detecting

LEMMA FailDetectionKeeps == ASSUME RInv, NEW d \in Detector, FailDetection(d) PROVE RInv'
BY DEF FailDetection, RInv, Detecting

LEMMA SettingsKeep == ASSUME RInv, NEW f, SaveSettings(f) PROVE RInv'
<1>1. db' = [db EXCEPT !.settings = f]
  BY DEF SaveSettings, Change
<1>2. /\ Tables(db)' /\ db'.rows = db.rows /\ db'.series = db.series
      /\ UNCHANGED <<found, caught>>
  BY <1>1 DEF RInv, Tables, SaveSettings
<1> QED
  BY <1>2 DEF RInv

LEMMA RecurringInductive == RInv /\ [Next]_vars => RInv'
<1> SUFFICES ASSUME RInv, [Next]_vars PROVE RInv'
  OBVIOUS
<1>1. CASE UNCHANGED <<db, found, caught>>
  BY <1>1 DEF RInv
<1>2. CASE Decide
  BY <1>2, CorrectKeeps, ConfirmKeeps, DisableKeeps, UpdateKeeps, SettingsKeep DEF Decide
<1>3. CASE Work
  BY <1>3, SyncKeeps, ClassifyKeeps, BackfillKeeps, DetectKeeps DEF Work
<1>4. CASE NextDay \/ (\E u \in Updater : Begin(u) \/ Store(u) \/ Fail(u)) \/ UNCHANGED vars
  BY <1>1, <1>4 DEF NextDay, Begin, Store, Fail, vars
<1>5. CASE Search
  BY <1>5, LookKeeps, ChooseKeeps, FailDetectionKeeps DEF Search
<1> QED
  BY <1>2, <1>3, <1>4, <1>5 DEF Next

\* What may be listed: all when there are no more than the LIMIT, and otherwise as
\* many as the LIMIT.
LEMMA ListIs ==
  ASSUME NEW S, IsFiniteSet(S), NEW before, NEW n \in Nat, NEW L \in Limited(S, before, n)
  PROVE  /\ L \subseteq S /\ IsFiniteSet(L)
         /\ L = S \/ Cardinality(L) = n
         /\ Cardinality(S) <= n => L = S
<1>1. L \subseteq S /\ Cardinality(L) = Min({n, Cardinality(S)})
  BY DEF Limited
<1>2. Cardinality(S) \in Nat
  BY FS_CardinalityType
<1>3. Min({n, Cardinality(S)}) = IF n <= Cardinality(S) THEN n ELSE Cardinality(S)
  BY <1>2, MinOfTwo
<1>4. IsFiniteSet(L) /\ (Cardinality(L) = Cardinality(S) => L = S)
  BY <1>1, FS_Subset
<1> QED
  BY <1>1, <1>2, <1>3, <1>4

\* What the recurring page lists is recurring; a recurring row is listed there, or
\* its series has more rows than the page lists, or that series was disabled when a
\* detection had chosen it; what the page does not list was never confirmed or lost
\* its confirmation.  So it is through any overlap of detections with disablings,
\* edits and rules (listRecurring, kindFilter, upsertRecurringSeries,
\* writeRecurringSheet).
THEOREM RecurringAgree == Spec => []RecurringPagesAgree
<1>1. RInv => RecurringPagesAgree
  <2> SUFFICES ASSUME RInv PROVE RecurringPagesAgree
    OBVIOUS
  <2> DEFINE page == RecurringPage(db.rows, db.series)
  <2>1. /\ \A s \in DOMAIN page :
             /\ s \in DOMAIN db.series
             /\ page[s] = Limited(db.series[s].rows, NewestFirst(db.rows), Limit.linked)
        /\ \A s \in DOMAIN db.series : db.series[s].active => s \in DOMAIN page
        /\ \A s \in DOMAIN page : db.series[s].active
    BY DEF RecurringPage
  <2>2. OfKind(db.rows, "recurring") = {t \in DOMAIN db.rows : db.rows[t].recurring}
    BY DEF OfKind
  <2>3. \A t \in DOMAIN db.rows :
          db.rows[t].recurring <=> \E s \in DOMAIN db.series : t \in db.series[s].rows
    BY DEF RInv, Consistent, Linking
  <2>4. ASSUME NEW s \in DOMAIN db.series
        PROVE  /\ db.series[s].rows \subseteq DOMAIN db.rows
               /\ IsFiniteSet(db.series[s].rows)
    <3>1. db.series[s].rows \subseteq DOMAIN db.rows /\ DOMAIN db.rows \subseteq Tx
      BY DEF RInv, Consistent, SeriesApart, RowsTyped
    <3> QED
      BY <3>1, TxFinite
  <2> HIDE DEF page
  <2>5. Limit.linked \in Nat
    BY FiguresAssumption
  <2>6. ASSUME NEW s \in DOMAIN page, NEW L \in page[s]
        PROVE  /\ L \subseteq db.series[s].rows
               /\ L = db.series[s].rows \/ Cardinality(L) = Limit.linked
    BY <2>1, <2>4, <2>5, ListIs
  <2>7. ASSUME NEW s \in DOMAIN page, NEW L \in page[s]
        PROVE  L \subseteq OfKind(db.rows, "recurring")
    BY <2>1, <2>2, <2>3, <2>4, <2>6
  <2>8. ASSUME NEW t \in OfKind(db.rows, "recurring")
        PROVE  \E s \in DOMAIN db.series :
                 /\ t \in db.series[s].rows
                 /\ IF s \in DOMAIN page
                    THEN \A L \in page[s] : t \in L \/ Cardinality(L) = Limit.linked
                    ELSE s \in caught
    <3>1. PICK s \in DOMAIN db.series : t \in db.series[s].rows
      BY <2>2, <2>3
    <3>2. CASE s \in DOMAIN page
      BY <2>6, <3>1, <3>2
    <3>3. CASE s \notin DOMAIN page
      BY <2>1, <3>1, <3>3 DEF RInv, Rested
    <3> QED
      BY <3>1, <3>2, <3>3
  <2>9. \A s \in DOMAIN RecurringSheet(db.series) \ DOMAIN page : ~RecurringSheet(db.series)[s]
    BY <2>1 DEF RecurringSheet, RInv, Consistent, SeriesApart, SeriesTyped
  <2> QED
    BY <2>7, <2>8, <2>9 DEF RecurringPagesAgree, page
<1> QED
  BY <1>1, RecurringInitially, RecurringInductive, PTL DEF Spec

------------------------------------------------------------------------------
(* The figures of typed rows *)

LEMMA AbsOf ==
  ASSUME NEW n \in Int PROVE Abs(n) \in Nat /\ Abs(n) = IF n >= 0 THEN n ELSE -n
BY MaxOfTwo DEF Abs

\* A row that counts as spending is a fixed or a variable cost.
RowOK(r) == r \in RowState /\ (Budgeted(r) => r.fixed \/ r.variable)

RowsOK(R) == DOMAIN R \subseteq Tx /\ \A t \in DOMAIN R : RowOK(R[t])

LEMMA RowsFinite ==
  ASSUME NEW R, RowsOK(R), NEW S \in SUBSET DOMAIN R
  PROVE  IsFiniteSet(DOMAIN R) /\ IsFiniteSet(S)
BY TxFinite DEF RowsOK

Amounts(R) == [t \in DOMAIN R |-> R[t].amount]
Sizes(R) == [t \in DOMAIN R |-> Abs(R[t].amount)]

LEMMA SizesTyped ==
  ASSUME NEW R, RowsOK(R)
  PROVE  /\ \A t \in DOMAIN R : Sizes(R)[t] \in Nat /\ Amounts(R)[t] \in Int
         /\ Ints(Sizes(R), DOMAIN R) /\ Ints(Amounts(R), DOMAIN R)
<1>1. \A t \in DOMAIN R : R[t].amount \in Int
  BY DEF RowsOK, RowOK, RowState
<1> QED
  BY <1>1, AbsOf DEF Sizes, Amounts, Ints

\* What SELECTs add up, as sums of one function over the rows they take
LEMMA SpentIsSum ==
  ASSUME NEW R, RowsOK(R), NEW S \in SUBSET DOMAIN R
  PROVE  Spent(R, S) = SumOf(Sizes(R), S) /\ Spent(R, S) \in Nat
<1>1. IsFiniteSet(S) /\ \A t \in S : Sizes(R)[t] \in Nat
  BY RowsFinite, SizesTyped
<1>2. PICK g : g = [t \in S |-> Abs(R[t].amount)]
  OBVIOUS
<1>3. \A t \in S : g[t] = Sizes(R)[t]
  BY <1>2 DEF Sizes
<1>4. Spent(R, S) = SumOf(g, S)
  BY <1>2 DEF Spent
<1>5. SumOf(g, S) = SumOf(Sizes(R), S)
  BY <1>1, <1>3, SumSame
<1> QED
  BY <1>1, <1>4, <1>5, SumNatural

LEMMA TotalTyped ==
  ASSUME NEW R, RowsOK(R), NEW S \in SUBSET DOMAIN R
  PROVE  Total(R, S) \in Int
<1>1. IsFiniteSet(S)
  BY RowsFinite
<1>2. PICK g : g = [t \in S |-> R[t].amount]
  OBVIOUS
<1>3. Ints(g, S)
  BY <1>2, SizesTyped DEF Ints, Amounts
<1> QED
  BY <1>1, <1>2, <1>3, SumTyped DEF Total

Totals == [income: Int, fixed: Int, variable: Int]

LEMMA MonthlyTotalsTyped ==
  ASSUME NEW R, RowsOK(R), NEW m PROVE MonthlyTotals(R, m) \in Totals
<1> DEFINE I == InMonth(R, m)
           A == {t \in I : R[t].income}
           B == {t \in I \cap Out(R) : R[t].fixed}
           C == {t \in I \cap Out(R) :
                   R[t].variable /\ ~R[t].income /\ ~R[t].transfer /\ ~R[t].excluded}
<1>1. I \subseteq DOMAIN R
  BY DEF InMonth, InMonths
<1>2. A \in SUBSET DOMAIN R /\ B \in SUBSET DOMAIN R /\ C \in SUBSET DOMAIN R
  BY <1>1
<1>3. MonthlyTotals(R, m)
        = [income |-> Total(R, A), fixed |-> Spent(R, B), variable |-> Spent(R, C)]
  BY DEF MonthlyTotals
<1> HIDE DEF A, B, C
<1>4. Total(R, A) \in Int /\ Spent(R, B) \in Int /\ Spent(R, C) \in Int
  BY <1>2, TotalTyped, SpentIsSum
<1> QED
  BY <1>3, <1>4 DEF Totals

LEMMA SeriesUpcomingTyped ==
  ASSUME NEW S, IsFiniteSet(DOMAIN S), \A s \in DOMAIN S : S[s] \in SeriesState, NEW d
  PROVE  SeriesUpcoming(S, d) \in Int
<1>1. PICK U : U = Upcoming(S, d)
  OBVIOUS
<1>2. U \in SUBSET DOMAIN S /\ \A s \in U : S[s].amount # Null
  BY <1>1 DEF Upcoming
<1>3. PICK g : g = [s \in U |-> S[s].amount]
  OBVIOUS
<1>4. IsFiniteSet(U) /\ Ints(g, U)
  BY <1>2, <1>3, FS_Subset DEF Ints, SeriesState
<1>5. SeriesUpcoming(S, d) = SumOf(g, U)
  BY <1>1, <1>3 DEF SeriesUpcoming
<1> QED
  BY <1>4, <1>5, SumTyped

LEMMA AverageTyped ==
  ASSUME NEW S \in SUBSET Tx, S # {}, NEW f, \A t \in S : f[t] \in Nat
  PROVE  Average(f, S) \in Nat
<1>1. IsFiniteSet(S)
  BY TxFinite
<1>2. Cardinality(S) \in Nat /\ Cardinality(S) # 0
  BY <1>1, FS_CardinalityType, FS_EmptySet
<1>3. SumOf(f, S) \in Nat
  BY <1>1, SumNatural
<1> QED
  BY <1>2, <1>3 DEF Average

------------------------------------------------------------------------------
(* Days *)

LEMMA MonthTyped ==
  ASSUME NEW d \in Nat \ {0}
  PROVE  /\ MonthOf(d) \in Nat \ {0} /\ DayOfMonth(d) \in 1 .. DaysInMonth
         /\ LastDayOf(MonthOf(d)) \in Nat /\ DaysLeft(d) \in 1 .. DaysInMonth
<1> DEFINE q == (d - 1) \div DaysInMonth
           r == (d - 1) % DaysInMonth
<1>1. DaysInMonth \in Nat \ {0} /\ d - 1 \in Nat
  BY FiguresAssumption
<1>2. q \in Nat /\ r \in 0 .. DaysInMonth - 1
  BY <1>1
<1>3. MonthOf(d) = 1 + q /\ DayOfMonth(d) = 1 + r
  BY DEF MonthOf, DayOfMonth
<1>4. MonthOf(d) \in Nat \ {0} /\ DayOfMonth(d) \in 1 .. DaysInMonth
  BY <1>1, <1>2, <1>3
<1>5. \A a, b \in Nat : a * b \in Nat
  OBVIOUS
<1>6. LastDayOf(MonthOf(d)) \in Nat
  BY <1>1, <1>4, <1>5 DEF LastDayOf
<1>7. DaysLeft(d) \in 1 .. DaysInMonth
  BY <1>1, <1>4 DEF DaysLeft
<1> QED
  BY <1>4, <1>6, <1>7

LEMMA NextDateTyped ==
  ASSUME NEW S \in SUBSET Tx, S # {} PROVE NextDate(S) \in Nat
<1>1. IsFiniteSet(S) /\ \A t \in S : t \in Int /\ DayOf[t] \in Nat \ {0}
  BY ForecastAssumption, TxFinite DEF Tx
<1>2. Max(S) \in S
  BY <1>1, MaxOfFinite
<1>3. LastDayOf(MonthOf(DayOf[Max(S)])) \in Nat
  BY <1>1, <1>2, MonthTyped
<1>4. PICK f : f = [t \in S |-> DayOfMonth(DayOf[t])]
  OBVIOUS
<1>5. \A t \in S : f[t] \in Nat
  BY <1>1, <1>4, MonthTyped
<1>6. Average(f, S) \in Nat
  BY <1>5, AverageTyped
<1> QED
  BY <1>3, <1>4, <1>6 DEF NextDate

------------------------------------------------------------------------------
(* Types *)

SeriesOK(S) ==
  /\ DOMAIN S \subseteq Series /\ IsFiniteSet(DOMAIN S)
  /\ \A s \in DOMAIN S : S[s] \in SeriesState

TablesOK(b) ==
  /\ RowsOK(b.rows) /\ SeriesOK(b.series)
  /\ b.settings \in Settings \cup {Null}
  /\ b.balance \in Int \cup {Null}
  /\ b.synced \in Day \cup {Null}

Saving == [savings: Int, buffer: Int, base3: Int, base6: Int]

\* What the queries of an update may have returned
SeenOK(seen) ==
  /\ seen.balance \subseteq Int \cup {Null}
  /\ seen.settings \subseteq Saving
  /\ seen.totals \subseteq Totals
  /\ seen.upcoming \subseteq Int \X Int

LEMMA ReadingsTyped ==
  ASSUME NEW b, TablesOK(b), NEW d
  PROVE  LET r == Readings(b, d)
         IN /\ r.balance \in Int \cup {Null} /\ r.settings \in Saving /\ r.totals \in Totals
            /\ r.recurring \in Int /\ r.manual \in Int
<1>1. ForecastSettings(b.settings) \in Saving /\ ManualUpcoming(b.settings) \in Int
  BY DEF ForecastSettings, ManualUpcoming, TablesOK, Settings, Saving
<1>2. MonthlyTotals(b.rows, MonthOf(d)) \in Totals
  BY MonthlyTotalsTyped DEF TablesOK
<1>3. SeriesUpcoming(b.series, d) \in Int
  BY SeriesUpcomingTyped DEF TablesOK, SeriesOK
<1> QED
  BY <1>1, <1>2, <1>3 DEF Readings, TablesOK

LEMMA FirstSeen ==
  ASSUME NEW b, TablesOK(b), NEW d PROVE SeenOK(First(Readings(b, d)))
<1>1. PICK r : r = Readings(b, d)
  OBVIOUS
<1>2. /\ r.balance \in Int \cup {Null} /\ r.settings \in Saving /\ r.totals \in Totals
      /\ r.recurring \in Int /\ r.manual \in Int
  BY <1>1, ReadingsTyped
<1>3. SeenOK(First(r))
  BY <1>2 DEF First, SeenOK
<1> QED
  BY <1>1, <1>3

LEMMA WiderSeen ==
  ASSUME NEW b, TablesOK(b), NEW d, NEW seen, SeenOK(seen)
  PROVE  SeenOK(Widen(seen, Readings(b, d)))
<1>1. PICK r : r = Readings(b, d)
  OBVIOUS
<1>2. /\ r.balance \in Int \cup {Null} /\ r.settings \in Saving /\ r.totals \in Totals
      /\ r.recurring \in Int /\ r.manual \in Int
  BY <1>1, ReadingsTyped
<1>3. PICK U : U = seen.upcoming \cup {<<p[1], r.manual>> : p \in seen.upcoming}
                     \cup {<<r.recurring, r.manual>>}
  OBVIOUS
<1>4. U \subseteq Int \X Int
  BY <1>2, <1>3 DEF SeenOK
<1>5. PICK w : w = Widen(seen, r)
  OBVIOUS
<1>6. /\ w.balance = seen.balance \cup {r.balance}
      /\ w.settings = seen.settings \cup {r.settings}
      /\ w.totals = seen.totals \cup {r.totals} /\ w.upcoming = U
  BY <1>3, <1>5 DEF Widen
<1>7. SeenOK(w)
  BY <1>2, <1>4, <1>6 DEF SeenOK
<1> QED
  BY <1>1, <1>5, <1>7

LEMMA PredictedTyped ==
  ASSUME NEW s \in Saving, NEW n \in Int, NEW d \in Day
  PROVE  PredictedRemaining(s, n, d) \in Int
<1>1. DayOfMonth(d) \in Nat \ {0} /\ DaysInMonth \in Nat
  BY DayTyped, MonthTyped, FiguresAssumption
<1>2. PICK k \in Int : k = n * DaysInMonth
  BY <1>1
<1>3. PaceProjection(n, d) \in Int
  BY <1>1, <1>2 DEF PaceProjection
<1>4. s.base3 \in Int /\ s.base6 \in Int
  BY DEF Saving
<1>5. PICK e \in Int : e = Max({s.base3, s.base6, PaceProjection(n, d)})
  BY <1>3, <1>4, MaxOfThree
<1>6. Max({0, e - n}) \in Int
  BY <1>5, MaxOfTwo
<1> QED
  BY <1>5, <1>6 DEF PredictedRemaining

LEMMA ForecastTyped ==
  ASSUME NEW seen, SeenOK(seen), NEW r \in Answers(seen), NEW d \in Day
  PROVE  ForecastOf(r, d) \in Forecasts
<1>1. PICK b \in seen.balance, s \in seen.settings, t \in seen.totals, p \in seen.upcoming,
           n \in seen.reviews, y \in seen.synced :
             r = [balance |-> b, settings |-> s, totals |-> t, recurring |-> p[1],
                  manual |-> p[2], reviews |-> n, synced |-> y]
  BY DEF Answers
<1>2. b \in Int \cup {Null} /\ s \in Saving /\ t \in Totals /\ p[1] \in Int /\ p[2] \in Int
  BY <1>1 DEF SeenOK
<1>3. /\ r.balance = b /\ r.settings = s /\ r.totals = t /\ r.recurring = p[1]
      /\ r.manual = p[2]
  BY <1>1
<1>4. PICK liquid \in Int : liquid = IF r.balance = Null THEN 0 ELSE r.balance
  BY <1>2, <1>3
<1>5. PICK upcoming \in Int : upcoming = r.recurring + r.manual
  BY <1>2, <1>3
<1>6. t.income \in Int /\ t.fixed \in Int /\ t.variable \in Int
      /\ s.savings \in Int /\ s.buffer \in Int
  BY <1>2 DEF Totals, Saving
<1>7. PICK predicted \in Int : predicted = PredictedRemaining(s, t.variable, d)
  BY <1>2, <1>6, PredictedTyped
<1>8. PICK safe \in Int : safe = SafeToSpend(liquid, 0, upcoming, predicted, s.savings, s.buffer)
  BY <1>6 DEF SafeToSpend
<1>9. DaysLeft(d) \in Nat \ {0}
  BY DayTyped, MonthTyped, FiguresAssumption
<1>10. PICK perDay \in Int : perDay = safe \div DaysLeft(d)
  BY <1>9
<1>11. PICK c \in {"low", "medium"} : c = Confidence(r.reviews, r.synced, d)
  BY DEF Confidence
<1>12. PICK projected \in Int : projected = safe + s.savings
  BY <1>6
<1>13. ForecastOf(r, d) =
         [income |-> t.income, expected |-> 0, fixed |-> t.fixed, upcoming |-> upcoming,
          variable |-> t.variable, predicted |-> predicted, savings |-> s.savings,
          buffer |-> s.buffer, safe |-> safe, perDay |-> perDay,
          projected |-> projected, confidence |-> c]
  BY <1>3, <1>4, <1>5, <1>7, <1>8, <1>10, <1>11, <1>12 DEF ForecastOf
<1> QED
  BY <1>6, <1>13 DEF Forecasts

LEMMA NewRowOK ==
  ASSUME NEW t \in Tx PROVE RowOK(NewRow(t))
BY ForecastAssumption, FiguresAssumption DEF RowOK, RowState, NewRow, Budgeted

LEMMA CorrectedOK ==
  ASSUME NEW r, RowOK(r), NEW f \in Corrections PROVE RowOK(Corrected(r, f))
<1>1. /\ f.category \in Category \cup {Null} /\ f.transfer \in BOOLEAN
      /\ f.savings \in BOOLEAN /\ f.oneOff \in BOOLEAN /\ f.excluded \in BOOLEAN
  BY FormsAssumption
<1>2. PICK q : q = Corrected(r, f)
  OBVIOUS
<1>3. q \in RowState
  <2>1. PICK c \in Category : c = IF f.category = Null THEN r.category ELSE f.category
    BY <1>1 DEF RowOK, RowState
  <2>2. PICK v \in BOOLEAN : v = ~(f.transfer \/ f.savings)
    OBVIOUS
  <2>3. q = [r EXCEPT !.category = c, !.review = FALSE, !.manual = TRUE,
                      !.transfer = f.transfer, !.savings = f.savings,
                      !.oneOff = f.oneOff, !.excluded = f.excluded, !.variable = v]
    BY <1>2, <2>1, <2>2 DEF Corrected
  <2> QED
    BY <1>1, <2>3 DEF RowOK, RowState
<1>4. q.transfer = f.transfer /\ q.savings = f.savings /\ q.variable = ~(f.transfer \/ f.savings)
  BY <1>2 DEF RowOK, RowState, Corrected
<1>5. ~q.transfer /\ ~q.savings => q.variable
  BY <1>1, <1>4
<1> QED
  BY <1>2, <1>3, <1>5 DEF RowOK, Budgeted

LEMMA BackfilledOK ==
  ASSUME NEW r, RowOK(r), NEW f \in RuleForms PROVE RowOK(Backfilled(r, f))
<1>1. /\ f.category \in Category \cup {Null} /\ f.income \in BOOLEAN
      /\ f.transfer \in BOOLEAN /\ f.savings \in BOOLEAN /\ f.fixed \in BOOLEAN
      /\ f.excluded \in BOOLEAN
  BY FormsAssumption
<1>2. PICK q : q = Backfilled(r, f)
  OBVIOUS
<1>3. q \in RowState
  <2>1. PICK c \in Category : c = IF f.category = Null THEN r.category ELSE f.category
    BY <1>1 DEF RowOK, RowState
  <2>2. PICK i \in BOOLEAN : i = (r.income \/ f.income)
    OBVIOUS
  <2>3. PICK t \in BOOLEAN : t = (r.transfer \/ f.transfer)
    OBVIOUS
  <2>4. PICK v \in BOOLEAN : v = (r.savings \/ f.savings)
    OBVIOUS
  <2>5. PICK x \in BOOLEAN : x = (r.fixed \/ f.fixed)
    OBVIOUS
  <2>6. PICK e \in BOOLEAN : e = (r.excluded \/ f.excluded)
    OBVIOUS
  <2>7. q = [r EXCEPT !.category = c, !.review = FALSE, !.income = i, !.transfer = t,
                      !.savings = v, !.fixed = x, !.excluded = e]
    BY <1>2, <2>1, <2>2, <2>3, <2>4, <2>5, <2>6 DEF Backfilled
  <2>8. PICK y \in RowState : y = [r EXCEPT !.category = c, !.review = FALSE, !.income = i]
    BY DEF RowOK, RowState
  <2>9. [y EXCEPT !.transfer = t, !.savings = v, !.fixed = x, !.excluded = e] \in RowState
    BY DEF RowState
  <2>10. q = [y EXCEPT !.transfer = t, !.savings = v, !.fixed = x, !.excluded = e]
    BY <2>7, <2>8 DEF RowOK, RowState
  <2> QED
    BY <2>9, <2>10
<1>4. /\ q.income = (r.income \/ f.income) /\ q.transfer = (r.transfer \/ f.transfer)
      /\ q.savings = (r.savings \/ f.savings) /\ q.fixed = (r.fixed \/ f.fixed)
      /\ q.excluded = (r.excluded \/ f.excluded) /\ q.variable = r.variable
  BY <1>2 DEF RowOK, RowState, Backfilled
<1>5. Budgeted(q) => Budgeted(r)
  BY <1>4 DEF Budgeted
<1>6. r.fixed => q.fixed
  BY <1>4
<1>7. Budgeted(q) => q.fixed \/ q.variable
  BY <1>4, <1>5, <1>6 DEF RowOK
<1> QED
  BY <1>2, <1>3, <1>7 DEF RowOK

LEMMA ClassifiedOK ==
  ASSUME NEW r, RowOK(r), NEW c \in Category
  PROVE  RowOK([r EXCEPT !.category = c, !.review = FALSE])
BY DEF RowOK, RowState, Budgeted

LEMMA LinkedOK == ASSUME NEW r, RowOK(r) PROVE RowOK(Linked(r))
BY DEF RowOK, RowState, Linked, Budgeted

LEMMA FreedOK == ASSUME NEW r, RowOK(r) PROVE RowOK(Freed(r))
BY DEF RowOK, RowState, Freed, Budgeted

------------------------------------------------------------------------------
(* Every commit leaves the tables typed. *)

\* The tables with other rows and other series
LEMMA TablesChange ==
  ASSUME Tables(db), TablesOK(db), NEW Q, RowsOK(Q), NEW S, SeriesOK(S)
  PROVE  /\ TablesOK([db EXCEPT !.rows = Q])
         /\ TablesOK([db EXCEPT !.series = S])
         /\ TablesOK([db EXCEPT !.series = S, !.rows = Q])
         /\ TablesOK([db EXCEPT !.rows = Q, !.series = S])
BY DEF Tables, TablesOK

LEMMA OneRowOK ==
  ASSUME NEW R, RowsOK(R), NEW t \in DOMAIN R, NEW r, RowOK(r)
  PROVE  RowsOK([R EXCEPT ![t] = r])
BY DEF RowsOK

LEMMA OneSeriesOK ==
  ASSUME NEW S, SeriesOK(S), NEW s \in DOMAIN S, NEW x \in SeriesState
  PROVE  SeriesOK([S EXCEPT ![s] = x])
BY DEF SeriesOK

Typed == RInv /\ TablesOK(db)

\* There is a change that leaves the tables typed.
Commits == \E b : Change(b) /\ TablesOK(b)

LEMMA CorrectTyped ==
  ASSUME Typed, NEW t, NEW f \in Corrections, Correct(t, f) PROVE Commits
<1>1. PICK r : r = Corrected(db.rows[t], f)
  OBVIOUS
<1>2. t \in DOMAIN db.rows /\ RowOK(db.rows[t]) /\ RowsOK(db.rows) /\ SeriesOK(db.series)
  BY DEF Correct, Typed, TablesOK, RowsOK
<1>3. PICK Q : Q = [db.rows EXCEPT ![t] = r]
  OBVIOUS
<1>4. RowsOK(Q)
  BY <1>1, <1>2, <1>3, CorrectedOK, OneRowOK
<1>5. Change([db EXCEPT !.rows = Q])
  BY <1>1, <1>3 DEF Correct
<1> QED
  BY <1>2, <1>4, <1>5, TablesChange DEF Typed, RInv, Commits

LEMMA ClassifyTyped ==
  ASSUME Typed, NEW t, NEW c \in Category, Classify(t, c) PROVE Commits
<1>1. PICK r : r = [db.rows[t] EXCEPT !.category = c, !.review = FALSE]
  OBVIOUS
<1>2. /\ t \in DOMAIN db.rows /\ RowOK(db.rows[t]) /\ RowsOK(db.rows) /\ SeriesOK(db.series)
      /\ Tables(db)
  BY DEF Classify, Typed, TablesOK, RowsOK, RInv
<1>3. PICK Q : Q = [db.rows EXCEPT ![t] = r]
  OBVIOUS
<1>4. RowsOK(Q)
  BY <1>1, <1>2, <1>3, ClassifiedOK, OneRowOK
<1>5. [db EXCEPT !.rows[t].category = c, !.rows[t].review = FALSE] = [db EXCEPT !.rows = Q]
  BY <1>1, <1>2, <1>3 DEF Tables
<1>6. Change([db EXCEPT !.rows = Q])
  BY <1>5 DEF Classify
<1> QED
  BY <1>2, <1>4, <1>6, TablesChange DEF Typed, Commits

LEMMA BackfillTyped ==
  ASSUME Typed, NEW S, NEW f \in RuleForms, Backfill(S, f) PROVE Commits
<1>1. PICK Q : Q = [t \in DOMAIN db.rows |->
                      IF t \in S THEN Backfilled(db.rows[t], f) ELSE db.rows[t]]
  OBVIOUS
<1>2. RowsOK(db.rows) /\ SeriesOK(db.series)
  BY DEF Typed, TablesOK
<1>3. RowsOK(Q)
  BY <1>1, <1>2, BackfilledOK DEF RowsOK
<1>4. Change([db EXCEPT !.rows = Q])
  BY <1>1 DEF Backfill
<1> QED
  BY <1>2, <1>3, <1>4, TablesChange DEF Typed, RInv, Commits

LEMMA BalanceTyped == ASSUME NEW n \in 0 .. Bookings PROVE BalanceAfter(n) \in Int
<1>1. 1 .. n \in SUBSET Tx
  BY ForecastAssumption DEF Tx
<1>2. IsFiniteSet(1 .. n) /\ Ints(AmountOf, 1 .. n)
  BY <1>1, TxFinite, ForecastAssumption DEF Ints
<1> QED
  BY <1>2, SumTyped, ForecastAssumption DEF BalanceAfter

LEMMA SyncTyped == ASSUME Typed, today \in Day, Sync PROVE Commits
<1>1. PICK n \in 0 .. Bookings :
        /\ \A t \in DOMAIN db.rows : t <= n
        /\ Change([db EXCEPT
             !.rows = [t \in 1 .. n |-> IF t \in DOMAIN db.rows THEN db.rows[t] ELSE NewRow(t)],
             !.balance = IF n = 0 THEN @ ELSE BalanceAfter(n),
             !.synced = today])
  BY DEF Sync
<1>2. PICK Q : Q = [t \in 1 .. n |-> IF t \in DOMAIN db.rows THEN db.rows[t] ELSE NewRow(t)]
  OBVIOUS
<1>3. PICK a : a = IF n = 0 THEN db.balance ELSE BalanceAfter(n)
  OBVIOUS
<1>4. Change([db EXCEPT !.rows = Q, !.balance = a, !.synced = today])
  BY <1>1, <1>2, <1>3
<1>5. 1 .. n \subseteq Tx
  BY ForecastAssumption DEF Tx
<1>6. RowsOK(Q)
  BY <1>2, <1>5, NewRowOK DEF RowsOK, Typed, TablesOK
<1>7. a \in Int \cup {Null}
  BY <1>3, BalanceTyped DEF Typed, TablesOK
<1>8. TablesOK([db EXCEPT !.rows = Q, !.balance = a, !.synced = today])
  BY <1>6, <1>7 DEF Typed, RInv, Tables, TablesOK
<1> QED
  BY <1>4, <1>8 DEF Commits

LEMMA ConfirmTyped == ASSUME Typed, NEW s, ConfirmSeries(s) PROVE Commits
<1>1. /\ s \in DOMAIN db.series /\ db.series[s] \in SeriesState
      /\ RowsOK(db.rows) /\ SeriesOK(db.series)
  BY DEF ConfirmSeries, Active, Typed, TablesOK, SeriesOK
<1>2. PICK x : x = [db.series[s] EXCEPT !.confirmed = TRUE]
  OBVIOUS
<1>3. x \in SeriesState
  BY <1>1, <1>2 DEF SeriesState
<1>4. PICK S : S = [db.series EXCEPT ![s] = x]
  OBVIOUS
<1>5. SeriesOK(S)
  BY <1>1, <1>3, <1>4, OneSeriesOK
<1>6. Change([db EXCEPT !.series = S])
  BY <1>2, <1>4 DEF ConfirmSeries
<1> QED
  BY <1>1, <1>5, <1>6, TablesChange DEF Typed, RInv, Commits

LEMMA UpdateSeriesTyped ==
  ASSUME Typed, NEW s, NEW f \in Terms, UpdateSeries(s, f) PROVE Commits
<1>1. /\ s \in DOMAIN db.series /\ db.series[s] \in SeriesState /\ Tables(db)
      /\ RowsOK(db.rows) /\ SeriesOK(db.series)
  BY DEF UpdateSeries, Active, Typed, TablesOK, SeriesOK, RInv
<1>2. PICK x : x = [db.series[s] EXCEPT !.confirmed = TRUE, !.amount = f.amount,
                                        !.next = f.next]
  OBVIOUS
<1>3. x \in SeriesState
  BY <1>1, <1>2, FormsAssumption DEF SeriesState
<1>4. PICK S : S = [db.series EXCEPT ![s] = x]
  OBVIOUS
<1>5. SeriesOK(S)
  BY <1>1, <1>3, <1>4, OneSeriesOK
<1>6. [db EXCEPT !.series[s].confirmed = TRUE, !.series[s].amount = f.amount,
                 !.series[s].next = f.next] = [db EXCEPT !.series = S]
  BY <1>1, <1>2, <1>4 DEF Tables, SeriesState
<1>7. Change([db EXCEPT !.series = S])
  BY <1>6 DEF UpdateSeries
<1> QED
  BY <1>1, <1>5, <1>7, TablesChange DEF Typed, Commits

LEMMA DisableTyped == ASSUME Typed, NEW s, DisableSeries(s) PROVE Commits
<1>1. /\ s \in DOMAIN db.series /\ db.series[s] \in SeriesState /\ Tables(db)
      /\ RowsOK(db.rows) /\ SeriesOK(db.series)
  BY DEF DisableSeries, Active, Typed, TablesOK, SeriesOK, RInv
<1>2. PICK x : x = [db.series[s] EXCEPT !.active = FALSE, !.confirmed = FALSE, !.rows = {}]
  OBVIOUS
<1>3. x \in SeriesState
  BY <1>1, <1>2 DEF SeriesState
<1>4. PICK S : S = [db.series EXCEPT ![s] = x]
  OBVIOUS
<1>5. SeriesOK(S)
  BY <1>1, <1>3, <1>4, OneSeriesOK
<1>6. PICK Q : Q = [t \in DOMAIN db.rows |->
                      IF t \in db.series[s].rows THEN Freed(db.rows[t]) ELSE db.rows[t]]
  OBVIOUS
<1>7. RowsOK(Q)
  BY <1>1, <1>6, FreedOK DEF RowsOK
<1>8. [db EXCEPT !.series[s].active = FALSE, !.series[s].confirmed = FALSE,
                 !.series[s].rows = {}, !.rows = Q]
        = [db EXCEPT !.series = S, !.rows = Q]
  BY <1>1, <1>2, <1>4 DEF Tables, SeriesState
<1>9. Change([db EXCEPT !.series = S, !.rows = Q])
  BY <1>6, <1>8 DEF DisableSeries
<1> QED
  BY <1>1, <1>5, <1>7, <1>9, TablesChange DEF Typed, Commits

LEMMA DetectTyped ==
  ASSUME Typed, NEW d \in Detector, NEW s \in Series, Detect(d, s) PROVE Commits
<1> DEFINE S == found[d].rows
           old == IF s \in DOMAIN db.series THEN db.series[s] ELSE NewSeries
           terms == [amount |-> Average([t \in S |-> Abs(AmountOf[t])], S),
                     next |-> NextDate(S)]
<1>1. PICK a, n :
        /\ a = terms.amount /\ n = terms.next
        /\ Change([db EXCEPT
          !.rows = [t \in DOMAIN db.rows |->
                      IF t \in S THEN Linked(db.rows[t]) ELSE db.rows[t]],
          !.series = [x \in DOMAIN db.series \cup {s} |->
            IF x = s THEN [old EXCEPT !.amount = a, !.next = n, !.rows = @ \cup S]
            ELSE [db.series[x] EXCEPT !.rows = @ \ S]]])
  <2>1. Change([db EXCEPT
          !.rows = [t \in DOMAIN db.rows |->
                      IF t \in S THEN Linked(db.rows[t]) ELSE db.rows[t]],
          !.series = [x \in DOMAIN db.series \cup {s} |->
            IF x = s THEN [old EXCEPT !.amount = terms.amount, !.next = terms.next,
                                      !.rows = @ \cup S]
            ELSE [db.series[x] EXCEPT !.rows = @ \ S]]])
    BY DEF Detect
  <2> HIDE DEF old, terms, S
  <2> QED
    BY <2>1
<1>2. S \subseteq DOMAIN db.rows /\ S # {} /\ Tables(db) /\ RowsOK(db.rows)
      /\ SeriesOK(db.series)
  BY DEF Detect, Typed, RInv, TablesOK, Detecting, IsDetection
<1>3. S \in SUBSET Tx
  BY <1>2 DEF RowsOK
<1>4. a \in Nat
  <2>1. PICK f : f = [t \in S |-> Abs(AmountOf[t])]
    OBVIOUS
  <2>2. \A t \in S : f[t] \in Nat
    BY <1>3, <2>1, AbsOf, ForecastAssumption
  <2>3. Average(f, S) \in Nat
    BY <1>2, <1>3, <2>2, AverageTyped
  <2> QED
    BY <1>1, <2>1, <2>3
<1>5. n \in Nat
  BY <1>1, <1>2, <1>3, NextDateTyped
<1>6. old \in SeriesState
  BY <1>2 DEF SeriesOK, SeriesState, NewSeries
<1> HIDE DEF old, terms, S
<1>7. PICK v : v = [old EXCEPT !.amount = a, !.next = n, !.rows = @ \cup S]
  OBVIOUS
<1>8. v \in SeriesState
  BY <1>3, <1>4, <1>5, <1>6, <1>7 DEF SeriesState
<1>9. PICK y : y = [x \in DOMAIN db.series \cup {s} |->
                      IF x = s THEN v ELSE [db.series[x] EXCEPT !.rows = @ \ S]]
  OBVIOUS
<1>10. ASSUME NEW x \in DOMAIN db.series, x # s PROVE y[x] \in SeriesState
  <2>1. db.series[x] \in SeriesState
    BY <1>2 DEF SeriesOK
  <2>2. [db.series[x] EXCEPT !.rows = @ \ S] \in SeriesState
    BY <2>1 DEF SeriesState
  <2> QED
    BY <1>9, <1>10, <2>2
<1>11. IsFiniteSet(DOMAIN db.series \cup {s})
  BY <1>2, FS_AddElement DEF SeriesOK
<1>12. SeriesOK(y)
  <2>1. DOMAIN y = DOMAIN db.series \cup {s}
    BY <1>9
  <2>2. y[s] = v
    BY <1>9
  <2> QED
    BY <1>2, <1>8, <1>10, <1>11, <2>1, <2>2 DEF SeriesOK
<1>13. PICK Q : Q = [t \in DOMAIN db.rows |->
                       IF t \in S THEN Linked(db.rows[t]) ELSE db.rows[t]]
  OBVIOUS
<1>14. RowsOK(Q)
  BY <1>2, <1>13, LinkedOK DEF RowsOK
<1>15. Change([db EXCEPT !.rows = Q, !.series = y])
  BY <1>1, <1>7, <1>9, <1>13
<1> QED
  BY <1>12, <1>14, <1>15, TablesChange DEF Typed, RInv, Commits

LEMMA SettingsTyped ==
  ASSUME Typed, NEW f \in SettingsForms, SaveSettings(f) PROVE Commits
<1>1. TablesOK([db EXCEPT !.settings = f])
  BY FormsAssumption DEF Typed, RInv, Tables, TablesOK
<1> QED
  BY <1>1 DEF SaveSettings, Commits

LEMMA CommitsTyped == ASSUME Typed, today \in Day, Decide \/ Work PROVE Commits
<1>1. CASE Decide
  BY <1>1, CorrectTyped, ConfirmTyped, DisableTyped, UpdateSeriesTyped, SettingsTyped DEF Decide
<1>2. CASE Work
  BY <1>2, SyncTyped, ClassifyTyped, BackfillTyped, DetectTyped DEF Work
<1> QED
  BY <1>1, <1>2

------------------------------------------------------------------------------
(* The type invariant: what is stored, and what updates under way have seen.  *)
(* No forecast is of a month to come.                                        *)

ForecastsOK(F) ==
  \A m \in Month : F[m] # Null => F[m] \in Forecasts /\ m <= MonthOf(today)

UpdatesOK ==
  \A u \in Updater : up[u] # Null =>
    up[u].asOf \in 1 .. today /\ SeenOK(up[u].seen) /\ up[u].undisturbed \in BOOLEAN

FInv ==
  /\ TablesOK(db)
  /\ ForecastsOK(forecasts)
  /\ updated \in Month \cup {Null}
  /\ UpdatesOK
  /\ settled \in BOOLEAN
  /\ changes \in 0 .. MaxChanges

All == IInv /\ RInv /\ FInv

LEMMA InitiallyTyped == Init => FInv
<1> SUFFICES ASSUME Init PROVE FInv
  OBVIOUS
<1>1. db = [rows |-> Nothing, series |-> Nothing, settings |-> Null,
            balance |-> Null, synced |-> Null]
  BY DEF Init
<1>2. RowsOK(Nothing) /\ SeriesOK(Nothing)
  BY FS_EmptySet DEF RowsOK, SeriesOK, Nothing
<1>3. TablesOK(db)
  BY <1>1, <1>2 DEF TablesOK
<1>4. ForecastsOK(forecasts) /\ UpdatesOK
  BY DEF Init, ForecastsOK, UpdatesOK
<1>5. updated = Null /\ changes = 0 /\ MaxChanges \in Nat
  BY ForecastAssumption DEF Init
<1>6. settled \in BOOLEAN
  BY Zenon DEF Init
<1> QED
  BY <1>3, <1>4, <1>5, <1>6 DEF FInv

LEMMA ChangeTyped ==
  ASSUME All, NEW b, Change(b), TablesOK(b) PROVE FInv'
<1>1. /\ up' = [u \in Updater |-> IF up[u] = Null THEN Null
                  ELSE [up[u] EXCEPT !.seen = Widen(@, Readings(b, up[u].asOf)),
                                     !.undisturbed = FALSE]]
      /\ db' = b /\ today' = today /\ settled' = FALSE /\ forecasts' = forecasts
      /\ updated' = updated /\ changes < MaxChanges /\ changes' = changes + 1
  BY DEF Change
<1>2. ASSUME NEW u \in Updater, up'[u] # Null
      PROVE  up'[u].asOf \in 1 .. today /\ SeenOK(up'[u].seen) /\ up'[u].undisturbed = FALSE
  <2>1. up[u] # Null
    BY <1>1, <1>2
  <2>2. PICK x : x = up[u]
    OBVIOUS
  <2>3. /\ x = [asOf |-> x.asOf, seen |-> x.seen, undisturbed |-> x.undisturbed]
        /\ x.asOf \in 1 .. today /\ SeenOK(x.seen)
    BY <2>1, <2>2 DEF All, IInv, Updating, IsUpdate, FInv, UpdatesOK
  <2>4. PICK w : w = Widen(x.seen, Readings(b, x.asOf))
    OBVIOUS
  <2>5. SeenOK(w)
    BY <2>3, <2>4, WiderSeen
  <2>6. up'[u] = [x EXCEPT !.seen = w, !.undisturbed = FALSE]
    BY <1>1, <2>1, <2>2, <2>4
  <2>7. PICK a, s, e : a = x.asOf /\ s = x.seen /\ e = x.undisturbed
    OBVIOUS
  <2>8. x = [asOf |-> a, seen |-> s, undisturbed |-> e]
    BY <2>3, <2>7
  <2>9. up'[u].asOf = a /\ up'[u].seen = w /\ up'[u].undisturbed = FALSE
    BY <2>6, <2>8
  <2> QED
    BY <2>3, <2>5, <2>7, <2>9
<1>3. UpdatesOK' /\ ForecastsOK(forecasts)'
  BY <1>1, <1>2 DEF All, FInv, UpdatesOK, ForecastsOK
<1>4. changes' \in 0 .. MaxChanges
  <2>1. changes \in 0 .. MaxChanges /\ MaxChanges \in Nat
    BY ForecastAssumption DEF All, FInv
  <2>2. changes < MaxChanges /\ changes' = changes + 1
    BY <1>1
  <2> QED
    BY <2>1, <2>2
<1>5. settled' \in BOOLEAN
  BY Zenon DEF Change
<1>6. updated' \in Month \cup {Null} /\ TablesOK(db')
  BY <1>1 DEF All, FInv
<1> QED
  BY <1>3, <1>4, <1>5, <1>6 DEF FInv

LEMMA BeginTyped == ASSUME All, NEW u \in Updater, Begin(u) PROVE FInv'
<1>1. PICK x : x = [asOf |-> today, seen |-> First(Readings(db, today)), undisturbed |-> TRUE]
  OBVIOUS
<1>2. /\ up' = [up EXCEPT ![u] = x]
      /\ db' = db /\ today' = today /\ forecasts' = forecasts /\ updated' = updated
      /\ settled' = settled /\ changes' = changes
  BY <1>1 DEF Begin
<1>3. x.asOf \in 1 .. today /\ SeenOK(x.seen) /\ x.undisturbed = TRUE
  BY <1>1, FirstSeen DEF All, IInv, FInv, Day
<1>4. UpdatesOK'
  BY <1>2, <1>3 DEF All, IInv, Updating, FInv, UpdatesOK
<1>5. ForecastsOK(forecasts)'
  BY <1>2 DEF All, FInv, ForecastsOK
<1> QED
  BY <1>2, <1>4, <1>5 DEF All, FInv

LEMMA StoreTyped == ASSUME All, NEW u \in Updater, Store(u) PROVE FInv'
<1>1. PICK r \in Answers(up[u].seen) :
        forecasts' = [forecasts EXCEPT ![MonthOf(up[u].asOf)] = ForecastOf(r, up[u].asOf)]
  BY DEF Store
<1>2. /\ up[u] # Null /\ updated' = MonthOf(up[u].asOf) /\ settled' = up[u].undisturbed
      /\ up' = [up EXCEPT ![u] = Null] /\ db' = db /\ today' = today /\ changes' = changes
  BY DEF Store
<1>3. PICK d : d = up[u].asOf
  OBVIOUS
<1>4. d \in Day /\ d \in 1 .. today /\ today \in Day /\ SeenOK(up[u].seen)
  BY <1>2, <1>3 DEF All, IInv, Updating, IsUpdate, FInv, UpdatesOK
<1>5. MonthOf(d) \in Month /\ MonthOf(d) <= MonthOf(today)
  BY <1>4, DayTyped, MonthsRise
<1>6. ForecastOf(r, d) \in Forecasts
  BY <1>1, <1>4, ForecastTyped
<1>7. ForecastsOK(forecasts)'
  BY <1>1, <1>2, <1>3, <1>5, <1>6 DEF All, IInv, MonthsThere, FInv, ForecastsOK
<1>8. UpdatesOK'
  BY <1>2 DEF All, IInv, Updating, FInv, UpdatesOK
<1>9. settled' \in BOOLEAN
  BY <1>2 DEF All, FInv, UpdatesOK
<1> QED
  BY <1>2, <1>3, <1>5, <1>7, <1>8, <1>9 DEF All, FInv

LEMMA NextDayTyped == ASSUME All, NextDay PROVE FInv'
<1>1. /\ up' = [u \in Updater |-> IF up[u] = Null THEN Null
                                  ELSE [up[u] EXCEPT !.undisturbed = FALSE]]
      /\ today' = today + 1 /\ today \in Day /\ today' \in Day
      /\ settled' = FALSE /\ forecasts' = forecasts
      /\ db' = db /\ updated' = updated /\ changes' = changes
  BY ForecastAssumption DEF NextDay, All, IInv, Day
<1>2. ASSUME NEW u \in Updater, up'[u] # Null
      PROVE  up'[u].asOf \in 1 .. today' /\ SeenOK(up'[u].seen) /\ up'[u].undisturbed = FALSE
  <2>1. up[u] # Null
    BY <1>1, <1>2
  <2>2. PICK a, s, e : a = up[u].asOf /\ s = up[u].seen /\ e = up[u].undisturbed
    OBVIOUS
  <2>3. up[u] = [asOf |-> a, seen |-> s, undisturbed |-> e] /\ a \in 1 .. today /\ SeenOK(s)
    BY <2>1, <2>2 DEF All, IInv, Updating, IsUpdate, FInv, UpdatesOK
  <2>4. up'[u] = [up[u] EXCEPT !.undisturbed = FALSE]
    BY <1>1, <2>1
  <2>5. up'[u].asOf = a /\ up'[u].seen = s /\ up'[u].undisturbed = FALSE
    BY <2>3, <2>4
  <2> QED
    BY <1>1, <2>3, <2>5 DEF Day
<1>3. today \in Nat \ {0} /\ today' \in Nat \ {0} /\ today <= today'
  BY <1>1 DEF Day
<1>4. MonthOf(today) \in Int /\ MonthOf(today') \in Int /\ MonthOf(today) <= MonthOf(today')
  BY <1>3, MonthsRise
<1>5. \A m \in Month : m \in Int
  BY DEF Month
<1>6. ASSUME NEW m \in Month, forecasts[m] # Null
      PROVE  forecasts[m] \in Forecasts /\ m <= MonthOf(today')
  <2>1. forecasts[m] \in Forecasts /\ m <= MonthOf(today)
    BY <1>6 DEF All, FInv, ForecastsOK
  <2> QED
    BY <1>4, <1>5, <2>1
<1>7. ForecastsOK(forecasts)'
  BY <1>1, <1>6 DEF ForecastsOK
<1>8. UpdatesOK'
  BY <1>2 DEF UpdatesOK
<1> QED
  BY <1>1, <1>7, <1>8 DEF All, FInv

LEMMA FailTyped == ASSUME All, NEW u \in Updater, Fail(u) PROVE FInv'
<1>1. /\ up' = [up EXCEPT ![u] = Null] /\ db' = db /\ today' = today
      /\ forecasts' = forecasts /\ updated' = updated /\ settled' = settled
      /\ changes' = changes
  BY DEF Fail
<1>2. UpdatesOK' /\ ForecastsOK(forecasts)'
  BY <1>1 DEF All, IInv, Updating, FInv, UpdatesOK, ForecastsOK
<1> QED
  BY <1>1, <1>2 DEF All, FInv

LEMMA StepTyped == All /\ [Next]_vars => FInv'
<1> SUFFICES ASSUME All, [Next]_vars PROVE FInv'
  OBVIOUS
<1>1. CASE Decide \/ Work
  <2>1. Typed /\ today \in Day
    BY DEF All, IInv, FInv, Typed
  <2> QED
    BY <1>1, <2>1, CommitsTyped, ChangeTyped DEF Commits
<1>2. CASE Search \/ UNCHANGED vars
  BY <1>2, SearchReads DEF vars, All, FInv, UpdatesOK, ForecastsOK
<1> QED
  BY <1>1, <1>2, BeginTyped, StoreTyped, FailTyped, NextDayTyped DEF Next

LEMMA AllInvariant == Spec => []All
<1>1. Init => All
  BY Initially, RecurringInitially, InitiallyTyped DEF All
<1>2. All /\ [Next]_vars => All'
  BY Inductive, RecurringInductive, StepTyped DEF All
<1> QED
  BY <1>1, <1>2, PTL DEF Spec

\* Tables, forecasts and what updates under way have seen keep their types: no
\* correction leaves a row without a category, no forecast lacks a figure
\* (updateMonthlyForecast).
THEOREM TypeCorrect == Spec => []TypeOK
<1>1. All => TypeOK
  <2> SUFFICES ASSUME All PROVE TypeOK
    OBVIOUS
  <2>1. \A d \in Detector : found[d] # Null => found[d].series \in DOMAIN db.series \cup {Null}
    BY DEF All, RInv, Detecting, IsDetection
  <2>2. caught \in SUBSET Series
    BY DEF All, RInv, Rested, FInv, TablesOK, SeriesOK
  <2> QED
    BY <2>1, <2>2 DEF All, IInv, FInv, TablesOK, RowsOK, RowOK, SeriesOK, ForecastsOK,
                      UpdatesOK, TypeOK
<1> QED
  BY <1>1, AllInvariant, PTL

------------------------------------------------------------------------------
(* Sums over categories and over kinds of rows *)

LEMMA SizesSum ==
  ASSUME NEW R, RowsOK(R), NEW S \in SUBSET DOMAIN R
  PROVE  IsFiniteSet(S) /\ Ints(Sizes(R), S) /\ SumOf(Sizes(R), S) \in Nat
BY RowsFinite, SizesTyped, SpentIsSum DEF Ints

\* What the rows of B come to is what they come to by category.
LEMMA ByCategory ==
  ASSUME NEW R, RowsOK(R), NEW B \in SUBSET DOMAIN R, NEW g,
         \A c \in Category : g[c] = Spent(R, {t \in B : R[t].category = c})
  PROVE  SumOf(g, Category) = Spent(R, B)
<1>1. PICK k : k = [t \in DOMAIN R |-> R[t].category]
  OBVIOUS
<1>2. \A t \in B : k[t] = R[t].category /\ k[t] \in Category
  BY <1>1 DEF RowsOK, RowOK, RowState
<1>3. IsFiniteSet(Category) /\ IsFiniteSet(B) /\ Ints(Sizes(R), B)
  BY SizesSum, FiguresAssumption
<1>4. PICK h : h = Sums(Sizes(R), k, B, Category)
  OBVIOUS
<1>5. ASSUME NEW c \in Category PROVE g[c] = h[c]
  <2>1. PICK S : S = {t \in B : R[t].category = c}
    OBVIOUS
  <2>2. S \in SUBSET DOMAIN R /\ S = Group(k, B, c)
    BY <1>2, <2>1 DEF Group
  <2>3. g[c] = SumOf(Sizes(R), S)
    BY <2>1, <2>2, SpentIsSum
  <2> QED
    BY <1>4, <2>2, <2>3 DEF Sums
<1>6. SumOf(h, Category) = SumOf(Sizes(R), B)
  BY <1>2, <1>3, <1>4, SumOfGroups
<1>7. SumOf(g, Category) = SumOf(h, Category)
  BY <1>3, <1>5, SumSame
<1> QED
  BY <1>6, <1>7, SpentIsSum

\* Rows of two kinds that exclude each other
LEMMA SpentApart ==
  ASSUME NEW R, RowsOK(R), NEW A \in SUBSET DOMAIN R, NEW B \in SUBSET DOMAIN R,
         A \cap B = {}
  PROVE  Spent(R, A \cup B) = Spent(R, A) + Spent(R, B)
<1>1. PICK f : f = Sizes(R)
  OBVIOUS
<1>2. IsFiniteSet(A) /\ IsFiniteSet(B) /\ Ints(f, A) /\ Ints(f, B)
  BY <1>1, SizesSum
<1>3. SumOf(f, A \cup B) = SumOf(f, A) + SumOf(f, B)
  BY <1>2, SumUnion
<1>4. A \cup B \in SUBSET DOMAIN R
  OBVIOUS
<1> QED
  BY <1>1, <1>3, <1>4, SpentIsSum

LEMMA SpentLess ==
  ASSUME NEW R, RowsOK(R), NEW A \in SUBSET DOMAIN R, NEW B \in SUBSET A
  PROVE  Spent(R, B) <= Spent(R, A)
<1>1. IsFiniteSet(A) /\ \A t \in A : Sizes(R)[t] \in Nat
  BY RowsFinite, SizesTyped
<1>2. SumOf(Sizes(R), B) <= SumOf(Sizes(R), A)
  BY <1>1, SumSubset
<1>3. B \in SUBSET DOMAIN R
  OBVIOUS
<1> QED
  BY <1>2, <1>3, SpentIsSum

LEMMA SpentCovered ==
  ASSUME NEW R, RowsOK(R), NEW A \in SUBSET DOMAIN R, NEW B \in SUBSET DOMAIN R,
         NEW C \in SUBSET (A \cup B)
  PROVE  Spent(R, C) <= Spent(R, A) + Spent(R, B)
<1>1. A \cup B = A \cup (B \ A) /\ A \cup B \in SUBSET DOMAIN R /\ B \ A \in SUBSET DOMAIN R
      /\ A \cap (B \ A) = {} /\ B \ A \in SUBSET B
  OBVIOUS
<1>2. PICK a, b, c, d, e : /\ a = Spent(R, A) /\ b = Spent(R, B) /\ c = Spent(R, C)
                           /\ d = Spent(R, B \ A) /\ e = Spent(R, A \cup B)
  OBVIOUS
<1>3. C \in SUBSET DOMAIN R
  BY <1>1
<1>4. a \in Nat /\ b \in Nat /\ c \in Nat /\ d \in Nat /\ e \in Nat
  BY <1>1, <1>2, <1>3, SpentIsSum
<1>5. c <= e
  BY <1>1, <1>2, SpentLess
<1>6. e = a + d
  BY <1>1, <1>2, SpentApart
<1>7. d <= b
  BY <1>1, <1>2, SpentLess
<1>8. c <= a + b
  BY <1>4, <1>5, <1>6, <1>7
<1> QED
  BY <1>2, <1>8

\* The dashboard's spending of a month, over all categories
Spending(R, m) == {t \in InMonth(R, m) \cap Out(R) : Budgeted(R[t])}

LEMMA PaceSum ==
  ASSUME NEW R, RowsOK(R), NEW m
  PROVE  SumOf([c \in Category |-> SpentOn(R, c, m)], Category) = Spent(R, Spending(R, m))
<1>1. PICK g : g = [c \in Category |-> SpentOn(R, c, m)]
  OBVIOUS
<1>2. PICK B : B = Spending(R, m)
  OBVIOUS
<1>3. B \in SUBSET DOMAIN R
  BY <1>2 DEF Spending, InMonth, InMonths
<1>4. ASSUME NEW c \in Category PROVE g[c] = Spent(R, {t \in B : R[t].category = c})
  <2>1. {t \in OfCategory(R, InMonth(R, m) \cap Out(R), c) : Budgeted(R[t])}
          = {t \in B : R[t].category = c}
    BY <1>2 DEF Spending, OfCategory
  <2>2. g[c] = SpentOn(R, c, m)
    BY <1>1
  <2> QED
    BY <2>1, <2>2 DEF SpentOn
<1> QED
  BY <1>1, <1>2, <1>3, <1>4, ByCategory

\* What the dashboard lists as spending in a month is in the forecast's totals,
\* for all rows there can be: no correction, rule, detection or disabling leaves a
\* flag that hides a payment from them (monthlyTotals, readCategoryPace).
THEOREM SpendingForecast == Spec => []SpendingIsForecast
<1>1. ASSUME RowsOK(db.rows) PROVE SpendingIsForecast
  <2>1. PICK R : R = db.rows
    OBVIOUS
  <2>2. ASSUME NEW m \in Month
        PROVE  MonthlyTotals(R, m).fixed + MonthlyTotals(R, m).variable
                 >= SumOf([c \in Category |-> SpentOn(R, c, m)], Category)
    <3>1. PICK F : F = {t \in InMonth(R, m) \cap Out(R) : R[t].fixed}
      OBVIOUS
    <3>2. PICK V : V = {t \in InMonth(R, m) \cap Out(R) :
                          /\ R[t].variable
                          /\ ~R[t].income /\ ~R[t].transfer /\ ~R[t].excluded}
      OBVIOUS
    <3>3. MonthlyTotals(R, m).fixed = Spent(R, F) /\ MonthlyTotals(R, m).variable = Spent(R, V)
      BY <3>1, <3>2 DEF MonthlyTotals
    <3>4. F \in SUBSET DOMAIN R /\ V \in SUBSET DOMAIN R
      BY <3>1, <3>2 DEF InMonth, InMonths
    <3>5. \A t \in DOMAIN R : Budgeted(R[t]) => R[t].fixed \/ R[t].variable
      BY <1>1, <2>1 DEF RowsOK, RowOK
    <3>6. Spending(R, m) \in SUBSET (F \cup V)
      BY <3>1, <3>2, <3>5 DEF Spending, Budgeted, InMonth, InMonths
    <3>7. Spending(R, m) \in SUBSET DOMAIN R
      BY <3>4, <3>6
    <3>8. PICK a, b, c : a = Spent(R, F) /\ b = Spent(R, V) /\ c = Spent(R, Spending(R, m))
      OBVIOUS
    <3>9. a \in Nat /\ b \in Nat /\ c \in Nat /\ c <= a + b
      BY <1>1, <2>1, <3>4, <3>6, <3>7, <3>8, SpentCovered, SpentIsSum
    <3>10. SumOf([x \in Category |-> SpentOn(R, x, m)], Category) = c
      BY <1>1, <2>1, <3>8, PaceSum
    <3> QED
      BY <3>3, <3>8, <3>9, <3>10
  <2> QED
    BY <2>1, <2>2 DEF SpendingIsForecast
<1>2. All => SpendingIsForecast
  BY <1>1 DEF All, FInv, TablesOK
<1> QED
  BY <1>2, AllInvariant, PTL

------------------------------------------------------------------------------
(* The pages on a month *)

LEMMA FilterFields ==
  /\ NoFilter.kind = Null /\ NoFilter.review = Null /\ NoFilter.month = Null
  /\ NoFilter.category = Null /\ NoFilter.min = Null /\ NoFilter.max = Null
  /\ DOMAIN NoFilter = {"review", "month", "category", "min", "max", "kind"}
BY DEF NoFilter

LEMMA AnyKind == ASSUME NEW R PROVE OfKind(R, Null) = DOMAIN R
<1>1. /\ Null # "excluded" /\ Null # "fixed" /\ Null # "income" /\ Null # "one_off"
      /\ Null # "recurring" /\ Null # "savings" /\ Null # "spending" /\ Null # "transfer"
      /\ Null # "uncategorized"
  BY FiguresAssumption DEF Kinds
<1> QED
  BY <1>1 DEF OfKind

\* What the transaction page shows of a month: all of it, of one kind, of one category
LEMMA MonthShown ==
  ASSUME NEW R, NEW m \in Int
  PROVE  Matching(R, [NoFilter EXCEPT !.month = m]) = InMonth(R, m)
<1>1. PICK f : f = [NoFilter EXCEPT !.month = m]
  OBVIOUS
<1>2. /\ f.kind = Null /\ f.review = Null /\ f.month = m /\ f.category = Null
      /\ f.min = Null /\ f.max = Null /\ m # Null
  BY <1>1, FilterFields, FiguresAssumption
<1>3. OfKind(R, f.kind) = DOMAIN R
  BY <1>2, AnyKind
<1>4. Matching(R, f) = {t \in DOMAIN R : MonthOf(R[t].day) = m}
  BY <1>2, <1>3 DEF Matching
<1>5. InMonth(R, m) = {t \in DOMAIN R : MonthOf(R[t].day) \in m .. m}
  BY DEF InMonth, InMonths
<1>6. m .. m = {m}
  OBVIOUS
<1> QED
  BY <1>1, <1>4, <1>5, <1>6

LEMMA KindShown ==
  ASSUME NEW R, NEW m \in Int, NEW kind \in Kinds
  PROVE  Matching(R, [NoFilter EXCEPT !.month = m, !.kind = kind])
           = OfKind(R, kind) \cap InMonth(R, m)
<1>1. PICK f : f = [NoFilter EXCEPT !.month = m, !.kind = kind]
  OBVIOUS
<1>2. /\ f.kind = kind /\ f.review = Null /\ f.month = m /\ f.category = Null
      /\ f.min = Null /\ f.max = Null /\ m # Null
  BY <1>1, FilterFields, FiguresAssumption
<1>3. Matching(R, f) = {t \in OfKind(R, kind) : MonthOf(R[t].day) = m}
  BY <1>2 DEF Matching
<1>4. InMonth(R, m) = {t \in DOMAIN R : MonthOf(R[t].day) \in m .. m}
  BY DEF InMonth, InMonths
<1>5. m .. m = {m}
  OBVIOUS
<1>6. OfKind(R, kind) \subseteq DOMAIN R
  BY DEF OfKind
<1> QED
  BY <1>1, <1>3, <1>4, <1>5, <1>6

LEMMA CategoryShown ==
  ASSUME NEW R, NEW m \in Int, NEW c \in Category
  PROVE  Matching(R, [NoFilter EXCEPT !.month = m, !.category = c])
           = OfCategory(R, InMonth(R, m), c)
<1>1. PICK f : f = [NoFilter EXCEPT !.month = m, !.category = c]
  OBVIOUS
<1>2. /\ f.kind = Null /\ f.review = Null /\ f.month = m /\ f.category = c
      /\ f.min = Null /\ f.max = Null /\ m # Null /\ c # Null
  BY <1>1, FilterFields, FiguresAssumption
<1>3. OfKind(R, f.kind) = DOMAIN R
  BY <1>2, AnyKind
<1>4. Matching(R, f) = {t \in DOMAIN R : MonthOf(R[t].day) = m /\ R[t].category = c}
  BY <1>2, <1>3 DEF Matching
<1>5. InMonth(R, m) = {t \in DOMAIN R : MonthOf(R[t].day) \in m .. m}
  BY DEF InMonth, InMonths
<1>6. m .. m = {m}
  OBVIOUS
<1> QED
  BY <1>1, <1>4, <1>5, <1>6 DEF OfCategory

\* A category's rows of a month that count, and those that do not
Counting(R, c, m) == {t \in OfCategory(R, InMonth(R, m), c) : Budgeted(R[t])}
NotCounting(R, c, m) == {t \in OfCategory(R, InMonth(R, m), c) : ~Budgeted(R[t])}

LEMMA BudgetOf ==
  ASSUME NEW R, NEW m, NEW c
  PROVE  /\ BudgetedIn(R, c, m, m) = Spent(R, Counting(R, c, m))
         /\ CategoryBudget(R, c, m).current = Spent(R, Counting(R, c, m))
         /\ CategoryBudget(R, c, m).excluded = Spent(R, NotCounting(R, c, m))
         /\ ExcludedIn(R, c, m) = Spent(R, NotCounting(R, c, m))
         /\ AveragesSheet(R, c, m).current = Spent(R, Counting(R, c, m))
         /\ AveragesSheet(R, c, m).excluded = Spent(R, NotCounting(R, c, m))
<1>1. BudgetedIn(R, c, m, m) = Spent(R, Counting(R, c, m))
  BY DEF BudgetedIn, Counting, InMonth
<1>2. ExcludedIn(R, c, m) = Spent(R, NotCounting(R, c, m))
  BY DEF ExcludedIn, NotCounting
<1>3. PICK a, b : a = BudgetedIn(R, c, m, m) /\ b = ExcludedIn(R, c, m)
  OBVIOUS
<1>4. CategoryBudget(R, c, m).current = a /\ CategoryBudget(R, c, m).excluded = b
  BY <1>3 DEF CategoryBudget
<1>5. AveragesSheet(R, c, m).current = a /\ AveragesSheet(R, c, m).excluded = b
  BY <1>3 DEF AveragesSheet
<1> QED
  BY <1>1, <1>2, <1>3, <1>4, <1>5

LEMMA CountingRows ==
  ASSUME NEW R, NEW m, NEW c
  PROVE  /\ Counting(R, c, m) \in SUBSET DOMAIN R /\ NotCounting(R, c, m) \in SUBSET DOMAIN R
         /\ InMonth(R, m) \in SUBSET DOMAIN R
         /\ Counting(R, c, m) \cap NotCounting(R, c, m) = {}
         /\ Counting(R, c, m) \cup NotCounting(R, c, m) = OfCategory(R, InMonth(R, m), c)
BY DEF Counting, NotCounting, OfCategory, InMonth, InMonths

\* The transaction workspace's outflow is the dashboard's spending and what is
\* booked against an income.
LEMMA OutflowAgrees ==
  ASSUME NEW R, RowsOK(R), NEW m
  PROVE  LET I == InMonth(R, m)
             unbudgeted == {t \in I \cap OfKind(R, "income") \cap Out(R) :
                              ~R[t].transfer /\ ~R[t].savings /\ ~R[t].excluded}
         IN TransactionSummary(R, I).outflow =
              SumOf([c \in Category |-> SpentOn(R, c, m)], Category)
                + Spent(R, unbudgeted)
<1> DEFINE I == InMonth(R, m)
<1>1. PICK U : U = {t \in I \cap OfKind(R, "income") \cap Out(R) :
                      ~R[t].transfer /\ ~R[t].savings /\ ~R[t].excluded}
  OBVIOUS
<1>2. PICK O : O = {t \in I \cap Out(R) :
                      ~R[t].transfer /\ ~R[t].savings /\ ~R[t].excluded}
  OBVIOUS
<1>3. PICK B : B = Spending(R, m)
  OBVIOUS
<1>4. I \subseteq DOMAIN R
  BY DEF InMonth, InMonths
<1>5. OfKind(R, "income") = {t \in DOMAIN R : R[t].income}
  BY DEF OfKind
<1>6. B \in SUBSET DOMAIN R /\ U \in SUBSET DOMAIN R /\ B \cap U = {} /\ B \cup U = O
  BY <1>1, <1>2, <1>3, <1>4, <1>5 DEF Spending, Budgeted
<1>7. Spent(R, O) = Spent(R, B) + Spent(R, U)
  BY <1>6, SpentApart
<1>8. SumOf([c \in Category |-> SpentOn(R, c, m)], Category) = Spent(R, B)
  BY <1>3, PaceSum
<1>9. TransactionSummary(R, I).outflow = Spent(R, O)
  BY <1>2 DEF TransactionSummary
<1> HIDE DEF I
<1> QED
  BY <1>1, <1>7, <1>8, <1>9 DEF I

\* The categories page counts refunds too.
LEMMA RefundsAgree ==
  ASSUME NEW R, RowsOK(R), NEW m, NEW c
  PROVE  CategoryBudget(R, c, m).current =
           SpentOn(R, c, m)
             + Spent(R, {t \in OfCategory(R, InMonth(R, m) \ Out(R), c) : Budgeted(R[t])})
<1>1. PICK P : P = {t \in OfCategory(R, InMonth(R, m) \cap Out(R), c) : Budgeted(R[t])}
  OBVIOUS
<1>2. PICK Q : Q = {t \in OfCategory(R, InMonth(R, m) \ Out(R), c) : Budgeted(R[t])}
  OBVIOUS
<1>3. P \in SUBSET DOMAIN R /\ Q \in SUBSET DOMAIN R /\ P \cap Q = {}
      /\ P \cup Q = Counting(R, c, m)
  BY <1>1, <1>2 DEF OfCategory, InMonth, InMonths, Counting
<1>4. Spent(R, Counting(R, c, m)) = Spent(R, P) + Spent(R, Q)
  BY <1>3, SpentApart
<1>5. SpentOn(R, c, m) = Spent(R, P)
  BY <1>1 DEF SpentOn
<1> QED
  BY <1>2, <1>4, <1>5, BudgetOf

LEMMA SheetAgrees ==
  ASSUME NEW R, RowsOK(R), NEW m, NEW c
  PROVE  AveragesSheet(R, c, m).current + AveragesSheet(R, c, m).excluded
           = Spent(R, OfCategory(R, InMonth(R, m), c))
<1>1. PICK A, B : A = Counting(R, c, m) /\ B = NotCounting(R, c, m)
  OBVIOUS
<1>2. A \in SUBSET DOMAIN R /\ B \in SUBSET DOMAIN R /\ A \cap B = {}
      /\ A \cup B = OfCategory(R, InMonth(R, m), c)
  BY <1>1, CountingRows
<1>3. Spent(R, A \cup B) = Spent(R, A) + Spent(R, B)
  BY <1>2, SpentApart
<1> QED
  BY <1>1, <1>2, <1>3, BudgetOf

\* The categories page shows every amount of the month once.
LEMMA AmountsOnce ==
  ASSUME NEW R, RowsOK(R), NEW m
  PROVE  SumOf([c \in Category |-> CategoryBudget(R, c, m).current], Category)
           + CategoryTotals(R, m).excluded = Spent(R, InMonth(R, m))
<1>1. PICK A, B : /\ A = {t \in InMonth(R, m) : Budgeted(R[t])}
                  /\ B = {t \in InMonth(R, m) : ~Budgeted(R[t])}
  OBVIOUS
<1>2. A \in SUBSET DOMAIN R /\ B \in SUBSET DOMAIN R /\ A \cap B = {}
      /\ A \cup B = InMonth(R, m)
  BY <1>1 DEF InMonth, InMonths
<1>3. PICK f, g : /\ f = [c \in Category |-> CategoryBudget(R, c, m).current]
                  /\ g = [c \in Category |-> CategoryBudget(R, c, m).excluded]
  OBVIOUS
<1>4. ASSUME NEW c \in Category
      PROVE  /\ f[c] = Spent(R, {t \in A : R[t].category = c})
             /\ g[c] = Spent(R, {t \in B : R[t].category = c})
  <2>1. Counting(R, c, m) = {t \in A : R[t].category = c}
        /\ NotCounting(R, c, m) = {t \in B : R[t].category = c}
    BY <1>1 DEF Counting, NotCounting, OfCategory
  <2>2. f[c] = CategoryBudget(R, c, m).current /\ g[c] = CategoryBudget(R, c, m).excluded
    BY <1>3
  <2>3. /\ CategoryBudget(R, c, m).current = Spent(R, Counting(R, c, m))
        /\ CategoryBudget(R, c, m).excluded = Spent(R, NotCounting(R, c, m))
    BY BudgetOf
  <2> QED
    BY <2>1, <2>2, <2>3
<1>5. SumOf(f, Category) = Spent(R, A) /\ SumOf(g, Category) = Spent(R, B)
  BY <1>2, <1>4, ByCategory
<1>6. CategoryTotals(R, m).excluded = SumOf(g, Category)
  <2>1. PICK b : b = [c \in Category |-> CategoryBudget(R, c, m)]
    OBVIOUS
  <2>2. \A c \in Category : b[c].excluded = g[c]
    BY <1>3, <2>1
  <2>3. [c \in Category |-> b[c].excluded] = g
    BY <1>3, <2>2
  <2>4. CategoryTotals(R, m).excluded = SumOf([c \in Category |-> b[c].excluded], Category)
    BY <2>1 DEF CategoryTotals
  <2> QED
    BY <2>3, <2>4
<1>7. Spent(R, A \cup B) = Spent(R, A) + Spent(R, B)
  BY <1>2, SpentApart
<1> QED
  BY <1>2, <1>3, <1>5, <1>6, <1>7

LEMMA OneOffsAgree ==
  ASSUME NEW R, NEW m \in Int
  PROVE  OneOffsSheet(R) \cap InMonth(R, m) =
           Matching(R, [NoFilter EXCEPT !.month = m, !.kind = "excluded"])
             \cup Matching(R, [NoFilter EXCEPT !.month = m, !.kind = "one_off"])
<1>1. OfKind(R, "excluded") = {t \in DOMAIN R : R[t].excluded}
  BY DEF OfKind
<1>2. OfKind(R, "one_off") = {t \in DOMAIN R : R[t].oneOff}
  BY DEF OfKind
<1>3. "excluded" \in Kinds /\ "one_off" \in Kinds
  BY DEF Kinds
<1>4. Matching(R, [NoFilter EXCEPT !.month = m, !.kind = "excluded"])
        = {t \in DOMAIN R : R[t].excluded} \cap InMonth(R, m)
  BY <1>1, <1>3, KindShown
<1>5. Matching(R, [NoFilter EXCEPT !.month = m, !.kind = "one_off"])
        = {t \in DOMAIN R : R[t].oneOff} \cap InMonth(R, m)
  BY <1>2, <1>3, KindShown
<1> QED
  BY <1>4, <1>5 DEF OneOffsSheet

\* What PagesAgreeOnSpending says of a month whose rows are I
Agreement(R, I, m) ==
  LET refunds(c) == {t \in OfCategory(R, I \ Out(R), c) : Budgeted(R[t])}
      unbudgeted == {t \in I \cap OfKind(R, "income") \cap Out(R) :
                       ~R[t].transfer /\ ~R[t].savings /\ ~R[t].excluded}
      spent == [c \in Category |-> SpentOn(R, c, m)]
  IN /\ \A L \in CategoryPace(R, m) :
          LET listed  == SumOf(spent, L) + Spent(R, unbudgeted)
              outflow == TransactionSummary(R, I).outflow
          IN /\ listed <= outflow
             /\ Cardinality({c \in Category : spent[c] > 0}) <= Limit.pace
                  => listed = outflow
     /\ \A c \in Category :
          /\ CategoryBudget(R, c, m).current = spent[c] + Spent(R, refunds(c))
          /\ LET sheet == AveragesSheet(R, c, m)
             IN sheet.current + sheet.excluded =
                  Spent(R, Matching(R, [NoFilter EXCEPT !.month = m, !.category = c]))
     /\ SumOf([c \in Category |-> CategoryBudget(R, c, m).current], Category)
           + CategoryTotals(R, m).excluded = Spent(R, I)
     /\ OneOffsSheet(R) \cap I =
          Matching(R, [NoFilter EXCEPT !.month = m, !.kind = "excluded"])
            \cup Matching(R, [NoFilter EXCEPT !.month = m, !.kind = "one_off"])

\* The categories the dashboard lists have no more than all have, and all of it
\* unless there are more than it lists.
LEMMA PaceListed ==
  ASSUME NEW R, RowsOK(R), NEW m, NEW L \in CategoryPace(R, m), NEW spent,
         spent = [c \in Category |-> SpentOn(R, c, m)]
  PROVE  /\ SumOf(spent, L) \in Nat /\ SumOf(spent, Category) \in Nat
         /\ SumOf(spent, L) <= SumOf(spent, Category)
         /\ Cardinality({c \in Category : spent[c] > 0}) <= Limit.pace
              => SumOf(spent, L) = SumOf(spent, Category)
<1>1. PICK S : S = {c \in Category : spent[c] > 0}
  OBVIOUS
<1>2. L \in Limited(S, MostSpent(spent), Limit.pace)
  BY <1>1 DEF CategoryPace
<1>3. IsFiniteSet(Category) /\ S \subseteq Category /\ IsFiniteSet(S) /\ IsFiniteSet(Category \ S)
      /\ Limit.pace \in Nat
  BY <1>1, FiguresAssumption, FS_Subset
<1>4. L \subseteq S /\ IsFiniteSet(L) /\ (Cardinality(S) <= Limit.pace => L = S)
  BY <1>2, <1>3, ListIs
<1>5. ASSUME NEW c \in Category PROVE spent[c] \in Nat
  <2>1. PICK B : B = {t \in OfCategory(R, InMonth(R, m) \cap Out(R), c) : Budgeted(R[t])}
    OBVIOUS
  <2>2. B \in SUBSET DOMAIN R
    BY <2>1 DEF OfCategory, InMonth, InMonths
  <2>3. spent[c] = Spent(R, B)
    BY <2>1 DEF SpentOn
  <2> QED
    BY <2>2, <2>3, SpentIsSum
<1>6. SumOf(spent, L) \in Nat /\ SumOf(spent, Category) \in Nat
  BY <1>3, <1>4, <1>5, SumNatural
<1>7. SumOf(spent, L) <= SumOf(spent, Category)
  BY <1>3, <1>4, <1>5, SumSubset
<1>8. SumOf(spent, S) = SumOf(spent, Category)
  <2>1. \A c \in Category \ S : spent[c] = 0
    BY <1>1, <1>5
  <2>2. SumOf(spent, Category \ S) = 0
    BY <1>3, <2>1, SumZero
  <2>3. Ints(spent, S) /\ Ints(spent, Category \ S)
    BY <1>3, <1>5 DEF Ints
  <2>4. SumOf(spent, S \cup (Category \ S)) = SumOf(spent, S) + SumOf(spent, Category \ S)
    BY <1>3, <2>3, SumUnion
  <2>5. PICK U : U = S \cup (Category \ S)
    OBVIOUS
  <2>6. U = Category
    BY <1>3, <2>5
  <2>7. SumOf(spent, Category) = SumOf(spent, S) + SumOf(spent, Category \ S)
    BY <2>4, <2>5, <2>6
  <2>8. SumOf(spent, S) \in Nat
    BY <1>3, <1>5, SumNatural
  <2> QED
    BY <2>2, <2>7, <2>8
<1> QED
  BY <1>1, <1>4, <1>6, <1>7, <1>8

LEMMA PagesAgree ==
  ASSUME NEW R, RowsOK(R), NEW m \in Int PROVE Agreement(R, InMonth(R, m), m)
<1>1. ASSUME NEW c \in Category
      PROVE  AveragesSheet(R, c, m).current + AveragesSheet(R, c, m).excluded =
               Spent(R, Matching(R, [NoFilter EXCEPT !.month = m, !.category = c]))
  <2>1. Matching(R, [NoFilter EXCEPT !.month = m, !.category = c])
          = OfCategory(R, InMonth(R, m), c)
    BY CategoryShown
  <2>2. AveragesSheet(R, c, m).current + AveragesSheet(R, c, m).excluded
          = Spent(R, OfCategory(R, InMonth(R, m), c))
    BY SheetAgrees
  <2> QED
    BY <2>1, <2>2
<1>2. PICK spent : spent = [c \in Category |-> SpentOn(R, c, m)]
  OBVIOUS
<1>2a. ASSUME NEW c \in Category
       PROVE  CategoryBudget(R, c, m).current =
                spent[c]
                  + Spent(R, {t \in OfCategory(R, InMonth(R, m) \ Out(R), c) : Budgeted(R[t])})
  BY <1>2, RefundsAgree
<1>3. PICK U : U = {t \in InMonth(R, m) \cap OfKind(R, "income") \cap Out(R) :
                      ~R[t].transfer /\ ~R[t].savings /\ ~R[t].excluded}
  OBVIOUS
<1>3a. TransactionSummary(R, InMonth(R, m)).outflow = SumOf(spent, Category) + Spent(R, U)
  BY <1>2, <1>3, OutflowAgrees
<1>3b. ASSUME NEW L \in CategoryPace(R, m)
       PROVE  LET listed  == SumOf(spent, L) + Spent(R, U)
                  outflow == TransactionSummary(R, InMonth(R, m)).outflow
              IN /\ listed <= outflow
                 /\ Cardinality({c \in Category : spent[c] > 0}) <= Limit.pace
                      => listed = outflow
  <2>1. /\ SumOf(spent, L) \in Nat /\ SumOf(spent, Category) \in Nat
        /\ SumOf(spent, L) <= SumOf(spent, Category)
        /\ Cardinality({c \in Category : spent[c] > 0}) <= Limit.pace
             => SumOf(spent, L) = SumOf(spent, Category)
    BY <1>2, PaceListed
  <2>2. U \in SUBSET DOMAIN R
    BY <1>3 DEF InMonth, InMonths
  <2>3. Spent(R, U) \in Nat
    BY <2>2, SpentIsSum
  <2> QED
    BY <1>3a, <2>1, <2>3
<1>4. SumOf([c \in Category |-> CategoryBudget(R, c, m).current], Category)
        + CategoryTotals(R, m).excluded = Spent(R, InMonth(R, m))
  BY AmountsOnce
<1>5. OneOffsSheet(R) \cap InMonth(R, m) =
        Matching(R, [NoFilter EXCEPT !.month = m, !.kind = "excluded"])
          \cup Matching(R, [NoFilter EXCEPT !.month = m, !.kind = "one_off"])
  BY OneOffsAgree
<1> QED
  BY <1>1, <1>2, <1>2a, <1>3, <1>3b, <1>4, <1>5 DEF Agreement

\* The transaction workspace, the dashboard, the categories page and the workbook
\* agree on what was spent in a month, whatever rows there are
\* (readTransactionSummary, readCategoryPace, listCategoryBudgets,
\* writeCategoryAveragesSheet, writeExcludedOneOffsSheet).
THEOREM SpendingAgrees == Spec => []PagesAgreeOnSpending
<1>1. ASSUME RowsOK(db.rows) PROVE PagesAgreeOnSpending
  <2>1. ASSUME NEW m \in Month
        PROVE  Agreement(db.rows, Matching(db.rows, [NoFilter EXCEPT !.month = m]), m)
    <3>1. m \in Int
      BY DEF Month
    <3> QED
      BY <1>1, <3>1, PagesAgree, MonthShown
  <2> QED
    BY <2>1 DEF PagesAgreeOnSpending, Agreement
<1>2. All => PagesAgreeOnSpending
  BY <1>1 DEF All, FInv, TablesOK
<1> QED
  BY <1>2, AllInvariant, PTL

------------------------------------------------------------------------------
(* The pages on the newest forecast *)

\* Nothing is stored for a month to come: the newest month is the one going on.
LEMMA NewestMonth ==
  ASSUME All, settled
  PROVE  LET months == {m \in DOMAIN forecasts : forecasts[m] # Null}
         IN /\ months # {} /\ Max(months) = MonthOf(today)
            /\ forecasts[MonthOf(today)] = ForecastOf(Readings(db, today), today)
            /\ forecasts[MonthOf(today)] \in Forecasts
            /\ updated = MonthOf(today) /\ MonthOf(today) \in Month
<1>1. /\ updated = MonthOf(today)
      /\ forecasts[MonthOf(today)] = ForecastOf(Readings(db, today), today)
      /\ DOMAIN forecasts = Month
  BY DEF All, IInv, SettledForecastIsCurrent, MonthsThere
<1>2. MonthOf(today) \in Month /\ MonthOf(today) \in Int
  BY DayTyped DEF All, IInv
<1>3. forecasts[MonthOf(today)] # Null
  <2>1. PICK r : r = Readings(db, today)
    OBVIOUS
  <2>2. SeenOK(First(r))
    BY <2>1, FirstSeen DEF All, FInv
  <2>3. r \in Answers(First(r))
    <3>1. r = [balance |-> r.balance, settings |-> r.settings, totals |-> r.totals,
               recurring |-> r.recurring, manual |-> r.manual, reviews |-> r.reviews,
               synced |-> r.synced]
      BY <2>1, ReadingsFields
    <3>2. PICK p : p = <<r.recurring, r.manual>>
      OBVIOUS
    <3>3. /\ First(r).balance = {r.balance} /\ First(r).settings = {r.settings}
          /\ First(r).totals = {r.totals} /\ First(r).upcoming = {p}
          /\ First(r).reviews = {r.reviews} /\ First(r).synced = {r.synced}
      BY <3>2 DEF First
    <3>4. /\ r.balance \in First(r).balance /\ r.settings \in First(r).settings
          /\ r.totals \in First(r).totals /\ p \in First(r).upcoming
          /\ r.reviews \in First(r).reviews /\ r.synced \in First(r).synced
      BY <3>3
    <3>5. r = [balance |-> r.balance, settings |-> r.settings, totals |-> r.totals,
               recurring |-> p[1], manual |-> p[2], reviews |-> r.reviews,
               synced |-> r.synced]
      BY <3>1, <3>2
    <3> QED
      BY <3>4, <3>5 DEF Answers
  <2>4. ForecastOf(r, today) \in Forecasts
    BY <2>2, <2>3, ForecastTyped DEF All, IInv
  <2> QED
    BY <1>1, <2>1, <2>4, ForecastAssumption
<1>4. PICK M : M = {m \in DOMAIN forecasts : forecasts[m] # Null}
  OBVIOUS
<1>5. MonthOf(today) \in M /\ \A m \in M : m \in Int /\ m <= MonthOf(today)
  BY <1>1, <1>2, <1>3, <1>4 DEF All, FInv, ForecastsOK, Month
<1>6. Max(M) \in M /\ \A m \in M : Max(M) >= m
  <2>1. \E x \in M : \A y \in M : x >= y
    BY <1>5
  <2> QED
    BY <2>1 DEF Max
<1>7. Max(M) = MonthOf(today)
  BY <1>5, <1>6
<1>8. forecasts[MonthOf(today)] \in Forecasts
  BY <1>2, <1>3 DEF All, FInv, ForecastsOK
<1> QED
  BY <1>1, <1>2, <1>4, <1>5, <1>7, <1>8

\* The dashboard then shows the month's forecast, its figures calculated anew.
LEMMA DashboardShows ==
  ASSUME All, settled, db.balance # Null
  PROVE  LET shown == Dashboard(db.rows, db.series, forecasts, db.balance, today)
             f     == forecasts[MonthOf(today)]
             n     == ReviewCount(db.rows, InMonth(db.rows, MonthOf(today)))
         IN /\ shown.month = MonthOf(today) /\ shown.safe = f.safe
            /\ shown.perDay = f.perDay /\ shown.projected = f.projected
            /\ shown.perDay = shown.safe \div DaysLeft(today)
            /\ shown.upcoming = UpcomingFixedCosts(db.series)
            /\ shown.note = ConfidenceNote(f.confidence, n)
            /\ shown.blockers = ReviewBlockers(db.rows, MonthOf(today))
            /\ shown.impact = ReviewImpact(db.rows, MonthOf(today))
<1>1. PICK m, f, r, n :
        /\ m = MonthOf(today) /\ f = forecasts[m] /\ r = Readings(db, today)
        /\ n = ReviewCount(db.rows, InMonth(db.rows, m))
  OBVIOUS
<1>2. PICK M : M = {x \in DOMAIN forecasts : forecasts[x] # Null}
  OBVIOUS
<1>3. M # {} /\ Max(M) = m /\ f = ForecastOf(r, today)
  BY <1>1, <1>2, NewestMonth
<1>4. r.balance = db.balance
  BY <1>1 DEF Readings
<1>5. PICK s : s = SafeToSpend(db.balance, 0, r.recurring + r.manual,
                     PredictedRemaining(r.settings, r.totals.variable, today),
                     r.settings.savings, r.settings.buffer)
  OBVIOUS
<1>6. /\ f.safe = s /\ f.perDay = s \div DaysLeft(today)
      /\ f.projected = s + r.settings.savings
      /\ f.expected = 0 /\ f.upcoming = r.recurring + r.manual
      /\ f.predicted = PredictedRemaining(r.settings, r.totals.variable, today)
      /\ f.savings = r.settings.savings /\ f.buffer = r.settings.buffer
  BY <1>3, <1>4, <1>5 DEF ForecastOf
<1>7. DashboardSafe(f, db.balance) = s
  BY <1>5, <1>6 DEF DashboardSafe
<1>8. PICK shown : shown = Dashboard(db.rows, db.series, forecasts, db.balance, today)
  OBVIOUS
<1>9. /\ shown.month = m /\ shown.safe = s /\ shown.perDay = s \div DaysLeft(today)
      /\ shown.projected = s + f.savings /\ shown.upcoming = UpcomingFixedCosts(db.series)
      /\ shown.note = ConfidenceNote(f.confidence, n)
      /\ shown.blockers = ReviewBlockers(db.rows, m)
      /\ shown.impact = ReviewImpact(db.rows, m)
  BY <1>1, <1>2, <1>3, <1>7, <1>8 DEF Dashboard
<1> QED
  BY <1>1, <1>6, <1>8, <1>9

\* When the last update to store its figures saw no change under way, every page
\* shows that forecast: the dashboard, which calculates anew, the status page, the
\* workbook, the categories page and the settings page (loadDashboard, loadStatus,
\* workbookBuffer, listCategoryBudgets, loadSettings).
THEOREM SettledAgree == Spec => []SettledPagesAgree
<1>1. ASSUME All, settled, db.balance # Null PROVE SettledPagesAgree
  <2>1. PICK m, f, shown :
          /\ m = MonthOf(today) /\ f = forecasts[m]
          /\ shown = Dashboard(db.rows, db.series, forecasts, db.balance, today)
    OBVIOUS
  <2>2. /\ shown.month = m /\ shown.safe = f.safe /\ shown.perDay = f.perDay
        /\ shown.projected = f.projected /\ shown.upcoming = UpcomingFixedCosts(db.series)
    BY <1>1, <2>1, DashboardShows
  <2>3. PICK M : M = {x \in DOMAIN forecasts : forecasts[x] # Null}
    OBVIOUS
  <2>4. /\ M # {} /\ Max(M) = m /\ m \in Month /\ updated = m
        /\ f = ForecastOf(Readings(db, today), today) /\ f \in Forecasts
    BY <1>1, <2>1, <2>3, NewestMonth
  <2>5. f # Null /\ m # Null
    <3>1. m \in Int
      BY <2>4 DEF Month
    <3> QED
      BY <2>4, <3>1, ForecastAssumption, FiguresAssumption
  <2>6. CategoryMonth(forecasts, today) = m
    BY <2>3, <2>4 DEF CategoryMonth
  <2>7. StatusPage(db.rows, forecasts, updated).forecast = f
    BY <2>1, <2>4, <2>5 DEF StatusPage
  <2>8. SummarySheet(forecasts, m).safe = f.safe /\ SummarySheet(forecasts, m).projected = f.projected
    BY <2>1, <2>5 DEF SummarySheet
  <2>9. HistorySheet(db.rows, forecasts)[m].savings = f.projected
    <3>1. m \in M /\ DOMAIN forecasts = Month
      BY <1>1, <2>1, <2>3, <2>4, <2>5 DEF All, IInv, MonthsThere
    <3> QED
      BY <2>1, <2>3, <3>1 DEF HistorySheet
  <2>10. f.savings = SettingsPage(db.settings).savings /\ f.buffer = SettingsPage(db.settings).buffer
    <3>1. f.savings = ForecastSettings(db.settings).savings
          /\ f.buffer = ForecastSettings(db.settings).buffer
      BY <2>4 DEF ForecastOf, Readings
    <3> QED
      BY <3>1 DEF ForecastSettings, SettingsPage
  <2>11. AssumptionsSheet(db.settings) # Null
           => AssumptionsSheet(db.settings) = SettingsPage(db.settings)
    BY DEF AssumptionsSheet, SettingsPage
  <2>12. ASSUME Cardinality(Dated(db.series)) <= Limit.upcoming, NEW L \in shown.upcoming
         PROVE  Upcoming(db.series, today) \subseteq L
    <3>1. IsFiniteSet(Dated(db.series))
      <4>1. IsFiniteSet(DOMAIN db.series)
        BY <1>1 DEF All, FInv, TablesOK, SeriesOK
      <4> QED
        BY <4>1, FS_Subset DEF Dated
    <3>2. PICK before : L \in Limited(Dated(db.series), before, Limit.upcoming)
      BY <2>2, <2>12 DEF UpcomingFixedCosts
    <3>3. L = Dated(db.series)
      BY <2>12, <3>1, <3>2, ListIs, FiguresAssumption
    <3> QED
      BY <3>3 DEF Upcoming, Dated
  <2> QED
    BY <2>1, <2>2, <2>4, <2>6, <2>7, <2>8, <2>9, <2>10, <2>11, <2>12 DEF SettledPagesAgree
<1>2. All => SettledPagesAgree
  BY <1>1 DEF SettledPagesAgree
<1> QED
  BY <1>2, AllInvariant, PTL

\* "Recent sync and no review blockers" is then true: no row of any month waits
\* for a review, the last sync is recent, and reserving the reviews changes nothing
\* (confidenceNote, forecastConfidence, guardrailFor).
THEOREM NoteIsTrue == Spec => []SettledNoteIsTrue
<1> DEFINE shown == Dashboard(db.rows, db.series, forecasts, db.balance, today)
<1>1. ASSUME All, settled, shown # Null, shown.note = "Recent sync and no review blockers"
      PROVE  SettledNoteIsTrue
  <2>1. PICK m, f, x :
          /\ m = MonthOf(today) /\ f = forecasts[m]
          /\ x = Dashboard(db.rows, db.series, forecasts, db.balance, today)
    OBVIOUS
  <2>2. x # Null /\ x.note = "Recent sync and no review blockers"
    BY <1>1, <2>1
  <2>3. db.balance # Null
    BY <2>1, <2>2 DEF Dashboard
  <2>4. /\ x.safe = f.safe /\ x.perDay = x.safe \div DaysLeft(today)
        /\ x.note = ConfidenceNote(f.confidence, ReviewCount(db.rows, InMonth(db.rows, m)))
        /\ x.blockers = ReviewBlockers(db.rows, m) /\ x.impact = ReviewImpact(db.rows, m)
    BY <1>1, <2>1, <2>3, DashboardShows
  <2>5. f = ForecastOf(Readings(db, today), today) /\ f \in Forecasts
    BY <1>1, <2>1, NewestMonth
  <2>6. f.confidence # "low"
    BY <2>2, <2>4 DEF ConfidenceNote
  <2>7. f.confidence = Confidence(ReviewCount(db.rows, DOMAIN db.rows), db.synced, today)
    BY <2>5 DEF ForecastOf, Readings
  <2>8. PICK W : W = {t \in DOMAIN db.rows : db.rows[t].review}
    OBVIOUS
  <2>9. RowsOK(db.rows) /\ W \in SUBSET DOMAIN db.rows
    BY <1>1, <2>8 DEF All, FInv, TablesOK
  <2>10. IsFiniteSet(W) /\ Cardinality(W) \in Nat
    BY <2>9, RowsFinite, FS_CardinalityType
  <2>11. ReviewCount(db.rows, DOMAIN db.rows) = Cardinality(W)
    BY <2>8 DEF ReviewCount
  <2>12. /\ ~(Cardinality(W) > 0) /\ db.synced # Null
         /\ ~(today - db.synced > StaleSyncAfterDays)
    BY <2>6, <2>7, <2>11 DEF Confidence
  <2>13. Cardinality(W) = 0
    BY <2>10, <2>12
  <2>14. W = {}
    BY <2>10, <2>13, FS_EmptySet
  <2>15. today - db.synced <= StaleSyncAfterDays
    <3>1. today \in Day /\ db.synced \in Day
      BY <1>1, <2>12 DEF All, IInv, FInv, TablesOK
    <3>2. today \in Int /\ db.synced \in Int
      BY <3>1, DayTyped
    <3> QED
      BY <2>12, <3>2 DEF StaleSyncAfterDays
  <2>16. StatusPage(db.rows, forecasts, updated).reviews = 0
    BY <2>11, <2>13 DEF StatusPage
  <2>17. \A t \in DOMAIN RawSheet(db.rows) : ~RawSheet(db.rows)[t][3]
    BY <2>8, <2>14 DEF RawSheet
  <2>18. \A L \in x.blockers : L = {}
    BY <2>4, <2>8, <2>14 DEF ReviewBlockers, InMonth, InMonths, Limited
  <2>19. x.impact = 0
    <3>1. {t \in InMonth(db.rows, m) : db.rows[t].review} = {}
      BY <2>8, <2>14 DEF InMonth, InMonths
    <3>2. x.impact = Spent(db.rows, {})
      BY <2>4, <3>1 DEF ReviewImpact
    <3> QED
      BY <3>2, SumEmpty DEF Spent
  <2>20. Guardrail(x, TRUE, today) = Guardrail(x, FALSE, today)
    <3>1. x.safe \in Int
      BY <2>4, <2>5 DEF Forecasts
    <3>2. DaysLeft(today) \in Nat \ {0}
      <4>1. today \in Day
        BY <1>1 DEF All, IInv
      <4>2. today \in Nat \ {0}
        BY <4>1, DayTyped
      <4> QED
        BY <4>2, MonthTyped, FiguresAssumption
    <3>3. x.safe - x.impact = x.safe /\ Max({1, DaysLeft(today)}) = DaysLeft(today)
      BY <2>19, <3>1, <3>2, MaxOfTwo
    <3> QED
      BY <2>4, <3>3 DEF Guardrail
  <2> QED
    BY <2>1, <2>15, <2>16, <2>17, <2>18, <2>20 DEF SettledNoteIsTrue
<1>2. All => SettledNoteIsTrue
  BY <1>1 DEF SettledNoteIsTrue
<1> QED
  BY <1>2, AllInvariant, PTL
=============================================================================
