# Treasuri: models, checks and proofs

Treasuri is a personal-finance web application: it imports bank transactions,
normalizes and classifies them, lets its user review and correct them, and
derives budgets, recurring costs, a forecast and exports.  The current program
is TypeScript (Express, PostgreSQL, the pg-boss job queue, React); `app/`,
`tests/` and `e2e/` hold the superseded Python prototype.  Paths in the
table are below `src/src/server/` unless they say otherwise.

- [1. The system](#1-the-system): components, state, operations, interactions, what makes each correct
- [2. The plan](#2-the-plan): modules, abstract specifications, runs, theorems
- [3. Enrichment](#3-enrichment): model, checks, proofs
- [4. Bank sync](#4-bank-sync): model, checks, proofs
- [5. Exports](#5-exports): model, checks, proofs
- [6. Recurring series](#6-recurring-series): model, checks, proofs
- [7. Forecast and figures](#7-forecast-and-figures): model, checks, proofs
- [8. Web client](#8-web-client): model, checks, proofs
- [9. Sessions](#9-sessions): model, checks, proofs
- [10. What the runs found](#10-what-the-runs-found)
- [11. What is not modelled](#11-what-is-not-modelled)

## 1. The system

Three kinds of process share one PostgreSQL database.  The **web server**
(`src/src/server/http/app.ts`) answers requests, several at once, each on its own
connection.  The **worker** (`src/src/server/worker.ts`) takes jobs from pg-boss
(`sync_now`, `sync_abn_transactions`, `normalize_transactions`,
`classify_transactions`, `detect_recurring`, `update_monthly_forecast`,
`backfill_rule`, `generate_xlsx_export`) and runs them; pg-boss delivers a job at
least once.  The **admin commands** run migrations and load sample data.  The
**web client** keeps a cache of responses. Nothing in the code takes a lock above
the database, and no transaction is SERIALIZABLE: components interact through
committed rows, row locks, unique constraints and queued jobs.

| component | state | operations | must hold |
|---|---|---|---|
| Bank sync (`bank/sync.ts`) | `sync_runs`, `raw_transactions`, `accounts` | begin a run, fetch, import in one transaction, fail a run | nothing half imported; every raw row gets its enriched row; a booking is imported once; a run ends |
| Balance snapshots (`balance/snapshots.ts`) | `account_balance_snapshots` | upsert per account and day | one balance per day, of a completed run |
| Bank providers and cursor (`bank/types.ts`, `bank/fake.ts`, `bank/abn/`) | the key of the last mutation seen, in `sync_runs.metadata_json` | page through mutations from the key of the latest completed run | no mutation is skipped for good |
| ABN protocol (`bank/abn/`) | login session with the bank | soft-token login, field extraction | - |
| Normalization (`transactions/normalize.ts`) | `enriched_transactions` | insert the missing enriched rows | one enriched row per raw row |
| Classification (`classify/`) | `enriched_transactions` | list pending rows, find candidates, update | corrections are left alone; settled work is not redone |
| Review inbox (`review/`) | `enriched_transactions`, `manual_overrides`, `merchants`, `merchant_aliases` | accept, change, exclude; also similar rows; create an alias | the two tables agree; all or nothing; corrections end |
| Transaction workspace (`management/transactions.ts`) | the same | edit one transaction | the same |
| Rules and backfill (`management/rules.ts`) | `categorization_rules`, `merchants` | create, edit, switch, preview, apply to history | manual corrections are left alone |
| Recurring series (`management/recurring.ts`) | `recurring_series`, links and `is_fixed_cost` of rows | detect, confirm, update, disable | what a user disabled or edited stays so |
| Forecast (`forecast/`) | `monthly_forecasts` | six parallel reads, one upsert | figures of one moment; the newest wins |
| Exports (`operations/exportService.ts`) | `export_runs`, `export_files` | request, start, finish, fail | one file per run; a finished run stays finished |
| Jobs (`jobs/`, `worker.ts`, `operations/syncService.ts`) | pg-boss queues | enqueue, run, retry | every enqueued chain is carried on or failed visibly |
| Authentication and sessions (`auth/`) | a session in the memory store: state, verifier, user, CSRF token | login, callback, logout, check of the token | a login ends signed in; nobody takes a token away |
| Sample mode (`management/sample.ts`, routes) | rules, series and inbox in maps, by session | the requests of the pages, on these maps | a session sees its own |
| Migrations (`db/migrations.ts`) | `schema_migrations` | apply the missing ones | applied versions are a prefix; each once |
| Categories, dashboard, workbook, settings, status | - (read, or write one row) | budget status, summaries, sheets | pages that sum the same rows agree |
| Web client (`src/client`) | response cache, selection, drafts | fetch, type, mutate, invalidate | what is sent, shown and typed belongs to the selected item; what is shown is refetched |
| Service worker (`public/`) | cache of the shell; the last summary in localStorage | install, fetch, fall back | offline, the last summary is shown |
| Schema (`migrations/`) | constraints | - | unique keys the code relies on |

The hard behaviours are, in order of what goes wrong if they are:

1. jobs read a list and write it back row by row while users correct the same rows;
2. a bulk correction, another one, and a backfill lock the same rows in different orders;
3. a statement that waits for a row lock goes on with what it decided before it waited;
4. a sync is a network conversation between two database transactions, and may stop anywhere;
5. at-least-once jobs that change state outside a transaction;
6. derived figures computed from several separate reads, and shown by pages that compute them again;
7. answers, background fetches and what the user does meanwhile, on one page;
8. requests that each write back the copy of a session they loaded.

`PROJECT.json` lists them as hazards, each at its line.

## 2. The plan

| order | module | models | abstract specification | theorems |
|---|---|---|---|---|
| 1 | `Enrichment` (done) | rows and everything that writes them | - | type, locks, the two tables agree, settled corrections stand, aliases are unique |
| 2 | `BankSync`, `BankLedger` (done) | one account's sync runs, cursor, paging, imports, normalization, snapshots | `BankLedger`: the bookings imported are a beginning of the bank's list | type, refinement, imports leave all of their traces or none, counts of new bookings add up |
| 3 | `ExportRuns`, `ExportLife` (done) | export runs, deliveries, files | `ExportLife`: tried until completed, then at rest with one file | type, refinement, done jobs have files |
| 4 | `Recurring` (done) | detection, confirmation, editing, disabling, concurrent detections | - | type, confirmations stand, disabling frees every row, a disabled series rests |
| 5 | `Figures`, `Forecast`, `Sums` (done) | what every page and sheet computes and lists; updates of the forecast beside everything that changes its tables | the forecast is a function of one state (`ForecastOf` of `Readings`) | type, a settled forecast is current, the pages agree on it and its note is true, past months rest, the pages agree on spending and recurring rows |
| 6 | `Client` (done) | one page: cache, fetch, selection, form, requests | - | type, requests carry their item's draft, own changes are shown, corrected reviews stay away, what is typed stays |
| 7 | `Sessions` (done) | copies of sessions, sign-in, tokens, sample data | - | type, logins end signed in, what requests know of a session stays, sample data are the session's own |
| 8 | left | migrations, service worker | - | see section 11 |

`Forecast` composes the abstract forms of 1, 2 and 4: a sync, a classification, a
rule's backfill, a correction and the user's decisions are each one commit there,
a detection is the three steps others may come between.  The `sync_now` job runs
sync, classification, detection and update one after the other; it is one order of
these steps, so it has no module of its own.

A module uses no RECURSIVE operator unless only TLC's runs use it.
`Sums` has the sum over a finite set, for `Forecast` and `BankSync`, and
`Sums_proofs` what their proofs need of it (section 7).
Each component has one module (`X.tla`), a module for TLC (`MCX.tla`) with one
`MCX<Run>.cfg` per run, and its theorems in `X_proofs.tla`.  In a module, a
definition commented *Variant* is a bug the code does not have; nothing uses it.
`PROJECT.json` lists which property each variant breaks, and maps every other
definition to the lines it models.

## 3. Enrichment

### Model

| variable | in the program |
|---|---|
| `row`, `override` | committed rows of `enriched_transactions` and `manual_overrides` |
| `lock` | PostgreSQL's lock on a row and its override |
| `rules`, `defaultCategory`, `aliases` | `categorization_rules`, `merchants.default_category_id`, `merchant_aliases` |
| `jobs` | `backfill_rule` jobs waiting in or held by pg-boss |
| `review`, `classify`, `backfill`, `edit` | transactions, jobs and rule saves in progress, at the statement they have reached |

A correction (`applyReviewAction`, `updateTransaction`) is `BeginReview`, for
similar rows `ReadSimilar`, one `OverrideRow` for each row in the order of the
query, and `CommitReview` or `AbortReview`.  What it has written stays in its own
state until the commit, as at READ COMMITTED nobody else sees it.  The classify
job is `StartClassify`, then for each row `FindRule`, `FindMerchantAlias`,
`FindHistory` and `WriteClassification`, each a statement of its own with no
transaction around them.  A backfill is `StartBackfill`, `PreviewRule`,
`BeginBackfillUpdate` (which decides on its rows), `LockBackfillRow` for each of
them in an order the query leaves open, and `CommitBackfill`; pg-boss retries a
failed one.  `Deadlocked` is PostgreSQL's deadlock detector: a transaction of a
cycle of waits is rolled back.

Abstractions.  A rule's condition is the set of texts it matches, and `live` says
whether its field and operator are among the pairs the classify query knows.  The
flags a user or a rule sets are handled alike in the code and are one boolean.
The history query takes the row updated last; `updated_at` is the time a
transaction began, so any reviewed row of the text may be that one.  The two
statements of `setManualOverride` follow each other on rows only its transaction
holds and are one step.  `POST /api/rules/:id/apply` reads twice and sends a job;
as the backfill reads everything again, it is one step.

### Runs

| run | processes | shows |
|---|---|---|
| `enrichment_jobs` | one correction at a time, an edit of a row or a quick exclude of both; a classify run, a backfill, a rule editor | `TypeOK`, `LocksHeld`; `ManualRowsMatchOverrides`: a row that says it was reviewed manually shows what its override records; `SettledOverrideStands`: a correction that no job in progress had in its list stands for good |
| `enrichment_reviews` | two bulk corrections, each either one that names the merchant and adds an alias or a quick exclude without a merchant; a backfill of a rule already saved | `AliasesUnique`; `ReviewsEnd` although any two may wait for each other's rows |

Two transactions are what a bulk correction, a lock cycle and a stale list need.
They have one text, and `Similar` is equality of texts, so each is similar to the
other and a bulk correction of either takes in both.  In `enrichment_jobs` one
correction at a time meets the jobs; in `enrichment_reviews` two meet each other.
Two corrections that name the merchant wait for each other at its row and never
overlap further, which is what `AliasesUnique` rests on; a correction that names
it and a quick exclude, or two quick excludes, start at their own targets and lock
the other's row next, the cycle of waits `ReviewsEnd` is about.  The run begins
with the rows imported and the rule saved (`ImportedInit`), which imports and an
editor lead to.  The rule of `enrichment_reviews` is one the classifier does not
know (`live` is false), that of `enrichment_jobs` one it does. One rule, saved,
switched and applied any number of times, gives every order of rule, backfill and
correction; one backfill may be repeated because its job stays queued.  No counter
is bounded: the state space is finite, and the systems never stop, so deadlock is
checked in all of them.

Fairness (`FairSpec`): a transaction, run or backfill that has begun is carried
on whenever it can be (`SF`).  The code awaits each statement and goes on with
the next, and PostgreSQL's lock queues are first come, first served, so a step
that is possible again and again is not starved.  Nothing is assumed of users:
beginning, failing and stopping are never fair.

### Proofs

`Enrichment_proofs` has five theorems, for any transactions, texts, categories,
rules, requests and processes that satisfy `EnrichmentAssumption`.

- `TypeCorrect` ([]`TypeOK`), `LocksAreHeld` ([]`LocksHeld`).  The invariant is
  `IInv`: `TypeOK`, `LocksHeld` and what is known of work in progress - a
  correction has a request and a target that is a row (`ReviewsKnown`), a
  classify run and a backfill have only rows in their lists (`ClassifyKnown`,
  `BackfillsKnown`).  Without these a commit could write to a row that is not there.
- `RowsMatchOverrides` ([]`ManualRowsMatchOverrides`).  `RowMoves` classifies
  every step by what it does to one row; only a correction's commit makes a row
  manual, and it writes the override with it.
- `SettledStands` (`SettledOverrideStands`).  A job takes a row into its list
  only without an override (`OutOfReachStep`) and a row outside of every list is
  changed by corrections alone (`PinnedStep`).

- `AliasesOnce` ([]`AliasesUnique`).  `AInv`: a merchant has one correction in
  progress at a time (`MerchantAlone`: it holds the merchant's row until it ends),
  and the alias that it is about to add is its merchant's and still absent
  (`AliasesNew`), so none of the table's checks is stale when it is used.

`ReviewsEnd` is liveness and stays with TLC.

## 4. Bank sync

### Model

| variable | in the program |
|---|---|
| `posted`, `version` | the bank (external): how long its list is, and how often each booking was changed |
| `raw`, `enriched` | committed rows of `raw_transactions`, and which of them have an enriched row |
| `snapshot` | `account_balance_snapshots`: after which booking the balance of each day was taken, and by which run |
| `runs`, `clock` | `sync_runs`; the time PostgreSQL's `now()` gives a transaction |
| `account` | the lock on the account's row, which the first upsert of an import takes |
| `sync` | syncs in progress, with what their transaction has written |

A sync is `ReadCursor` (`createDefaultBankProviderForSync`), `StartRun`, one
`FetchPage` for each request (`AbnClient.fetchMutations`), `Begin`, one
`ImportMutation` for each mutation, and `Commit`, which includes normalization
and the run's completion; or `FailFetch`, `Rollback` or `RefuseMutation` (the
unique index on the provider id) and then `RecordFailure`.  `Stop` is a server
that stops: PostgreSQL rolls back and the run stays `running`.

Assumptions about the bank, as `AbnClient` uses it: its list only grows, a key
means "after this booking", it may withhold a key or void the cursor
(`clearCacheIndicator`), and it may change the contents of a booking.  `Version`
numbers contents the source hash tells apart; `HasBalance` are the bookings that
come with a balance, the others record none.  There is one account, the one the
environment names.  The fake provider is the same import of a fixed list and has
no cursor.  `normalize_transactions` on its own never finds a raw row without an
enriched one (`ImportsAreWhole`), so it has no action of its own.  A failing
`startSyncRun` leaves nothing behind and is not an action.

### Runs

| run | shows |
|---|---|
| `banksync_overlap` | two syncs at a time, two runs, three bookings, a changed one, lost cursors: `TypeOK`, `ImportsAreWhole`, `NewCountsAddUp`, `ImportsWithoutGap`, the refinement of `BankLedger`, and `SyncsEnd`: a sync ends also when it waits for another's import or is refused |

Of the three bookings the second has no balance after it.  Three bookings with
pages of one and two pages for each sync make a sync stop in the middle of the
list, the next one continue, and two overlap by one page.  Two bookings of one day
and one of the next make balances of one day compete. `MaxRuns` bounds the runs; a
system that has used them up stops, hence `CHECK_DEADLOCK FALSE`.

Fairness: `SF` of the steps of a sync that has begun.  A request to the bank is
answered or fails, and waiters for the account's lock get it in turn.  Stops and
failures are possible at any time and never required.

### Proofs

`BankSync_proofs`, for any list, page size, page limit, number of syncs and runs:

- `TypeCorrect`: []`TypeOK`, with `KeysPosted` (no key lies beyond the list),
  without which a page would not be a sequence.
- `ImportsRefineLedger`: `Spec => ImportsWithoutGap`.  The invariant adds that
  the bookings imported are 1..n (`Gapless`), that the cursor of every completed
  run lies within them (`RunsCovered`), and that what a sync has fetched follows
  its own cursor without a gap (`SyncsFollow`).  The first alone is not
  inductive: an import beyond a gap is prevented only by where its cursor came from.
- `ImportsWhole`: []`ImportsAreWhole`.  It needs that a run is written to only by
  the sync that began it (`OwnRuns`, `DistinctRuns`) and that a transaction holds
  balances only of bookings it stores (`BalancesTaken`).

- `CountsAddUp`: []`NewCountsAddUp`.  `CInv` adds that a transaction with rows
  of its own holds the account's lock, and none of them is stored yet (`Exclusive`),
  and that the run of a sync in progress has counted nothing (`NoneYet`).  The
  lock is what makes it true: two syncs that fetched the same bookings take turns,
  so the second one's upserts find the first one's rows.  The sums are compared
  with `SumRemove` and `SumAdd` of `Sums_proofs`.

`SyncsEnd` is liveness and stays with TLC.

## 5. Exports

### Model

`runs` and `files` are `export_runs` and the number of `export_files` of each;
`jobs` is pg-boss's queue; `request` holds requests between their two steps
(`CreatePending`, then `Enqueue` or `FailEnqueue`); `attempt` holds attempts
under way: `Start` (`startPendingExportRun`), `Build` (`workbookBuffer`), `Store`
(one transaction), or `FailAttempt` and `RecordFailure`, and then `Report`, in
which the worker tells pg-boss.  pg-boss is external: a job has its first
delivery and its retries (`MaxDeliveries`), is delivered again when an attempt
throws or its worker stops, and, if `Outlives` allows it, when an attempt exceeds
the job's expiry.  Nothing cancels that attempt; it goes on, and its outcome no
longer counts.  A stop and the expiry that follows it are one step.

### Runs

| run | shows |
|---|---|
| `exports_redelivered` | three runs, two attempts at a time, three deliveries, no attempt outlives its delivery: `ExportsKeepToTheirLife`, the refinement of `ExportLife` |
| `exports_outlived` | attempts may outlive their deliveries: `TypeOK`, `DoneJobsHaveFiles`, and `JobsEnd`: every job is done or given up |

Three deliveries are pg-boss's default (two retries).  Two attempts at a time are
enough for one to work on the other's run.  `MaxRuns` bounds the requests, hence
`CHECK_DEADLOCK FALSE`.  Requests are alike and so are attempts, so
`exports_redelivered` uses symmetry; `exports_outlived` has liveness and does not.

Fairness: the worker polls its queue (`WF` of a delivery) and an attempt's
queries are answered or fail (`WF` of its steps).

### Proofs

`ExportRuns_proofs`, for any number of requests, attempts, runs and deliveries:

- `TypeCorrect`: []`TypeOK`, with `WaitingLeft` (a waiting job has deliveries
  left), `RunsKnown` and `AttemptsKnown`.
- `DoneJobs`: []`DoneJobsHaveFiles`, also when attempts outlive their deliveries.
  `StoredFirst` is needed: an attempt about to report success has stored its file.
- `ExportsRefineLife`: if `Outlives` is false, `Spec => ExportsKeepToTheirLife`.
  The invariant says that attempts hold active jobs, one each (`Holding`,
  `OneAttempt`), that a run is named by one job or by one request about to send
  it (`OneJob`, `OneRequest`), and hence that a run an attempt has started is
  still running (`RunningRuns`).  With overlapping attempts it is false: only
  `startPendingExportRun` looks at the run's status, so an attempt that outlived
  its delivery may add a second file to a completed run, or make it failed.

## 6. Recurring series

### Model

| variable | in the program |
|---|---|
| `row` | committed rows of `enriched_transactions`: payee, category, series |
| `series` | committed rows of `recurring_series` |
| `work` | detections and disabling requests in progress, with what they have written |

A detection (`detectRecurringCandidates`) is one transaction: `Detect`
(`findMonthlyCandidates`), for each candidate `SelectSeries`, then `InsertSeries`
or `UpdateSeries` (`upsertRecurringSeries`), one `LinkRow` for each of its rows
(`linkRecurringTransactions`), and `Commit`.  A disabling request is `Disable`,
`ListLinked`, one `FreeRow` for each row, and `Commit`.  Candidates and rows are
taken in any order, as no query orders them.  `Rollback` is an error or a stop
anywhere, `BreakDeadlock` PostgreSQL's answer to a cycle of waits.  `Confirm` and
`Update` are single statements; `Recategorize` is what corrections and
classifications do to a row (Enrichment), which here is a step of its own: a
cycle of waits between a correction and a detection is not modelled.

Abstractions.  Amount, day, next date and category of a series are one mark: of
the last detection, or typed by the user.  A candidate is a payee and a category
with rows in two months.  Ids of rolled back INSERTs are used again, as nothing
refers to them.  `MaxSeries` bounds the ids; an INSERT without one fails, which
is one of the errors a detection has to survive, so the system never stops.
The amounts and dates of a series, and the forecast, are in `Forecast` (section 7).

### Runs

`recurring`: two detections and a disabling request at a time, two rows of one
payee in two months, two series.  `TypeOK` (no series is confirmed and disabled
at once, also when a confirmation or an edit waited for the request that disabled
it), `DisableFreesRows`, `DisabledSeriesRest`, `ConfirmationsStand`, and
`WorkEnds`: all three end although they may wait for each other.  Two rows are
what a cycle of waits needs; two series let a detection begin a new one after the
first was disabled.  One payee makes all detections compete for one name; two
candidates in one detection, and renaming, are not in this instance but in the
proofs, which hold for any names.

`DisableFreesRows` and `DisabledSeriesRest` speak of series that no detection in
progress has chosen (`OutOfReach`).  A detection that chose the series before it
was disabled links its rows to it afterwards: `UpdateSeries` and `LinkRow` ask
only for ids.  The list of series shows active ones only and no document says
what should become of such rows, so this is a hazard and not a finding; that
nothing else brings rows under a disabled series is `RecurringPagesAgree` (section 7).

Fairness: `SF` of the steps of a transaction that has begun, as for Enrichment.
Users' decisions, errors and stops are never required.

### Proofs

`Recurring_proofs`, for any transactions, names, categories, detections,
disabling requests and number of series.  The invariant `IInv` is `TypeOK` and
what is known of work in progress: a detection links rows only to series it has
written itself and keeps their state as committed (`DetectionKnown`), a disabling
request has every row of its series on its list or freed (`DisablingKnown`), and
two transactions never have written the same series (`WritesApart`) - otherwise a
detection could commit a version of a series older than the user's decision.

- `TypeCorrect`: []`TypeOK`; a row's link to a series that is not there is what the
  schema's foreign key refuses in any case, a confirmed disabled series is not.
- `ConfirmationsHold`: by `SeriesMove`, which says what a step can do to a series.
- `DisablingFrees`: only the commit of a disabling request makes a series
  inactive, and `DisablingKnown` gives it all rows of the series.
- `DisabledRest`: `StaysOutOfReach` (a detection selects active series only, and
  inserts with unused ids) with `SeriesMove` and `RowMove`.

`WorkEnds` is liveness and stays with TLC.

## 7. Forecast and figures

### Model

`Figures` has no variables: it has one operator for each SELECT or calculation of
the forecast (`forecast/`), the dashboard, the categories page, the transaction
summary, the status, settings and recurring pages and the sheets of the
workbook, on the rows of `enriched_transactions`.  `Forecast` has the tables and
what changes them.

| variable | in the program |
|---|---|
| `db` | committed rows, series, settings, newest balance, day of the last completed sync |
| `today` | the date |
| `forecasts`, `updated` | `monthly_forecasts`; which row was written last |
| `up` | `updateMonthlyForecast` calls in progress |
| `found` | `detectRecurringCandidates` calls in progress: what they found and chose |
| `caught` | history: series disabled when a detection had chosen them |
| `settled` | history: the last update saw the tables and the day as they are now |
| `changes` | history: the number of changes |

An update (`Begin`, `Store`, or `Fail`) sends six queries in parallel, each on a
connection of its own, and stores the forecast when all have returned.  So
`up[u].seen` keeps for each query the answers it may get: whatever the tables
gave at any moment since the update began.  `Store` picks any combination
(`Answers`).  The two queries of `fixedCostsUpcomingTotal` follow each other, so
their answers are pairs in order.  The tables change by `Sync`, `Classify`,
`Backfill`, `Detect`, `Correct`, `ConfirmSeries`, `UpdateSeries`, `DisableSeries`
and `SaveSettings`, each with the flags the code sets and those it leaves:
a detection makes rows fixed and recurring, disabling only makes them not
recurring, a rule never changes `is_variable_cost`, a correction never
`is_fixed_cost`.

A detection reads its rows (`Look`), selects an active series (`Choose`) and writes
(`Detect`): updates the series by its id alone, whatever became of it meanwhile, or
inserts one, and links the rows.  `FailDetection` is an error or a stop.  What a
detection has written stays locked until it commits, so nobody comes between its
writes and they are one step; Recurring has them one by one.

A list that ORDER BY and LIMIT cut short is the set of what may be in it
(`Limited`): of rows or series that tie, any may be listed.  `Limit` has the limits
of the dashboard's upcoming costs (3), category pace (8), review blockers (4),
recent transactions (6) and top categories (3), and of the rows of a series on the
recurring page (6); they are constants, so that the runs have lists that are full.

Abstractions.  Amounts are whole numbers: rounding to cents is left out, a
division is one of integers.  A month has `DaysInMonth` days.  Text filters are
left out.  Steps that Enrichment takes apart are single commits here: a forecast's
queries see only committed rows.  Of a detection's transaction there is one payee,
whose bookings are any that satisfy the query; the detections of several payees
are several detections.  The rows a rule matches are any.

### Runs

| run | shows |
|---|---|
| `forecast` | two updates at a time, two changes, three bookings, a month of three days that ends, two confirmed series: `TypeOK`; `SettledForecastIsCurrent`; `SettledPagesAgree` and `SettledNoteIsTrue`: then dashboard, status, settings, workbook and categories page agree, the dashboard lists every series they count unless more have a date than it lists, and the note "Recent sync and no review blockers" is true; `PastForecastsRest` |
| `figures` | no updates, a detection at a time, four changes, four bookings: `SpendingIsForecast`, `PagesAgreeOnSpending`, `RecurringPagesAgree` |

Two changes are what a mixture of moments needs (one before, one after a query),
and two updates let an older one store last.  The fourth day is the first of the
next month, so an update may store into a month that is over.  A series that is
confirmed, and so counted, is three changes away from empty tables, and two are
more: `forecast` begins with two of them, after six changes of the eight it may
have (`ConfirmedInit`; the path to it is in its comment), with a payment in each
month.  One is due and the other is not, both have a date; a change may take a
date away, disable one or move it into the month.

`figures` begins with nothing.  A sync, a detection, a disabling and a correction
or a rule are four changes; `Look` and `Choose` change no table and are not
counted, so a disabling may come between them and `Detect`.  The bookings are a
payment in the first month, two and a refund in the second.  Every limit is 1, so
that two categories with spending are more than the dashboard lists, two rows more
than a series shows, and two dated series more than are upcoming; the theorems
below are for any limits, those of the source among them.  `MaxChanges` bounds the
changes; the run with updates may always begin another, so deadlock is checked
there, and the other stops.  There is
no fairness, as there is no liveness: a forecast that nobody updates is never
brought up to date, and no document says it should be.

`settled` is needed: a forecast whose update saw a change under way may mix
figures of two moments, and one whose tables changed later is out of date until
the next update.  The properties say what the code promises beyond that: nothing
of an earlier, torn or overtaken update is left once an undisturbed one has stored.

### Proofs

`Forecast_proofs`, for any bookings, amounts, series, forms, updates and days and
any finite set of categories that satisfy `FiguresAssumption`, `ForecastAssumption` and
`FormsAssumption` (the types of what the pages may send; savings and buffer may be
any numbers, as the server does not ask for a sign).

- `SettledIsCurrent` ([]`SettledForecastIsCurrent`).  The invariant `IInv` says
  of each update (`Updating`) that its month is there, and that one still
  undisturbed has seen exactly what the tables give now; then `Answers` has one
  member (`SingleAnswer`), and `Store` writes it.  Every commit is a `Change`
  (`CommitsChange`), which disturbs all updates.
- `PastRests` (`PastForecastsRest`): `Store` writes the month the update began in
  (`Overwritten`).
- `RecurringAgree` ([]`RecurringPagesAgree`).  The invariant `RInv` says that a row
  is under one series at most (`SeriesApart`); that rows marked recurring are
  those under one (`Linking`); that a series that is not active has rows only when
  a detection had chosen it before it was disabled (`Rested`); and that what a
  detection in progress has chosen is active, or `caught` (`IsDetection`).  Each
  commit and each step of a detection keeps it.  `ListIs` says what may be in a
  list that is not cut short: all there is.

- `TypeCorrect` ([]`TypeOK`).  `FInv`: each row is in order (`RowOK`), which every
  commit keeps (`Commits`), and so is what each query of an update may have seen;
  the figures made of them are integers, of whatever moments they are.
- `SpendingForecast` ([]`SpendingIsForecast`): `RowOK` says that no commit leaves a
  row that counts as spending neither fixed nor variable, so each row the dashboard
  counts is in one of the forecast's totals; then the sums compare
  (`PaceSum`, `SpentCovered`, by `SumOfGroups` and `SumSubset`).
- `SpendingAgrees` ([]`PagesAgreeOnSpending`): what a page groups by category and
  another does not is one partition of the month's rows (`SumOfGroups`, `SumUnion`); what the
  dashboard lists is part of it, and all of it when no category is cut off
  (`PaceListed`).
- `SettledAgree` ([]`SettledPagesAgree`), `NoteIsTrue` ([]`SettledNoteIsTrue`), from
  the invariant of `SettledIsCurrent`: the month the dashboard shows is the one
  written last (`NewestMonth`), its figures are what the tables give
  (`DashboardShows`); and a confidence above "low" leaves no row to review, so
  neither the blockers nor the guardrail's reserve have any.

`All` is the conjunction of the three invariants.

Sums.  `SumOf` is defined by a fold, so what it computes for every set needs
induction, and the library's induction theorems take an operator the provers
cannot instantiate.  `Sums_proofs` states induction over the subsets of a finite
set for the *set* of those that satisfy a claim (`SubsetsInduction`,
`ElementsInduction`), which is first-order: a minimal counterexample exists
because the strict subsets of a finite set are well-founded.  With it the function
the fold unfolds to exists and is unique (`AddingUnique`, `SumSolved`), which
gives the equations of a sum (`SumEmpty`, `SumRemove`, `SumAdd`) and from them the
lemmas about parts, bounds, unions and groups.

## 8. Web client

### Model

`Client` is one page: every page of the application is loaded from the server on
its own, so a behaviour is the life of one, and `page` never changes.

| variable | in the program |
|---|---|
| `server` | the list the page's query reads - of transactions, those its filter finds - with a version that counts changes |
| `cache`, `fetch`, `error` | the query's data, its fetch under way and its error state in the query client |
| `ui` | the id in the URL where the page reads it again, the selected id, the filter, and the form: for which item it was seeded, and whether the user typed |
| `reqs` | mutations sent, with the item their form was seeded for, and their answers |
| `due`, `gone` | history: the version the page has to show; reviews reported as corrected |

`Show` is what React does when the data, the error or the selection changes: the
page's effects select an item and seed the form, before the next event.  The
effects of the seven pages differ (`Selections`, `DraftAfter`): the review panel
is mounted anew for each review; the transaction and recurring inspectors seed
when they are given another item; a rule's form is seeded by any change of the
list, unless the rule is new; the settings form by any change of the settings.
Requests are served in any order (`Serve...`) and answered in any order
(`Answer...`); an answer invalidates the queries (`Invalidate`), and the review
page also takes the corrected reviews off its list, the settings page takes the
answer as its data.  `Lose` is a request or an answer that fails.  `Elsewhere` is
what jobs and other pages change: items change, leave the lists of the pages with a
panel, and come.

The transactions list is filtered on the server.  A save, or what a job does to a
row, may make the filter find it no more, or again (`ServeTransaction`,
`Elsewhere`), so the selected row goes and comes back under the form.  Another
filter (`ChangeFilter`) is another query, which finds rows of its own; if it is
still cached, its list is shown at once as it was read then, with objects of its
own, so the form is seeded anew, and a fetch of it that was left is joined.  What
a filter finds is left open: any of the rows there are.  Submitting the filter
(`SubmitFilter`) only invalidates the query.

External: @tanstack/react-query.  A fetch that is asked for joins one under way;
an invalidation cancels it and begins another, unless there are no data yet, in
which case it joins; what a fetch brings back unchanged keeps its identity, in
lists by place.  Whether an unchanged item of a changed list kept its place is
left open (`place`).  Contents of items are versions; what is typed is whether
anything was.

### Runs

`client`: seven pages, up to three items, two requests at a time, two changes at
the server, one of the filter: `TypeOK`, `SentForItsItem`, `ShowsOwnChanges`,
`CorrectedStayAway`, `KeepsTyping`.  Two changes are what a fetch needs to bring
back neither the newest list nor the one on show; two requests let answers come in
either order; three items let a correction take one along and leave one.  One
change of the filter is enough to come to a list read earlier, as what the filter
before it had found is any list. Requests are alike (symmetry).  `MaxVersion`
bounds the changes, so the server stops answering: `CHECK_DEADLOCK FALSE`.  No
liveness is stated and no fairness assumed: requests and fetches may be lost, and
the user need not do anything.

`ShowsOwnChanges` is about answers that found the list loaded.  Before the first
list is there, an invalidation joins the fetch under way, whose answer may be
older.  An answer cancels only fetches of the query on show (react-query refetches
active queries, and an inactive one's fetch goes on): who changes the filter,
saves and comes back may be shown the list as it was before the save.  `due` is
lowered then, so the property excepts this.

### Proofs

`Client_proofs`, for any set of pages, requests, items and versions.

- `SentForIt` ([]`SentForItsItem`).  `DInv`: the form belongs to the selected item
  (`OwnDraft`), so does every request under way (`OwnRequest`), and on the review
  page there is one correction at a time.  When the list loses the selected item the
  effects select another and seed the form in the same step (`Show`), which is the
  case this is about: a form that stayed would be sent for the next row.
- `OwnChangesShown` ([]`ShowsOwnChanges`).  `VInv`: what is in the cache, or what a
  fetch under way will bring, is not older than `due` (`Recent`): the answer that
  raises `due` cancels the fetch that may be older, and a filter that joins an
  older one lowers it.
- `CorrectedStay` ([]`CorrectedStayAway`).  `GInv`: no list anywhere - at the
  server, in the cache, in a fetch - has a review that was reported as corrected
  (`Kept`), as ids are never used again.  The fetch that is under way when the
  answer comes is the one that could bring it back; it is cancelled.

- `TypeCorrect` ([]`TypeOK`).  `TInv` adds to the types what a panel relies on: it
  shows an item of its page's list (`Fitting`), no page with a panel ever selects
  the new item (`Chosen`), and an answer to a request that makes something names
  what it made (`Requested`).  That the newest and the next item are in the list
  rests on `MaxOfBounded` and `MinOfNaturals`.
- `TypingKept` (`KeepsTyping`), from `TInv` and `DInv`: the form is of what is
  selected, which is in the list, so the effects find the item they know.

## 9. Sessions

### Model

| variable | in the program |
|---|---|
| `oidc`, `discovery` | whether sign-in is configured; the provider's configuration, read once (`lazyConfiguration`) |
| `store`, `cookie` | the memory store of express-session; the cookie of the browser |
| `sample` | sample rules, series and inbox of a session |
| `tabs` | where each tab is, the token it cached, the login it began |
| `reqs` | the request of each tab, with the copy of the session it loaded |
| `used`, `smooth` | history: what was used up; whether anything failed |

A request loads the session when it begins (`Begin`), works on that copy and saves
it, whole, when it ends, if it changed it (`End`); so the later of two requests
undoes what the earlier one changed.  A session that knows nothing is not saved,
and a new one comes with a cookie.  `Open`, `Login`, `Callback`, `Me`, `Mutate`
and `Logout` begin requests, the `Serve...` actions are their handlers:
`requireAuth`, `requireCsrf`, `ensureCsrfToken`, the OpenID routes, and the
handlers of sample mode.  `requireAuth` also refuses a user whose e-mail is not
allowed: the callback never signs such a user in, but without sign-in the testing
profile may be one (`ProfileAllowed` is false), and then every page answers 403.
`csrfToken` of the client asks once and keeps a rejected promise (`Failed`).
`Restart` loses sessions, sample data and the provider's configuration; the server
closes after the requests under way.

External: express-session, openid-client and the provider, which signs the user
in or refuses.  A request is lost before it has an effect; one whose answer is
lost is not modelled.  The state and verifier of a login are one number.

### Runs

`sessions`: two tabs of one browser, two sessions, three logins and tokens, two
mutations, one restart, with and without sign-in, and a testing profile that is
allowed (otherwise no page opens; the theorems hold for both): `TypeOK`,
`LoginsEndSignedIn`, `SessionsKeep`, `SampleIsOwn`.  Two tabs are what copies need
to overwrite each other, three numbers allow two logins and a token, two sessions
one that is lost and its successor.  The bounds stop the system, hence
`CHECK_DEADLOCK FALSE`; there is no liveness and no fairness.

The properties are weaker than one would wish, and as strong as the code allows.
`LoginsEndSignedIn` needs that nothing failed, and says so of the browser, not of
each tab; it holds from the browser's first login on.  `SessionsKeep` keeps what
all requests under way know: a request that loaded the session before a callback
and saves it afterwards signs its user out.

### Proofs

`Sessions_proofs`, for any number of tabs, sessions, numbers, mutations and restarts:

- `TypeCorrect`: []`TypeOK`, with the types of every part (`Stored`, `Asking`,
  `Opened`, `Used`) and that the cookie and every request name a session that was made.
- `SessionsHold` (`SessionsKeep`): `SessionMove` says what a step can do to a
  session; it saves a copy of a request under way, changed by its handler.
- `SamplesAreOwn` ([]`SampleIsOwn`): everything a handler writes is of the
  session's own (`WrittenTyped`).
- `LoginsSucceed` ([]`LoginsEndSignedIn`).  `LInv`: while nothing failed, the
  browser has no session yet (`Before`), or the one it has is signed in (`In`), or
  some tab will sign in (`Will`): it is on its way to the provider, or there and
  the session, or the copy its callback loaded, still has its login.  A step that
  takes this from one tab gives it to another: only a login writes a copy without
  a user, and then its own tab will; a login begun before the browser
  had a session replaces the cookie, and then its tab will.  It needs where a
  tab is while its request is under way (`Placed`), that a request without a
  session knows nothing (`Bare`) and that no session has the number of a login to
  come (`Olds`).

## 10. What the runs found

Each of these runs checks what a document of the repository says and shows a
behaviour of the code in which it does not hold.

| run | property | behaviour |
|---|---|---|
| `enrichment_backfill_race` | `BackfillSparesOverrides` | the backfill overwrites a correction committed while its UPDATE waited for the row |
| `banksync_stale_balance` | `BalanceIsCurrent` | of two overlapping syncs the one that fetched less commits last and puts an older balance back |

Three more statements of `PRD.v2.md` are defined in the modules and do not hold.
They are no runs of their own; added to the named configuration, the first two as
an INVARIANT and the third as a PROPERTY, TLC shows how.

| property | configuration | behaviour |
|---|---|---|
| `ManualOverridesWin` (`Enrichment`, PRD.v2.md:745) | `MCEnrichmentJobs.cfg` | the classify job overwrites a correction committed after it read its list |
| `KnownBookingsImport` (`BankSync`, PRD.v2.md:445) | `MCBankSyncOverlap.cfg` | a booking the bank changed is not recognised by its provider id, and the sync fails |
| `EditsPersist` (`Recurring`, PRD.v2.md:1164) | `MCRecurring.cfg` | a detection overwrites the amount, day, date and category the user typed for a series |

The other runs check what does hold.  Met while modelling, and kept as they are in
the modules, because no document says otherwise:

- Figures.  A row linked to a series and then edited is fixed and variable, and
  counted twice; the rows of a disabled series stay fixed.  Category pace,
  and with it the status "over", compares a month with a suggestion that is never
  below it.  Refunds count as spending on the categories page.  Rent that was paid
  is still upcoming until its series has a new date.  The dashboard's lists are cut
  short: with spending in more than eight categories they add up to less than the
  outflow, and of upcoming costs it lists three by date, those that are overdue
  first, so a series that is counted may be missing.  Rows of a series that was
  disabled while a detection had chosen it are recurring and listed nowhere.  The guardrail reserves
  reviews although their amounts are in the balance already.
- Forecast.  Corrections, edits of transactions and settings do not update it;
  after a month has ended the dashboard shows the last one that was stored.
- Client.  The settings form can be sent with its defaults before the settings
  have come, and a fetch under way puts the old settings back after a save.  Save
  is not disabled for rules while a save is under way.  A row that appears
  elsewhere in the list seeds the inspectors' forms anew.  A failed background
  fetch takes the review, rules and recurring panels away, with what was typed.
  Another filter takes what was typed for a transaction, and coming back to one
  may show its list as it was before a save.
- Sessions.  A request that overlaps a callback may sign the user out, one that
  overlaps a logout may bring the session back; two first requests for a token
  make two, of which one is refused for good in its page.

## 11. What is not modelled

- Migrations: each version is applied in one transaction with its row in
  `schema_migrations`, by one command that is run by hand; two of them at a time
  are the database's matter, and nothing else in the program reads the table.
- The service worker and the offline page read what the network or localStorage
  gave them last, and change nothing that another part sees.
- Field extraction of bank payloads and the cryptography of the soft-token login
  are functions of single messages; the configuration, the command line and the
  loading of demonstration data run once.
- The categories page's client and the layout have no state beyond their query;
  the event and job lists of the status page, merchant sheets and rule drafts only
  read.  Parsing of requests and responses (`zod`) is left out.
- The LLM classifier is a function no caller uses; the Python prototype is
  superseded and not deployed.
- Not proved: liveness (`ReviewsEnd`, `SyncsEnd`, `JobsEnd`, `WorkEnds`), which
  needs ENABLED and fairness and stays with TLC.  Every safety property of a
  passing run is proved.
