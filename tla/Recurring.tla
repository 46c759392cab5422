----------------------------- MODULE Recurring -----------------------------
(***************************************************************************)
(* Recurring series and the transactions linked to them: the detection job *)
(* (one transaction that looks for monthly payees and links their rows),   *)
(* and the user who confirms, edits and disables series while it runs.     *)
(*                                                                         *)
(* PostgreSQL at READ COMMITTED, as in Enrichment: what a transaction has  *)
(* written stays in its own state until it commits, nobody else can change *)
(* what it has written before that, and a statement that waited goes on    *)
(* with the newest committed version.                                      *)
(***************************************************************************)
EXTENDS Integers

CONSTANTS
  Tx,          \* enriched_transactions with a negative amount
  MonthOf,     \* month of each booking, fixed
  Name,        \* names of merchants and counterparties, and those users give series
  Month,
  Category,
  Detector,    \* detect_recurring jobs and sync requests, which detect alike
  Disabler,    \* requests that disable a series
  MaxSeries,   \* bound: the last id of recurring_series
  Null         \* category of a row that is income, a transfer or excluded

ASSUME RecurringAssumption ==
  /\ MonthOf \in [Tx -> Month]
  /\ Detector \cap Disabler = {}
  /\ MaxSeries \in Nat
  /\ Null \notin Category \cup Name

VARIABLES
  row,      \* payee, category and series of each transaction, committed; 0 is no series
  series,   \* recurring_series, committed: a function on the ids there are
  work      \* transactions in progress

vars == <<row, series, work>>

Worker == Detector \cup Disabler
SeriesId == 1 .. MaxSeries

\* terms: whether the amount, day, next date and category are those of the last
\* detection or those the user typed.  Only an active series is confirmed.
Series == {s \in [name: Name, terms: {"detected", "edited"},
                  confirmed: BOOLEAN, active: BOOLEAN] : s.confirmed => s.active}
RowState == [payee: Name, category: Category \cup {Null}, series: SeriesId \cup {0}]
Candidate == [name: Name, rows: SUBSET Tx]

Partial(S, T) == UNION {[D -> T] : D \in SUBSET S}
Nothing == [x \in {} |-> 0]

\* todo: candidates left; name, rows: the one in hand and its rows left (of a
\* disabling request: the rows left to free); target: its series;
\* stored, links: series and rows written so far.
WorkState ==
  [pc: {"idle", "select", "insert", "update", "link", "list", "free"},
   todo: SUBSET Candidate, name: Name \cup {Null}, rows: SUBSET Tx,
   target: SeriesId \cup {0},
   stored: Partial(SeriesId, Series), links: Partial(Tx, SeriesId \cup {0})]

Idle == [pc |-> "idle", todo |-> {}, name |-> Null, rows |-> {}, target |-> 0,
         stored |-> Nothing, links |-> Nothing]

\* No series is ever stored as disabled and confirmed at once, also when a
\* confirmation or an edit waited for the request that disabled it.
TypeOK ==
  /\ series \in Partial(SeriesId, Series)
  /\ row \in [Tx -> RowState]
  /\ work \in [Worker -> WorkState]

Init ==
  /\ row \in [Tx -> [payee: Name, category: Category, series: {0}]]
  /\ series = Nothing
  /\ work = [p \in Worker |-> Idle]

------------------------------------------------------------------------------
(* Who has written what *)

SeriesFree(s, others) == \A q \in others : s \notin DOMAIN work[q].stored
RowFree(t, others)    == \A q \in others : t \notin DOMAIN work[q].links

Overwrite(f, g) ==
  [x \in DOMAIN f \cup DOMAIN g |-> IF x \in DOMAIN g THEN g[x] ELSE f[x]]
With(f, x, v) == Overwrite(f, [y \in {x} |-> v])

\* The series p sees: the committed ones and its own.
Visible(p) == Overwrite(series, work[p].stored)

\* An error or a stop of the process in any statement.
Rollback(p) ==
  /\ work[p].pc # "idle"
  /\ work' = [work EXCEPT ![p] = Idle]
  /\ UNCHANGED <<row, series>>

------------------------------------------------------------------------------
(* Detection *)

Group(n, c) == {t \in Tx : row[t].payee = n /\ row[t].category = c}

\* Payees with bookings in two months, for each category their rows have.
Candidates ==
  {[name |-> n, rows |-> Group(n, c)] : n \in Name, c \in Category}
    \cap {k \in Candidate : \E t, u \in k.rows : MonthOf[t] # MonthOf[u]}

\* BEGIN and findMonthlyCandidates
Detect(d) ==
  /\ work[d].pc = "idle"
  /\ work' = [work EXCEPT ![d].pc = "select", ![d].todo = Candidates]
  /\ UNCHANGED <<row, series>>

\* Variant: without is_active = true.
SeriesOfAnyState(p, n) ==
  {s \in DOMAIN Visible(p) : Visible(p)[s].name = n}

SeriesOf(p, n) ==
  {s \in DOMAIN Visible(p) : Visible(p)[s].name = n /\ Visible(p)[s].active}

\* Variant: the candidate is not taken off the list.
SelectSeriesAgain(d) ==
  /\ work[d].pc = "select"
  /\ \E k \in work[d].todo :
       \E s \in IF SeriesOf(d, k.name) = {} THEN {0} ELSE SeriesOf(d, k.name) :
         work' = [work EXCEPT ![d].pc = IF s = 0 THEN "insert" ELSE "update",
                              ![d].name = k.name, ![d].rows = k.rows, ![d].target = s]
  /\ UNCHANGED <<row, series>>

\* The SELECT of upsertRecurringSeries: LIMIT 1 without an order.
SelectSeries(d) ==
  /\ work[d].pc = "select"
  /\ \E k \in work[d].todo :
       \E s \in IF SeriesOf(d, k.name) = {} THEN {0} ELSE SeriesOf(d, k.name) :
         work' = [work EXCEPT ![d].pc = IF s = 0 THEN "insert" ELSE "update",
                              ![d].todo = @ \ {k}, ![d].name = k.name,
                              ![d].rows = k.rows, ![d].target = s]
  /\ UNCHANGED <<row, series>>

Unused == {s \in SeriesId : \A p \in Worker : s \notin DOMAIN Visible(p)}

\* Its INSERT, with the next id of the table's sequence; the model takes the
\* ids of rolled back INSERTs again, as nothing refers to them.
InsertSeries(d) ==
  /\ work[d].pc = "insert"
  /\ \E s \in Unused :
       /\ \A u \in Unused : s <= u
       /\ work' = [work EXCEPT
            ![d].pc = "link", ![d].target = s,
            ![d].stored = With(@, s, [name |-> work[d].name, terms |-> "detected",
                                      confirmed |-> FALSE, active |-> TRUE])]
  /\ UNCHANGED <<row, series>>

\* Without an id left (bound) the INSERT is an error.
OutOfIds(d) ==
  /\ work[d].pc = "insert" /\ Unused = {}
  /\ Rollback(d)

\* Variant: the UPDATE sets is_confirmed as the INSERT does.
UpdateSeriesUnconfirmed(d) ==
  LET s == work[d].target
  IN /\ work[d].pc = "update"
     /\ SeriesFree(s, Worker \ {d})
     /\ work' = [work EXCEPT
          ![d].pc = "link",
          ![d].stored = With(@, s, [Visible(d)[s] EXCEPT !.terms = "detected",
                                                         !.confirmed = FALSE])]
     /\ UNCHANGED <<row, series>>

\* Its UPDATE, WHERE id = ..., of the newest version: nothing asks again
\* whether the series is active.
UpdateSeries(d) ==
  LET s == work[d].target
  IN /\ work[d].pc = "update"
     /\ SeriesFree(s, Worker \ {d})
     /\ work' = [work EXCEPT
          ![d].pc = "link",
          ![d].stored = With(@, s, [Visible(d)[s] EXCEPT !.terms = "detected"])]
     /\ UNCHANGED <<row, series>>

\* linkRecurringTransactions, one row of its UPDATE, in any order
LinkRow(d, t) ==
  /\ work[d].pc = "link"
  /\ t \in work[d].rows
  /\ RowFree(t, Worker \ {d})
  /\ work' = [work EXCEPT ![d].pc = IF work[d].rows = {t} THEN "select" ELSE "link",
                          ![d].rows = @ \ {t},
                          ![d].links = With(@, t, work[d].target)]
  /\ UNCHANGED <<row, series>>

------------------------------------------------------------------------------
(* Disabling *)

\* BEGIN and the UPDATE of the series, which an inactive one does not match
Disable(u, s) ==
  /\ work[u].pc = "idle"
  /\ s \in DOMAIN series /\ series[s].active
  /\ SeriesFree(s, Worker \ {u})
  /\ work' = [work EXCEPT
       ![u].pc = "list", ![u].target = s,
       ![u].stored = With(@, s, [series[s] EXCEPT !.active = FALSE, !.confirmed = FALSE])]
  /\ UNCHANGED <<row, series>>

\* The UPDATE of the rows begins: it sees those linked by now.
ListLinked(u) ==
  /\ work[u].pc = "list"
  /\ work' = [work EXCEPT ![u].pc = "free",
                          ![u].rows = {t \in Tx : row[t].series = work[u].target}]
  /\ UNCHANGED <<row, series>>

\* Variant: rows others hold are skipped.
FreeRowSkippingLocked(u, t) ==
  /\ work[u].pc = "free"
  /\ t \in work[u].rows
  /\ work' = [work EXCEPT
       ![u].rows = @ \ {t},
       ![u].links = IF RowFree(t, Worker \ {u}) /\ row[t].series = work[u].target
                    THEN With(@, t, 0) ELSE @]
  /\ UNCHANGED <<row, series>>

\* One row of it; after a wait the row may be linked to another series.
FreeRow(u, t) ==
  /\ work[u].pc = "free"
  /\ t \in work[u].rows
  /\ RowFree(t, Worker \ {u})
  /\ work' = [work EXCEPT
       ![u].rows = @ \ {t},
       ![u].links = IF row[t].series = work[u].target THEN With(@, t, 0) ELSE @]
  /\ UNCHANGED <<row, series>>

------------------------------------------------------------------------------
(* The end of either transaction *)

Commit(p) ==
  /\ \/ work[p].pc = "select" /\ work[p].todo = {}
     \/ work[p].pc = "free" /\ work[p].rows = {}
  /\ series' = Visible(p)
  /\ row' = [t \in Tx |-> IF t \in DOMAIN work[p].links
                          THEN [row[t] EXCEPT !.series = work[p].links[t]] ELSE row[t]]
  /\ work' = [work EXCEPT ![p] = Idle]

\* Wherever p turns, it waits for one of S.
WaitsIn(p, S) ==
  \/ /\ work[p].pc = "update"
     /\ \E q \in S \ {p} : work[p].target \in DOMAIN work[q].stored
  \/ /\ work[p].pc \in {"link", "free"} /\ work[p].rows # {}
     /\ \A t \in work[p].rows : \E q \in S \ {p} : t \in DOMAIN work[q].links

\* PostgreSQL rolls back a transaction of a cycle of waits.
BreakDeadlock(p) ==
  /\ \E S \in SUBSET Worker : p \in S /\ \A x \in S : WaitsIn(x, S)
  /\ Rollback(p)

------------------------------------------------------------------------------
(* Single statements: the user's decisions, and corrections of rows *)

\* Variant: without is_active = true.
ConfirmAnyState(s) ==
  /\ s \in DOMAIN series
  /\ SeriesFree(s, Worker)
  /\ series' = [series EXCEPT ![s].confirmed = TRUE]
  /\ UNCHANGED <<row, work>>

\* The WHERE clause is read again when the UPDATE had to wait for the series.
Confirm(s) ==
  /\ s \in DOMAIN series /\ series[s].active
  /\ SeriesFree(s, Worker)
  /\ series' = [series EXCEPT ![s].confirmed = TRUE]
  /\ UNCHANGED <<row, work>>

Update(s, n) ==
  /\ s \in DOMAIN series /\ series[s].active
  /\ SeriesFree(s, Worker)
  /\ series' = [series EXCEPT ![s].name = n, ![s].terms = "edited", ![s].confirmed = TRUE]
  /\ UNCHANGED <<row, work>>

\* A correction or a classification gives a row another payee and category, or
\* marks it as none of the user's expenses (Enrichment).
Recategorize(t, n, c) ==
  /\ RowFree(t, Worker)
  /\ row' = [row EXCEPT ![t].payee = n, ![t].category = c]
  /\ UNCHANGED <<series, work>>

------------------------------------------------------------------------------
DetectorStep(d) ==
  \/ SelectSeries(d) \/ InsertSeries(d) \/ OutOfIds(d) \/ UpdateSeries(d)
  \/ (\E t \in Tx : LinkRow(d, t)) \/ Commit(d) \/ BreakDeadlock(d)

DisablerStep(u) ==
  \/ ListLinked(u) \/ (\E t \in Tx : FreeRow(u, t)) \/ Commit(u) \/ BreakDeadlock(u)

Next ==
  \/ \E d \in Detector : Detect(d) \/ DetectorStep(d)
  \/ \E u \in Disabler : (\E s \in SeriesId : Disable(u, s)) \/ DisablerStep(u)
  \/ \E p \in Worker : Rollback(p)
  \/ \E s \in SeriesId : Confirm(s) \/ \E n \in Name : Update(s, n)
  \/ \E t \in Tx, n \in Name, c \in Category \cup {Null} : Recategorize(t, n, c)

Spec == Init /\ [][Next]_vars

\* A transaction that has begun is carried on: the code awaits one statement
\* after the other, and PostgreSQL wakes waiters in turn.
Fairness ==
  /\ \A d \in Detector : SF_vars(DetectorStep(d))
  /\ \A u \in Disabler : SF_vars(DisablerStep(u))

FairSpec == Spec /\ Fairness

------------------------------------------------------------------------------
(* Properties *)

\* p has chosen s, has written it or has linked rows to it.
Reaches(p, s) ==
  \/ work[p].target = s \/ s \in DOMAIN work[p].stored
  \/ \E t \in DOMAIN work[p].links : work[p].links[t] = s

OutOfReach(s) == \A d \in Detector : ~Reaches(d, s)

NoRows(s) == \A t \in Tx : row[t].series # s

Disabled(s) == s \in DOMAIN series /\ ~series[s].active

\* When a series is disabled that no detection in progress has chosen, it loses
\* every row, those linked a moment before and those a running detection is
\* about to move elsewhere included (disableRecurring).
DisableFreesRows ==
  [][\A s \in DOMAIN series :
       series[s].active /\ ~series'[s].active /\ OutOfReach(s) => NoRows(s)']_vars

\* From then on it rests: no later detection takes it up, links a row to it or
\* makes it active, whatever names series are given (upsertRecurringSeries).
DisabledSeriesRest ==
  [][\A s \in SeriesId :
       Disabled(s) /\ OutOfReach(s) /\ NoRows(s)
         => (Disabled(s) /\ OutOfReach(s) /\ NoRows(s))']_vars

\* A series the user confirmed stays so until it is disabled, also when a
\* detection that began before writes it afterwards (confirmRecurring).
ConfirmationsStand ==
  [][\A s \in DOMAIN series :
       series[s].confirmed /\ series'[s].active => series'[s].confirmed]_vars

\* Detections and disabling requests end, although they may wait for each
\* other's series and rows.
WorkEnds == \A p \in Worker : work[p].pc # "idle" ~> work[p].pc = "idle"

\* The product's rule: manual edits persist (PRD.v2.md).
EditsPersist ==
  [][\A s \in DOMAIN series :
       series[s].terms = "edited" => series'[s].terms = "edited"]_vars
=============================================================================
