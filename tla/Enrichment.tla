----------------------------- MODULE Enrichment -----------------------------
(***************************************************************************)
(* The table enriched_transactions and everything that writes to it while  *)
(* the others are running: the review inbox and the transaction editor     *)
(* (transactions that record a manual override), the classify job (one     *)
(* autocommitted UPDATE per row), the rule backfill job (one UPDATE of     *)
(* many rows) and normalization (new rows).                                *)
(*                                                                         *)
(* PostgreSQL is used at READ COMMITTED.  A statement sees what was        *)
(* committed when it began; an UPDATE takes a lock on every row it         *)
(* changes, waits for a lock another transaction holds, and on waking      *)
(* writes over the version the other one committed.  Uncommitted writes    *)
(* stay in the process's state until its commit applies them.              *)
(***************************************************************************)
EXTENDS Integers, Sequences, FiniteSets

CONSTANTS
  Tx,          \* ids of enriched_transactions; a later booking has a larger id
  Text,        \* what a raw transaction says: counterparty, else description
  TextOf,      \* the text of each transaction, fixed by the bank
  Covers,      \* the texts that contain a given text (ILIKE '%..%')
  Category, Unknown,
  Merchant,
  Rule,        \* rule ids; a smaller one comes first in (priority, id) order
  RuleForms,   \* the rule bodies an editor may save
  Requests,    \* the corrections a user may send
  Reviewer, Classifier, Backfiller, Editor,   \* server processes
  Null         \* SQL NULL, and "no row"

Method == {"uncategorized", "rule", "merchant_alias", "historical_similarity",
           "manual_override"}

\* One boolean stands for the flags a user or a rule sets on a row
\* (is_excluded_from_budget, is_transfer, is_savings): all are handled alike.
Row == [category: Category, merchant: Merchant \cup {Null}, excluded: BOOLEAN,
        needsReview: BOOLEAN, method: Method]

ManualOverride == [category: Category \cup {Null},
                   merchant: Merchant \cup {Null}, excluded: BOOLEAN]

\* live: the rule's field and operator are among the four pairs the classify
\* query knows; matches: the texts its condition holds of.
RuleForm == [active: BOOLEAN, live: BOOLEAN, matches: SUBSET Text,
             category: Category, merchant: Merchant \cup {Null},
             excludes: BOOLEAN]

\* A quick exclude may leave the category out, and then no merchant is looked
\* up; "edit" is the transaction workspace, which never touches similar rows.
Request ==
  {q \in [kind: {"change", "exclude", "edit"}, category: Category \cup {Null},
          merchant: Merchant \cup {Null}, excluded: BOOLEAN,
          applySimilar: BOOLEAN, createAlias: BOOLEAN] :
     /\ q.category = Null => q.kind = "exclude" /\ q.merchant = Null
     /\ q.kind = "exclude" => q.excluded
     /\ q.kind = "edit" => ~q.applySimilar}

Alias == [merchant: Merchant, text: Text]

Candidate == [source: {"rule", "merchant_alias", "historical_similarity"},
              category: Category, merchant: Merchant \cup {Null}]

Locker == Reviewer \cup Backfiller

ASSUME EnrichmentAssumption ==
  /\ Tx \subseteq Nat /\ Rule \subseteq Nat
  /\ TextOf \in [Tx -> Text]
  /\ Covers \in [Text -> SUBSET Text] /\ \A x \in Text : x \in Covers[x]
  /\ Unknown \in Category
  /\ Null \notin Category \cup Merchant \cup Tx \cup Rule \cup Row \cup ManualOverride
                 \cup RuleForm \cup Request \cup Alias \cup Locker
  /\ RuleForms \subseteq RuleForm
  /\ Requests \subseteq Request
  /\ Reviewer \cap Backfiller = {}

VARIABLES
  row,              \* enriched_transactions, committed
  override,         \* manual_overrides, committed
  lock,             \* who holds the lock on a row (and on its override)
  rules,            \* categorization_rules
  defaultCategory,  \* merchants: the default category, Null when no such row
  aliases,          \* merchant_aliases in id order
  jobs,             \* backfill_rule jobs waiting in or held by pg-boss
  review,           \* reviewer transactions in progress
  classify,         \* classify runs in progress
  backfill,         \* backfill jobs in progress
  edit              \* rule saves between their two statements

vars == <<row, override, lock, rules, defaultCategory, aliases, jobs,
          review, classify, backfill, edit>>

IdleReview   == [pc |-> "idle", target |-> Null, request |-> Null,
                 todo |-> {}, alias |-> Null]
IdleClassify == [pc |-> "idle", queue |-> {}, found |-> {}]
IdleBackfill == [pc |-> "idle", rule |-> Null, form |-> Null, ids |-> {},
                 eligible |-> {}, want |-> Null]

ReviewState ==
  [pc: {"idle", "similar", "writing"}, target: Tx \cup {Null},
   request: Request \cup {Null}, todo: SUBSET Tx, alias: Alias \cup {Null}]
ClassifyState ==
  [pc: {"idle", "rule", "alias", "history", "write"}, queue: SUBSET Tx,
   found: SUBSET Candidate]
BackfillState ==
  [pc: {"idle", "preview", "update", "locking"}, rule: Rule \cup {Null},
   form: RuleForm \cup {Null}, ids: SUBSET Tx, eligible: SUBSET Tx,
   want: Tx \cup {Null}]

\* No operation clears a category or leaves the tables' types.
TypeOK ==
  /\ row \in [Tx -> Row \cup {Null}]
  /\ override \in [Tx -> ManualOverride \cup {Null}]
  /\ lock \in [Tx -> Locker \cup {Null}]
  /\ rules \in [Rule -> RuleForm \cup {Null}]
  /\ defaultCategory \in [Merchant -> Category \cup {Null}]
  /\ aliases \in Seq(Alias)
  /\ jobs \subseteq Rule
  /\ review \in [Reviewer -> ReviewState]
  /\ classify \in [Classifier -> ClassifyState]
  /\ backfill \in [Backfiller -> BackfillState]
  /\ edit \in [Editor -> (Rule \X RuleForm) \cup {Null}]

Init ==
  /\ row = [t \in Tx |-> Null]
  /\ override = [t \in Tx |-> Null]
  /\ lock = [t \in Tx |-> Null]
  /\ rules = [r \in Rule |-> Null]
  /\ defaultCategory = [m \in Merchant |-> Null]
  /\ aliases = <<>>
  /\ jobs = {}
  /\ review = [p \in Reviewer |-> IdleReview]
  /\ classify = [c \in Classifier |-> IdleClassify]
  /\ backfill = [b \in Backfiller |-> IdleBackfill]
  /\ edit = [e \in Editor |-> Null]

-----------------------------------------------------------------------------
(* Helpers *)

Coalesce(x, y) == IF x = Null THEN y ELSE x

Imported == {t \in Tx : row[t] # Null}

Last(t, S)  == t \in S /\ \A u \in S : u <= t
First(i, S) == i \in S /\ \A j \in S : i <= j

\* Variant: the merchant is upserted outside the transaction.
MerchantNeverLocked(m) == FALSE

\* What holds a lock on merchant m until its commit: the upsert is the first
\* write of a correction.
MerchantLocked(m) ==
  \E p \in Reviewer :
    review[p].pc # "idle" /\ m # Null /\ review[p].request.merchant = m

\* Variant: the client goes back to its pool without COMMIT or ROLLBACK.
ReleaseNothing(p) == lock

Release(p) == [t \in Tx |-> IF lock[t] = p THEN Null ELSE lock[t]]

-----------------------------------------------------------------------------
(* Normalization: a raw transaction gets its enriched row. *)

Normalize(t) ==
  /\ row[t] = Null
  /\ row' = [row EXCEPT ![t] =
       [category |-> Unknown, merchant |-> Null, excluded |-> FALSE,
        needsReview |-> TRUE, method |-> "uncategorized"]]
  /\ UNCHANGED <<override, lock, rules, defaultCategory, aliases, jobs,
                 review, classify, backfill, edit>>

-----------------------------------------------------------------------------
(* Review actions and manual edits: one database transaction each. *)

\* Accepting keeps the category and records no override.
Accept(t) ==
  /\ t \in Imported
  /\ lock[t] = Null
  /\ row' = [row EXCEPT ![t].needsReview = FALSE]
  /\ UNCHANGED <<override, lock, rules, defaultCategory, aliases, jobs,
                 review, classify, backfill, edit>>

BeginReview(p, t, q) ==
  /\ review[p].pc = "idle"
  /\ t \in Imported
  /\ ~MerchantLocked(q.merchant)
  /\ review' = [review EXCEPT ![p] =
       [pc |-> IF q.applySimilar THEN "similar" ELSE "writing",
        target |-> t, request |-> q, todo |-> {t}, alias |-> Null]]
  /\ UNCHANGED <<row, override, lock, rules, defaultCategory, aliases, jobs,
                 classify, backfill, edit>>

Similar(t) ==
  {u \in Imported \ {t} : override[u] = Null /\ TextOf[u] = TextOf[t]}

ReadSimilar(p) ==
  /\ review[p].pc = "similar"
  /\ review' = [review EXCEPT ![p].pc = "writing",
                              ![p].todo = @ \cup Similar(review[p].target)]
  /\ UNCHANGED <<row, override, lock, rules, defaultCategory, aliases, jobs,
                 classify, backfill, edit>>

\* The corrected transaction comes first, then the similar ones, newest first.
NextOverride(p, t) ==
  /\ review[p].pc = "writing"
  /\ IF review[p].target \in review[p].todo
       THEN t = review[p].target
       ELSE Last(t, review[p].todo)

\* The alias the transaction adds after overriding its target: none when the
\* committed table has it already.
NewAlias(p) ==
  LET q == review[p].request
      a == [merchant |-> q.merchant, text |-> TextOf[review[p].target]]
  IN IF q.createAlias /\ q.merchant # Null /\ a \notin {aliases[i] : i \in DOMAIN aliases}
       THEN a ELSE Null

OverrideRow(p, t) ==
  /\ NextOverride(p, t)
  /\ lock[t] = Null
  /\ lock' = [lock EXCEPT ![t] = p]
  /\ review' = [review EXCEPT
       ![p].todo = @ \ {t},
       ![p].alias = IF t = review[p].target THEN NewAlias(p) ELSE @]
  /\ UNCHANGED <<row, override, rules, defaultCategory, aliases, jobs,
                 classify, backfill, edit>>

\* Variant: ON CONFLICT DO NOTHING.
KeepOverride(old, q) ==
  IF old # Null THEN old
  ELSE [category |-> q.category, merchant |-> q.merchant, excluded |-> q.excluded]

\* A later correction replaces the whole override.
UpsertOverride(old, q) ==
  [category |-> q.category, merchant |-> q.merchant, excluded |-> q.excluded]

\* Variant: the inbox writes the category it was sent, also when it is NULL.
ManualRowUncoalesced(q, old) ==
  [category |-> q.category, merchant |-> q.merchant, excluded |-> q.excluded,
   needsReview |-> FALSE, method |-> "manual_override"]

\* A correction in the inbox keeps what it leaves out; the editor replaces the
\* merchant even by none.
ManualRow(q, old) ==
  [category |-> Coalesce(q.category, old.category),
   merchant |-> IF q.kind = "edit" THEN q.merchant
                ELSE Coalesce(q.merchant, old.merchant),
   excluded |-> q.excluded,
   needsReview |-> FALSE,
   method |-> "manual_override"]

CommitReview(p) ==
  LET q == review[p].request
  IN /\ review[p].pc = "writing"
     /\ review[p].todo = {}
     /\ row' = [t \in Tx |-> IF lock[t] = p THEN ManualRow(q, row[t]) ELSE row[t]]
     /\ override' = [t \in Tx |-> IF lock[t] = p THEN UpsertOverride(override[t], q)
                                 ELSE override[t]]
     /\ defaultCategory' = [m \in Merchant |->
          IF m = q.merchant THEN q.category ELSE defaultCategory[m]]
     /\ aliases' = IF review[p].alias = Null THEN aliases
                   ELSE Append(aliases, review[p].alias)
     /\ lock' = Release(p)
     /\ review' = [review EXCEPT ![p] = IdleReview]
     /\ UNCHANGED <<rules, jobs, classify, backfill, edit>>

\* ROLLBACK: an error, a lost connection, or the server chosen as the victim
\* of a deadlock.
AbortReview(p) ==
  /\ review[p].pc # "idle"
  /\ lock' = Release(p)
  /\ review' = [review EXCEPT ![p] = IdleReview]
  /\ UNCHANGED <<row, override, rules, defaultCategory, aliases, jobs,
                 classify, backfill, edit>>

-----------------------------------------------------------------------------
(* The classify job: reads the pending rows once, then works through them. *)

Pending == {t \in Imported : row[t].needsReview /\ override[t] = Null}

StartClassify(c) ==
  /\ classify[c].pc = "idle"
  /\ Pending # {}
  /\ classify' = [classify EXCEPT ![c] =
       [pc |-> "rule", queue |-> Pending, found |-> {}]]
  /\ UNCHANGED <<row, override, lock, rules, defaultCategory, aliases, jobs,
                 review, backfill, edit>>

RuleCandidates(t) ==
  LET S == {r \in Rule : /\ rules[r] # Null
                         /\ rules[r].active /\ rules[r].live
                         /\ TextOf[t] \in rules[r].matches}
  IN {[source |-> "rule", category |-> rules[r].category,
       merchant |-> rules[r].merchant] : r \in {r \in S : First(r, S)}}

AliasCandidates(t) ==
  LET S == {i \in DOMAIN aliases : /\ defaultCategory[aliases[i].merchant] # Null
                                   /\ TextOf[t] \in Covers[aliases[i].text]}
  IN {[source |-> "merchant_alias",
       category |-> defaultCategory[aliases[i].merchant],
       merchant |-> aliases[i].merchant] : i \in {i \in S : First(i, S)}}

\* The query takes the row updated last; updated_at is the time its writer's
\* transaction began, so any reviewed row of the same text may be that one.
HistoryCandidates(t) ==
  {[source |-> "historical_similarity", category |-> row[u].category,
    merchant |-> row[u].merchant] :
     u \in {u \in Imported : ~row[u].needsReview /\ TextOf[u] = TextOf[t]}}

FindRule(c) ==
  /\ classify[c].pc = "rule"
  /\ \E t \in Tx :
       /\ Last(t, classify[c].queue)
       /\ classify' = [classify EXCEPT ![c].pc = "alias",
                                       ![c].found = RuleCandidates(t)]
  /\ UNCHANGED <<row, override, lock, rules, defaultCategory, aliases, jobs,
                 review, backfill, edit>>

FindMerchantAlias(c) ==
  /\ classify[c].pc = "alias"
  /\ \E t \in Tx :
       /\ Last(t, classify[c].queue)
       /\ classify' = [classify EXCEPT ![c].pc = "history",
                                       ![c].found = @ \cup AliasCandidates(t)]
  /\ UNCHANGED <<row, override, lock, rules, defaultCategory, aliases, jobs,
                 review, backfill, edit>>

FindHistory(c) ==
  /\ classify[c].pc = "history"
  /\ \E t \in Tx :
       /\ Last(t, classify[c].queue)
       /\ \/ /\ HistoryCandidates(t) = {}
             /\ classify' = [classify EXCEPT ![c].pc = "write"]
          \/ \E h \in HistoryCandidates(t) :
               classify' = [classify EXCEPT ![c].pc = "write",
                                            ![c].found = @ \cup {h}]
  /\ UNCHANGED <<row, override, lock, rules, defaultCategory, aliases, jobs,
                 review, backfill, edit>>

Priority == [rule |-> 400, merchant_alias |-> 300, historical_similarity |-> 200]

Selected(k, found) ==
  k \in found /\ \A d \in found : Priority[d.source] <= Priority[k.source]

\* The run with transaction t behind it.
Advance(c, t) ==
  LET rest == classify[c].queue \ {t}
  IN classify' = [classify EXCEPT ![c] =
       IF rest = {} THEN IdleClassify
       ELSE [pc |-> "rule", queue |-> rest, found |-> {}]]

\* The UPDATE names the row by its id only: it looks neither at the override
\* nor at needs_review again.
WriteClassification(c) ==
  /\ classify[c].pc = "write"
  /\ \E t \in Tx :
       /\ Last(t, classify[c].queue)
       /\ Advance(c, t)
       /\ \/ classify[c].found = {} /\ row' = row
          \/ \E k \in classify[c].found :
               /\ Selected(k, classify[c].found)
               /\ lock[t] = Null
               /\ row' = [row EXCEPT ![t].category = k.category,
                                     ![t].merchant = k.merchant,
                                     ![t].needsReview = FALSE,
                                     ![t].method = k.source]
  /\ UNCHANGED <<override, lock, rules, defaultCategory, aliases, jobs,
                 review, backfill, edit>>

\* The job fails or its worker stops; what it wrote so far stays.
FailClassify(c) ==
  /\ classify[c].pc # "idle"
  /\ classify' = [classify EXCEPT ![c] = IdleClassify]
  /\ UNCHANGED <<row, override, lock, rules, defaultCategory, aliases, jobs,
                 review, backfill, edit>>

-----------------------------------------------------------------------------
(* Rules: saving one is two autocommitted statements. *)

\* upsertMerchant
SaveRuleMerchant(e, r, f) ==
  /\ edit[e] = Null
  /\ ~MerchantLocked(f.merchant)
  /\ defaultCategory' = [m \in Merchant |->
       IF m = f.merchant THEN f.category ELSE defaultCategory[m]]
  /\ edit' = [edit EXCEPT ![e] = <<r, f>>]
  /\ UNCHANGED <<row, override, lock, rules, aliases, jobs, review, classify,
                 backfill>>

\* INSERT for a new rule, UPDATE for one that exists
SaveRule(e) ==
  /\ edit[e] # Null
  /\ rules' = [rules EXCEPT ![edit[e][1]] = edit[e][2]]
  /\ edit' = [edit EXCEPT ![e] = Null]
  /\ UNCHANGED <<row, override, lock, defaultCategory, aliases, jobs, review,
                 classify, backfill>>

SetRuleActive(r) ==
  /\ rules[r] # Null
  /\ rules' = [rules EXCEPT ![r].active = ~@]
  /\ UNCHANGED <<row, override, lock, defaultCategory, aliases, jobs, review,
                 classify, backfill, edit>>

-----------------------------------------------------------------------------
(* The rule backfill job *)

\* A row merchant left alone by a rule without one counts as right.
AlreadyCorrect(f, x) ==
  /\ x.category = f.category
  /\ f.merchant = Null \/ x.merchant = f.merchant
  /\ f.excludes => x.excluded

\* Variant: the preview does not look for overrides.
WouldChangeAnyRow(f) ==
  {t \in Imported : TextOf[t] \in f.matches /\ ~AlreadyCorrect(f, row[t])}

WouldChange(f) ==
  {t \in Imported : /\ TextOf[t] \in f.matches
                    /\ override[t] = Null
                    /\ ~AlreadyCorrect(f, row[t])}

\* POST /api/rules/:id/apply
ApplyRule(r) ==
  /\ rules[r] # Null
  /\ rules[r].active
  /\ WouldChange(rules[r]) # {}
  /\ jobs' = jobs \cup {r}
  /\ UNCHANGED <<row, override, lock, rules, defaultCategory, aliases, review,
                 classify, backfill, edit>>

\* The worker takes the job and reads the rule; an inactive one ends it.
StartBackfill(b, r) ==
  /\ backfill[b].pc = "idle"
  /\ r \in jobs
  /\ IF rules[r] # Null /\ rules[r].active
       THEN /\ backfill' = [backfill EXCEPT ![b] =
                 [IdleBackfill EXCEPT !.pc = "preview", !.rule = r,
                                      !.form = rules[r]]]
            /\ jobs' = jobs
       ELSE /\ jobs' = jobs \ {r}
            /\ backfill' = backfill
  /\ UNCHANGED <<row, override, lock, rules, defaultCategory, aliases, review,
                 classify, edit>>

PreviewRule(b) ==
  LET ids == WouldChange(backfill[b].form)
  IN /\ backfill[b].pc = "preview"
     /\ IF ids = {}
          THEN /\ jobs' = jobs \ {backfill[b].rule}
               /\ backfill' = [backfill EXCEPT ![b] = IdleBackfill]
          ELSE /\ jobs' = jobs
               /\ backfill' = [backfill EXCEPT ![b].pc = "update",
                                               ![b].ids = ids]
     /\ UNCHANGED <<row, override, lock, rules, defaultCategory, aliases,
                    review, classify, edit>>

\* The row the UPDATE comes to next, in an order the query leaves open.
ComesNext(w, S) == IF S = {} THEN w = Null ELSE w \in S

\* The UPDATE begins: NOT EXISTS (.. manual_overrides ..) is evaluated on what
\* is committed now, also for the rows it will have to wait for.
BeginBackfillUpdate(b) ==
  LET eligible == {t \in backfill[b].ids : override[t] = Null}
  IN /\ backfill[b].pc = "update"
     /\ \E w \in Tx \cup {Null} :
          /\ ComesNext(w, eligible)
          /\ backfill' = [backfill EXCEPT ![b].pc = "locking",
                                          ![b].eligible = eligible,
                                          ![b].want = w]
     /\ UNCHANGED <<row, override, lock, rules, defaultCategory, aliases, jobs,
                    review, classify, edit>>

LockBackfillRow(b) ==
  LET t == backfill[b].want
  IN /\ t # Null
     /\ lock[t] = Null
     /\ lock' = [lock EXCEPT ![t] = b]
     /\ \E w \in Tx \cup {Null} :
          /\ ComesNext(w, {u \in backfill[b].eligible \ {t} : lock[u] # b})
          /\ backfill' = [backfill EXCEPT ![b].want = w]
     /\ UNCHANGED <<row, override, rules, defaultCategory, aliases, jobs,
                    review, classify, edit>>

BackfilledRow(f, old) ==
  [category |-> f.category,
   merchant |-> Coalesce(f.merchant, old.merchant),
   excluded |-> old.excluded \/ f.excludes,
   needsReview |-> FALSE,
   method |-> "rule"]

CommitBackfill(b) ==
  /\ backfill[b].pc = "locking"
  /\ backfill[b].want = Null
  /\ row' = [t \in Tx |-> IF lock[t] = b THEN BackfilledRow(backfill[b].form, row[t])
                          ELSE row[t]]
  /\ lock' = Release(b)
  /\ jobs' = jobs \ {backfill[b].rule}
  /\ backfill' = [backfill EXCEPT ![b] = IdleBackfill]
  /\ UNCHANGED <<override, rules, defaultCategory, aliases, review, classify,
                 edit>>

\* The statement is rolled back; pg-boss keeps the job for a retry or, its
\* retries used up, drops it.
FailBackfill(b) ==
  /\ backfill[b].pc # "idle"
  /\ lock' = Release(b)
  /\ jobs' \in {jobs, jobs \ {backfill[b].rule}}
  /\ backfill' = [backfill EXCEPT ![b] = IdleBackfill]
  /\ UNCHANGED <<row, override, rules, defaultCategory, aliases, review,
                 classify, edit>>

-----------------------------------------------------------------------------
(* Deadlock: PostgreSQL aborts a transaction of a cycle of waits. *)

WaitsFor(p, q) ==
  \E t \in Tx :
    /\ \/ p \in Reviewer /\ NextOverride(p, t)
       \/ p \in Backfiller /\ backfill[p].want = t
    /\ lock[t] = q /\ q # p

Deadlocked(p) ==
  \E S \in SUBSET Locker : p \in S /\ \A x \in S : \E y \in S : WaitsFor(x, y)

BreakReviewDeadlock(p)   == Deadlocked(p) /\ AbortReview(p)
BreakBackfillDeadlock(b) == Deadlocked(b) /\ FailBackfill(b)

-----------------------------------------------------------------------------
ReviewStep(p) ==
  \/ ReadSimilar(p) \/ \E t \in Tx : OverrideRow(p, t)
  \/ CommitReview(p) \/ BreakReviewDeadlock(p)

ClassifyStep(c) ==
  FindRule(c) \/ FindMerchantAlias(c) \/ FindHistory(c) \/ WriteClassification(c)

BackfillStep(b) ==
  \/ PreviewRule(b) \/ BeginBackfillUpdate(b) \/ LockBackfillRow(b)
  \/ CommitBackfill(b) \/ BreakBackfillDeadlock(b)

Next ==
  \/ \E t \in Tx : Normalize(t) \/ Accept(t)
  \/ \E p \in Reviewer :
       \/ \E t \in Tx, q \in Requests : BeginReview(p, t, q)
       \/ ReviewStep(p) \/ AbortReview(p)
  \/ \E c \in Classifier : StartClassify(c) \/ ClassifyStep(c) \/ FailClassify(c)
  \/ \E e \in Editor :
       \/ \E r \in Rule, f \in RuleForms : SaveRuleMerchant(e, r, f)
       \/ SaveRule(e)
  \/ \E r \in Rule : SetRuleActive(r) \/ ApplyRule(r)
  \/ \E b \in Backfiller :
       \/ \E r \in Rule : StartBackfill(b, r)
       \/ BackfillStep(b) \/ FailBackfill(b)

Spec == Init /\ [][Next]_vars

\* A request or a job that has begun is carried on.  Lock queues are first come
\* first served, so a step that is possible again and again is not starved.
Fairness ==
  /\ \A p \in Reviewer   : SF_vars(ReviewStep(p))
  /\ \A c \in Classifier : SF_vars(ClassifyStep(c))
  /\ \A b \in Backfiller : SF_vars(BackfillStep(b))

FairSpec == Spec /\ Fairness

-----------------------------------------------------------------------------
(* Properties *)

\* What the row shows is what the override recorded; a correction that left
\* the category or the merchant out kept the row's.
Agrees(x, o) ==
  /\ o.category # Null => x.category = o.category
  /\ o.merchant # Null => x.merchant = o.merchant
  /\ x.excluded = o.excluded

Pinned(t) ==
  /\ row[t] # Null /\ override[t] # Null
  /\ row[t].method = "manual_override" /\ ~row[t].needsReview
  /\ Agrees(row[t], override[t])

\* The two tables a correction writes never drift apart: a row that says it was
\* reviewed manually has an override, and shows what that override records,
\* whatever corrections, jobs and rollbacks ran at the same time
\* (setManualOverride, updateTransaction).
ManualRowsMatchOverrides ==
  \A t \in Tx : row[t] # Null =>
    (row[t].method = "manual_override" => Pinned(t))

\* A row lock belongs to a transaction in progress that is there for the row:
\* no commit, rollback or deadlock victim leaves one behind.
LocksHeld ==
  \A t \in Tx : lock[t] # Null =>
    /\ row[t] # Null
    /\ lock[t] \in Reviewer => review[lock[t]].pc = "writing"
    /\ lock[t] \in Backfiller =>
         backfill[lock[t]].pc = "locking" /\ t \in backfill[lock[t]].eligible

\* No run in progress read t before it was overridden.
OutOfReach(t) ==
  /\ \A c \in Classifier : t \notin classify[c].queue
  /\ \A b \in Backfiller : t \notin backfill[b].ids

\* A correction committed while no job holds the transaction in its list stands
\* for good: no later classify run, rule or backfill ever picks it up again.
SettledOverrideStands ==
  [][\A t \in Tx : Pinned(t) /\ OutOfReach(t) => (Pinned(t) /\ OutOfReach(t))']_vars

\* Two corrections that create the same alias at the same time add it once: the
\* merchant row both upsert makes the second wait for the first.
AliasesUnique ==
  \A i, j \in DOMAIN aliases : aliases[i] = aliases[j] => i = j

\* Every correction that has begun commits or is rolled back, also when bulk
\* corrections and backfills wait for each other's rows.
ReviewsEnd ==
  \A p \in Reviewer : review[p].pc # "idle" ~> review[p].pc = "idle"

\* The product's rule: manual overrides always win (PRD.v2.md).
ManualOverridesWin ==
  \A t \in Tx : override[t] # Null => Pinned(t)

\* The product's rule: applying a rule to history does not overwrite manual
\* overrides (PRD.v2.md); the UPDATE of applyRule has a guard for it.
BackfillSparesOverrides ==
  [][\A t \in Tx : override[t] # Null /\ row'[t] # row[t]
                     => row'[t].method # "rule"]_vars

=============================================================================
