------------------------------ MODULE BankSync ------------------------------
(***************************************************************************)
(* Importing one account's bookings from the bank.  A sync reads the       *)
(* cursor the latest completed run left, records a run, pages through the  *)
(* bank's list and then, in one transaction, imports what it fetched,      *)
(* normalizes it and completes the run with the new cursor.  Every click   *)
(* on "sync now" and every job is a sync of its own, so several overlap.   *)
(*                                                                         *)
(* The first write of an import is the upsert of the account's row, whose  *)
(* lock it keeps until it commits or rolls back: imports take turns.  What *)
(* a transaction has written is kept in its own state until it commits.    *)
(***************************************************************************)
EXTENDS Integers, Sequences, FiniteSets, Sums

CONSTANTS
  Bookings,    \* length the bank's list may reach; booking b is its b-th entry
  Version,     \* numbers a booking's contents: 0 as posted, then as revised
  HasId,       \* bookings with a sourceInquiryNumber, hence a provider id
  HasBalance,  \* bookings with a balance after them
  Day,         \* the day of each booking (value date, else booking date)
  PageSize,    \* bookings of a page the bank answers with
  MaxPages,    \* ABN_SYNC_PAGES
  Resets,      \* whether the bank may withhold a key or void the cursor
  Syncer,      \* requests and jobs that sync
  MaxRuns,     \* bound on the number of runs
  Null

Booking == 1 .. Bookings

\* A raw transaction.  Its source hash covers the contents, so two versions of
\* one booking have different hashes; its provider id is the booking's.
Raw == Booking \X Version

Days == {Day[b] : b \in Booking}

Key == 0 .. Bookings   \* the last booking a page had; 0: no key

ASSUME BankSyncAssumption ==
  /\ Bookings \in Nat /\ MaxRuns \in Nat
  /\ Version \subseteq Nat /\ 0 \in Version /\ IsFiniteSet(Version)
  /\ HasId \subseteq Booking /\ HasBalance \subseteq Booking
  /\ Day \in [Booking -> Nat]
  /\ PageSize \in Nat \ {0} /\ MaxPages \in Nat \ {0}
  /\ Resets \in BOOLEAN
  /\ Null \notin Syncer

VARIABLES
  posted,     \* the bank: bookings 1 .. posted are on the list
  version,    \* the bank: the version of each booking
  raw,        \* raw_transactions, committed
  enriched,   \* the raw transactions with an enriched row, committed
  snapshot,   \* account_balance_snapshots: per day the booking the balance
              \* was taken after, and the run that recorded it
  runs,       \* sync_runs in id order
  clock,      \* now() of the transaction begun last
  account,    \* who holds the lock on the account's row
  sync        \* the syncs in progress

vars == <<posted, version, raw, enriched, snapshot, runs, clock, account, sync>>

Snapshot == [after: Booking, run: Nat]

Run == [status: {"running", "completed", "failed"}, new: Nat, key: Key, at: Nat]

Idle == [pc |-> "idle", run |-> 0, key |-> 0, pages |-> 0, list |-> <<>>,
         done |-> 0, inserted |-> {}, balances |-> [d \in {} |-> 0], at |-> 0]

SyncState ==
  {s \in [pc: {"idle", "start", "fetch", "begin", "import", "failed"}, run: Nat,
          key: Key, pages: Nat, list: Seq(Raw), done: Nat, inserted: SUBSET Raw,
          balances: UNION {[D -> Booking] : D \in SUBSET Days},
          at: Nat] : s.done <= Len(s.list)}

TypeOK ==
  /\ posted \in 0 .. Bookings
  /\ version \in [Booking -> Version]
  /\ raw \subseteq Raw /\ enriched \subseteq Raw
  /\ snapshot \in [Days -> Snapshot \cup {Null}]
  /\ runs \in Seq(Run)
  /\ clock \in Nat
  /\ account \in Syncer \cup {Null}
  /\ sync \in [Syncer -> SyncState]

Init ==
  /\ posted = 0
  /\ version = [b \in Booking |-> 0]
  /\ raw = {} /\ enriched = {}
  /\ snapshot = [d \in Days |-> Null]
  /\ runs = <<>>
  /\ clock = 0
  /\ account = Null
  /\ sync = [p \in Syncer |-> Idle]

-----------------------------------------------------------------------------
(* The bank *)

Post ==
  /\ posted < Bookings
  /\ posted' = posted + 1
  /\ UNCHANGED <<version, raw, enriched, snapshot, runs, clock, account, sync>>

\* A booking on the list changes: another description or counterparty.
Revise(b) ==
  /\ b <= posted
  /\ version[b] + 1 \in Version
  /\ version' = [version EXCEPT ![b] = @ + 1]
  /\ UNCHANGED <<posted, raw, enriched, snapshot, runs, clock, account, sync>>

PageEnd(k) == IF k + PageSize < posted THEN k + PageSize ELSE posted

\* The page after key k.
Page(k) == [i \in 1 .. PageEnd(k) - k |-> <<k + i, version[k + i]>>]

\* The key and the clearCacheIndicator that come with that page.
Answers(k) ==
  {[key |-> PageEnd(k), clear |-> FALSE]} \cup
  (IF Resets
     THEN {[key |-> PageEnd(k), clear |-> TRUE], [key |-> 0, clear |-> FALSE]}
     ELSE {})

-----------------------------------------------------------------------------
(* A sync *)

Completed == {r \in DOMAIN runs : runs[r].status = "completed"}

\* The key of the completed run with the latest finished_at, which is the time
\* its transaction began; 0 when it has none or there is no such run.
Cursors ==
  IF Completed = {} THEN {0}
  ELSE {runs[r].key : r \in {r \in Completed :
                              \A q \in Completed : runs[q].at <= runs[r].at}}

ReadCursor(p) ==
  /\ sync[p].pc = "idle"
  /\ Len(runs) + Cardinality({q \in Syncer : sync[q].pc = "start"}) < MaxRuns
  /\ \E k \in Cursors :
       sync' = [sync EXCEPT ![p] = [Idle EXCEPT !.pc = "start", !.key = k]]
  /\ UNCHANGED <<posted, version, raw, enriched, snapshot, runs, clock, account>>

StartRun(p) ==
  /\ sync[p].pc = "start"
  /\ runs' = Append(runs, [status |-> "running", new |-> 0, key |-> 0, at |-> 0])
  /\ sync' = [sync EXCEPT ![p].pc = "fetch", ![p].run = Len(runs) + 1]
  /\ UNCHANGED <<posted, version, raw, enriched, snapshot, clock, account>>

\* Variant: the list keeps the mutations of the last page only.
FetchPageOverwriting(p) ==
  LET s == sync[p]
  IN /\ s.pc = "fetch"
     /\ \E a \in Answers(s.key) :
          sync' = [sync EXCEPT ![p] =
            [s EXCEPT
               !.pc = IF a.clear \/ a.key \in {0, s.key} \/ s.pages + 1 = MaxPages
                        THEN "begin" ELSE "fetch",
               !.pages = @ + 1,
               !.list = Page(s.key),
               !.key = IF a.clear THEN 0 ELSE a.key]]
     /\ UNCHANGED <<posted, version, raw, enriched, snapshot, runs, clock, account>>

\* The loop ends with a page that clears the cache, brings no key or the key
\* it was asked for, or is the last one allowed.
FetchPage(p) ==
  LET s == sync[p]
  IN /\ s.pc = "fetch"
     /\ \E a \in Answers(s.key) :
          sync' = [sync EXCEPT ![p] =
            [s EXCEPT
               !.pc = IF a.clear \/ a.key \in {0, s.key} \/ s.pages + 1 = MaxPages
                        THEN "begin" ELSE "fetch",
               !.pages = @ + 1,
               !.list = @ \o Page(s.key),
               !.key = IF a.clear THEN 0 ELSE a.key]]
     /\ UNCHANGED <<posted, version, raw, enriched, snapshot, runs, clock, account>>

\* Login, transport and payload errors.
FailFetch(p) ==
  /\ sync[p].pc = "fetch"
  /\ sync' = [sync EXCEPT ![p].pc = "failed"]
  /\ UNCHANGED <<posted, version, raw, enriched, snapshot, runs, clock, account>>

Begin(p) ==
  /\ sync[p].pc = "begin"
  /\ clock' = clock + 1
  /\ sync' = [sync EXCEPT ![p].pc = "import", ![p].at = clock + 1]
  /\ UNCHANGED <<posted, version, raw, enriched, snapshot, runs, account>>

Mutation(p) == sync[p].list[sync[p].done + 1]

\* The sync has a mutation to import and its transaction may touch the account.
Importing(p) ==
  /\ sync[p].pc = "import"
  /\ sync[p].done < Len(sync[p].list)
  /\ account \in {Null, p}

\* UNIQUE (provider, provider_transaction_id) refuses a row whose hash is new.
Conflict(p) ==
  LET m == Mutation(p)
      seen == raw \cup sync[p].inserted
  IN m[1] \in HasId /\ m \notin seen /\ \E v \in Version : <<m[1], v>> \in seen

\* A balance is recorded only if the mutation brings one.
WithBalance(balances, b) ==
  IF b \notin HasBalance THEN balances
  ELSE [d \in DOMAIN balances \cup {Day[b]} |->
          IF d = Day[b] THEN b ELSE balances[d]]

\* upsertAccount, upsertRawTransaction and recordBalanceSnapshot
ImportMutation(p) ==
  LET m == Mutation(p)
  IN /\ Importing(p)
     /\ ~Conflict(p)
     /\ account' = p
     /\ sync' = [sync EXCEPT ![p].done = @ + 1,
                             ![p].inserted = @ \cup ({m} \ raw),
                             ![p].balances = WithBalance(@, m[1])]
     /\ UNCHANGED <<posted, version, raw, enriched, snapshot, runs, clock>>

\* Variant: the client stays inside its transaction, and keeps its locks.
ReleaseNever(p) == account

ReleaseAccount(p) == IF account = p THEN Null ELSE account

\* Any statement of the transaction fails, and it is rolled back.
Rollback(p) ==
  /\ sync[p].pc = "import"
  /\ account' = ReleaseAccount(p)
  /\ sync' = [sync EXCEPT ![p] = [Idle EXCEPT !.pc = "failed", !.run = sync[p].run]]
  /\ UNCHANGED <<posted, version, raw, enriched, snapshot, runs, clock>>

RefuseMutation(p) == Importing(p) /\ Conflict(p) /\ Rollback(p)

\* Variant: mutations seen before are counted as new.
CompletedRunCountingAll(s) ==
  [status |-> "completed", new |-> Len(s.list), key |-> s.key, at |-> s.at]

\* Variant: a key the bank withheld is stored as it came.
CompletedRunUncoalesced(s) ==
  [status |-> "completed", new |-> Cardinality(s.inserted),
   key |-> IF s.key = 0 THEN Null ELSE s.key, at |-> s.at]

CompletedRun(s) ==
  [status |-> "completed", new |-> Cardinality(s.inserted), key |-> s.key,
   at |-> s.at]

\* Normalization, the run's completion and COMMIT.
Commit(p) ==
  LET s == sync[p]
  IN /\ s.pc = "import"
     /\ s.done = Len(s.list)
     /\ raw' = raw \cup s.inserted
     /\ enriched' = enriched \cup raw'
     /\ snapshot' = [d \in DOMAIN snapshot |->
          IF d \in DOMAIN s.balances THEN [after |-> s.balances[d], run |-> s.run]
          ELSE snapshot[d]]
     /\ runs' = [runs EXCEPT ![s.run] = CompletedRun(s)]
     /\ account' = ReleaseAccount(p)
     /\ sync' = [sync EXCEPT ![p] = Idle]
     /\ UNCHANGED <<posted, version, clock>>

\* Variant: the transaction is committed as far as it got.
RecordFailureAfterCommit(p) ==
  /\ sync[p].pc \in {"import", "failed"}
  /\ raw' = raw \cup sync[p].inserted
  /\ runs' = [runs EXCEPT ![sync[p].run].status = "failed"]
  /\ account' = ReleaseAccount(p)
  /\ sync' = [sync EXCEPT ![p] = Idle]
  /\ UNCHANGED <<posted, version, enriched, snapshot, clock>>

RecordFailure(p) ==
  /\ sync[p].pc = "failed"
  /\ runs' = [runs EXCEPT ![sync[p].run].status = "failed"]
  /\ sync' = [sync EXCEPT ![p] = Idle]
  /\ UNCHANGED <<posted, version, raw, enriched, snapshot, clock, account>>

\* The server stops or loses its connection.  PostgreSQL rolls back; nobody
\* records the failure, and the run stays "running".
Stop(p) ==
  /\ sync[p].pc # "idle"
  /\ account' = ReleaseAccount(p)
  /\ sync' = [sync EXCEPT ![p] = Idle]
  /\ UNCHANGED <<posted, version, raw, enriched, snapshot, runs, clock>>

-----------------------------------------------------------------------------
SyncStep(p) ==
  \/ StartRun(p) \/ FetchPage(p) \/ Begin(p) \/ ImportMutation(p)
  \/ RefuseMutation(p) \/ Commit(p) \/ RecordFailure(p)

Next ==
  \/ Post
  \/ \E b \in Booking : Revise(b)
  \/ \E p \in Syncer :
       ReadCursor(p) \/ SyncStep(p) \/ FailFetch(p) \/ Rollback(p) \/ Stop(p)

Spec == Init /\ [][Next]_vars

\* A sync that has begun is carried on: a request to the bank is answered or
\* fails, and waiters get the account's lock in turn.
FairSpec == Spec /\ \A p \in Syncer : SF_vars(SyncStep(p))

-----------------------------------------------------------------------------
(* Properties *)

Imported == {b \in Booking : \E v \in Version : <<b, v>> \in raw}

Ledger == INSTANCE BankLedger WITH ledger <- Imported

\* No booking is ever skipped: wherever overlapping runs, cleared caches,
\* failures and crashes leave the cursor, what is imported is the beginning of
\* the bank's list (fetchMutations, latestMutationCursor, finishSyncRun).
ImportsWithoutGap == Ledger!Spec

\* An import leaves all of its traces or none: each raw transaction has its
\* enriched row, and each balance comes from a completed run and was taken
\* after an imported booking (syncBankTransactions).
ImportsAreWhole ==
  /\ raw = enriched
  /\ \A d \in DOMAIN snapshot : snapshot[d] # Null =>
       snapshot[d].run \in Completed /\ snapshot[d].after \in Imported

\* What the runs report as new adds up to what is stored, also when two of
\* them fetch the same bookings at the same time (RETURNING xmax = 0).
NewCountsAddUp ==
  SumOf([r \in DOMAIN runs |-> runs[r].new], DOMAIN runs) = Cardinality(raw)

\* Every sync that has begun ends, also when it waits for another one's import.
SyncsEnd == \A p \in Syncer : sync[p].pc # "idle" ~> sync[p].pc = "idle"

\* The balance shown, of the latest day with a snapshot, is the one after the
\* last booking imported that brought one (getCurrentBalance).
BalanceIsCurrent ==
  \A d \in DOMAIN snapshot :
    /\ snapshot[d] # Null
    /\ \A e \in DOMAIN snapshot : snapshot[e] # Null => e <= d
    => \A b \in Imported \cap HasBalance : b <= snapshot[d].after

\* A booking with a provider id is recognised by it and imported again
\* (PRD.v2.md, idempotency rules).
KnownBookingsImport ==
  \A p \in Syncer :
    Importing(p) /\ Mutation(p)[1] \in HasId \cap Imported => ~Conflict(p)
=============================================================================
