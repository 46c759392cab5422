-------------------------- MODULE BankSync_proofs ---------------------------
(***************************************************************************)
(* Theorems about BankSync for every bank list, page size, number of pages *)
(* and set of syncs.                                                       *)
(***************************************************************************)
EXTENDS BankSync, Sums_proofs, SequenceTheorems

(* Types.  The page after a key is a sequence only because no key is beyond *)
(* the list, so the type invariant is proved together with that.            *)

KeysPosted ==
  /\ \A r \in DOMAIN runs : runs[r].key <= posted
  /\ \A p \in Syncer : sync[p].key <= posted

TInv == TypeOK /\ KeysPosted

Balances == UNION {[D -> Booking] : D \in SUBSET Days}

LEMMA DayTyped == \A b \in Booking : Day[b] \in Nat /\ Day[b] \in Days
BY BankSyncAssumption DEF Days

LEMMA IdleTyped == Idle \in SyncState /\ Idle.key = 0
<1>1. <<>> \in Seq(Raw) /\ Len(<<>>) = 0
  OBVIOUS
<1>2. [d \in {} |-> 0] \in [{} -> Booking]
  OBVIOUS
<1>3. [d \in {} |-> 0] \in UNION {[D -> Booking] : D \in SUBSET Days}
  BY <1>2
<1>4. 0 \in Key
  BY BankSyncAssumption DEF Key
<1> QED
  BY <1>1, <1>3, <1>4 DEF Idle, SyncState

LEMMA PageTyped ==
  ASSUME TypeOK, NEW k \in Key, k <= posted
  PROVE  /\ PageEnd(k) \in k .. posted /\ PageEnd(k) \in Key
         /\ Page(k) \in Seq(Raw) /\ Len(Page(k)) = PageEnd(k) - k
         /\ \A i \in 1 .. Len(Page(k)) : Page(k)[i][1] = k + i
<1> DEFINE n == PageEnd(k) - k
<1>1. posted \in 0 .. Bookings /\ Bookings \in Nat /\ PageSize \in Nat /\ k \in Nat
  BY BankSyncAssumption DEF TypeOK, Key
<1>2. PageEnd(k) \in k .. posted /\ PageEnd(k) \in Key /\ n \in Nat
  BY <1>1 DEF PageEnd, Key
<1>3. \A i \in 1 .. n : k + i \in Booking
  BY <1>1, <1>2 DEF Booking
<1>4. version \in [Booking -> Version]
  BY DEF TypeOK
<1>5. \A i \in 1 .. n : <<k + i, version[k + i]>> \in Raw
  BY <1>3, <1>4 DEF Raw
<1>6. Page(k) \in [1 .. n -> Raw]
  BY <1>5 DEF Page
<1>7. Page(k) \in Seq(Raw) /\ Len(Page(k)) = n
  BY <1>2, <1>6, SeqDef DEF Page
<1>8. \A i \in 1 .. n : Page(k)[i][1] = k + i
  BY DEF Page
<1> QED
  BY <1>2, <1>7, <1>8

LEMMA AnswersTyped ==
  ASSUME TypeOK, NEW k \in Key, k <= posted, NEW a \in Answers(k)
  PROVE  /\ a.key \in Key /\ a.key <= posted /\ a.key \in {0, PageEnd(k)}
<1>1. PageEnd(k) \in k .. posted /\ PageEnd(k) \in Key
  BY PageTyped
<1>2. 0 \in Key /\ 0 <= posted /\ posted \in Nat
  BY BankSyncAssumption DEF Key, TypeOK
<1>3. \/ a = [key |-> PageEnd(k), clear |-> FALSE]
      \/ a = [key |-> PageEnd(k), clear |-> TRUE]
      \/ a = [key |-> 0, clear |-> FALSE]
  BY DEF Answers
<1>4. k \in Nat
  BY BankSyncAssumption DEF Key
<1>5. a.key \in {0, PageEnd(k)}
  BY <1>3
<1>6. PageEnd(k) <= posted
  BY <1>1, <1>2, <1>4
<1>7. a.key \in Key /\ a.key <= posted
  BY <1>1, <1>2, <1>5, <1>6
<1> QED
  BY <1>5, <1>7

LEMMA ConcatLonger ==
  ASSUME NEW S, NEW u \in Seq(S), NEW w \in Seq(S)
  PROVE  u \o w \in Seq(S) /\ Len(u) <= Len(u \o w) /\ Len(u \o w) \in Nat
<1>1. Len(u) \in Nat /\ Len(w) \in Nat
  BY LenProperties
<1>2. u \o w \in Seq(S) /\ Len(u \o w) = Len(u) + Len(w)
  BY ConcatProperties
<1> QED
  BY <1>1, <1>2

LEMMA RawFinite ==
  ASSUME NEW S, S \subseteq Raw
  PROVE  IsFiniteSet(S) /\ Cardinality(S) \in Nat
<1>1. IsFiniteSet(Booking)
  BY BankSyncAssumption, FS_Interval DEF Booking
<1>2. IsFiniteSet(Raw)
  BY <1>1, BankSyncAssumption, FS_Product DEF Raw
<1>3. IsFiniteSet(S)
  BY <1>2, FS_Subset
<1> QED
  BY <1>3, FS_CardinalityType

\* A sync whose record changes to one of its type leaves the others alone.
LEMMA OneSync ==
  ASSUME TypeOK, NEW p \in Syncer, NEW s \in SyncState,
         sync' = [sync EXCEPT ![p] = s]
  PROVE  /\ sync' \in [Syncer -> SyncState] /\ sync'[p] = s
         /\ \A q \in Syncer : q # p => sync'[q] = sync[q]
BY DEF TypeOK

LEMMA WithBalanceTyped ==
  ASSUME NEW f \in Balances, NEW b \in Booking
  PROVE  WithBalance(f, b) \in Balances
<1>1. PICK D \in SUBSET Days : f \in [D -> Booking]
  BY DEF Balances
<1>2. Day[b] \in Days
  BY DayTyped
<1>3. WithBalance(f, b) = f \/ WithBalance(f, b) \in [D \cup {Day[b]} -> Booking]
  BY <1>1 DEF WithBalance
<1> QED
  BY <1>1, <1>2, <1>3 DEF Balances
(***************************************************************************)
(* Each step of a sync keeps the types and keys within the bank's list.    *)
(***************************************************************************)

\* The parts of TInv that only concern runs and syncs.
Kept == runs' \in Seq(Run) /\ sync' \in [Syncer -> SyncState] /\ KeysPosted'

LEMMA SyncKept ==
  ASSUME TInv, NEW p \in Syncer, NEW s \in SyncState, s.key <= posted,
         sync' = [sync EXCEPT ![p] = s], UNCHANGED <<posted, runs>>
  PROVE  Kept
<1>1. sync' \in [Syncer -> SyncState] /\ \A q \in Syncer : sync'[q] = IF q = p THEN s ELSE sync[q]
  BY OneSync DEF TInv
<1>2. runs' \in Seq(Run)
  BY DEF TInv, TypeOK
<1>3. KeysPosted'
  BY <1>1 DEF TInv, KeysPosted
<1> QED
  BY <1>1, <1>2, <1>3 DEF Kept

LEMMA RunKept ==
  ASSUME TInv, NEW p \in Syncer, NEW s \in SyncState, s.key <= posted,
         sync' = [sync EXCEPT ![p] = s], UNCHANGED posted,
         NEW r \in Nat, NEW x \in Run, x.key <= posted,
         \/ runs' = [runs EXCEPT ![r] = x]
         \/ runs' = Append(runs, x)
  PROVE  Kept
<1>1. sync' \in [Syncer -> SyncState] /\ \A q \in Syncer : sync'[q] = IF q = p THEN s ELSE sync[q]
  BY OneSync DEF TInv
<1>2. runs \in Seq(Run)
  BY DEF TInv, TypeOK
<1>3. runs' \in Seq(Run) /\ \A i \in DOMAIN runs' : runs'[i] = x \/ (i \in DOMAIN runs /\ runs'[i] = runs[i])
  <2>1. CASE runs' = Append(runs, x)
    <3>1. runs' \in Seq(Run) /\ DOMAIN runs' = 1 .. Len(runs) + 1
      BY <1>2, <2>1, AppendProperties
    <3>2. \A i \in 1 .. Len(runs) + 1 : runs'[i] = IF i = Len(runs) + 1 THEN x ELSE runs[i]
      BY <1>2, <2>1, AppendProperties
    <3>3. DOMAIN runs = 1 .. Len(runs) /\ Len(runs) \in Nat
      BY <1>2
    <3>4. ASSUME NEW i \in DOMAIN runs'
          PROVE  runs'[i] = x \/ (i \in DOMAIN runs /\ runs'[i] = runs[i])
      <4>1. i \in 1 .. Len(runs) + 1
        BY <3>1
      <4>2. i = Len(runs) + 1 \/ i \in 1 .. Len(runs)
        BY <3>3, <4>1
      <4> QED
        BY <3>2, <3>3, <4>1, <4>2
    <3> QED
      BY <3>1, <3>4
  <2>2. CASE runs' = [runs EXCEPT ![r] = x]
    <3>1. DOMAIN runs' = DOMAIN runs /\ \A i \in DOMAIN runs : runs'[i] = IF i = r THEN x ELSE runs[i]
      BY <2>2
    <3>2. CASE r \in 1 .. Len(runs)
      <4>1. [runs EXCEPT ![r] = x] \in Seq(Run)
        BY <1>2, <3>2, ExceptSeq
      <4> QED
        BY <2>2, <3>1, <4>1
    <3>3. CASE r \notin DOMAIN runs
      <4>1. runs' = runs
        BY <1>2, <2>2, <3>3
      <4> QED
        BY <1>2, <4>1
    <3> QED
      BY <1>2, <3>2, <3>3
  <2> QED
    BY <2>1, <2>2
<1>4. KeysPosted'
  BY <1>1, <1>3 DEF TInv, KeysPosted
<1> QED
  BY <1>1, <1>3, <1>4 DEF Kept

LEMMA CursorTyped ==
  ASSUME TInv, NEW k \in Cursors
  PROVE  k \in Key /\ k <= posted
<1>1. 0 \in Key /\ posted \in Nat
  BY BankSyncAssumption DEF Key, TInv, TypeOK
<1>2. \A r \in DOMAIN runs : runs[r] \in Run
  BY DEF TInv, TypeOK
<1>3. CASE k = 0
  BY <1>1, <1>3
<1>4. CASE \E r \in Completed : k = runs[r].key
  BY <1>2, <1>4 DEF Completed, TInv, KeysPosted, Run
<1> QED
  BY <1>3, <1>4 DEF Cursors

LEMMA PostKept == ASSUME TInv, Post PROVE TInv'
<1>1. posted' \in 0 .. Bookings /\ posted' >= posted /\ posted \in Nat
  BY BankSyncAssumption DEF TInv, TypeOK, Post
<1>2. TypeOK'
  BY <1>1 DEF TInv, TypeOK, Post
<1>3. \A p \in Syncer : sync[p].key \in Nat
  BY BankSyncAssumption DEF TInv, TypeOK, SyncState, Key
<1>4. \A r \in DOMAIN runs : runs[r].key \in Nat
  <2>1. \A r \in DOMAIN runs : runs[r] \in Run
    BY DEF TInv, TypeOK
  <2> QED
    BY <2>1, BankSyncAssumption DEF Run, Key
<1>5. KeysPosted'
  BY <1>1, <1>3, <1>4 DEF TInv, KeysPosted, Post
<1> QED
  BY <1>2, <1>5 DEF TInv

LEMMA ReviseKept == ASSUME TInv, NEW b \in Booking, Revise(b) PROVE TInv'
BY DEF TInv, TypeOK, KeysPosted, Revise

\* The tables a step may leave alone.
Tables == <<posted, version, raw, enriched, snapshot>>

LEMMA KeptSuffices ==
  ASSUME TInv, Kept, UNCHANGED Tables, clock' \in Nat, account' \in Syncer \cup {Null}
  PROVE  TInv'
BY DEF TInv, TypeOK, Kept, Tables

LEMMA ReadCursorKept == ASSUME TInv, NEW p \in Syncer, ReadCursor(p) PROVE TInv'
<1>1. PICK k \in Cursors : sync' = [sync EXCEPT ![p] = [Idle EXCEPT !.pc = "start", !.key = k]]
  BY DEF ReadCursor
<1> DEFINE s == [Idle EXCEPT !.pc = "start", !.key = k]
<1>2. k \in Key /\ k <= posted
  BY CursorTyped
<1>3. s \in SyncState /\ s.key = k
  BY <1>2, IdleTyped DEF SyncState, Idle
<1>4. UNCHANGED <<posted, runs>> /\ UNCHANGED Tables /\ UNCHANGED <<clock, account>>
  BY DEF ReadCursor, Tables
<1>5. Kept
  BY <1>1, <1>2, <1>3, <1>4, SyncKept
<1> QED
  BY <1>4, <1>5, KeptSuffices DEF TInv, TypeOK

LEMMA StartRunKept == ASSUME TInv, NEW p \in Syncer, StartRun(p) PROVE TInv'
<1> DEFINE s == [sync[p] EXCEPT !.pc = "fetch", !.run = Len(runs) + 1]
           x == [status |-> "running", new |-> 0, key |-> 0, at |-> 0]
<1>1. sync' = [sync EXCEPT ![p] = s] /\ runs' = Append(runs, x)
  BY DEF StartRun, TInv, TypeOK, SyncState
<1>2. x \in Run /\ x.key <= posted
  BY BankSyncAssumption DEF Run, Key, TInv, TypeOK
<1>3. s \in SyncState /\ s.key <= posted
  <2>1. sync[p] \in SyncState /\ Len(runs) + 1 \in Nat
    BY DEF TInv, TypeOK
  <2>2. s.key = sync[p].key /\ s \in SyncState
    BY <2>1 DEF SyncState
  <2> QED
    BY <2>2 DEF TInv, KeysPosted
<1>4. UNCHANGED Tables /\ UNCHANGED <<posted, clock, account>>
  BY DEF StartRun, Tables
<1>5. Kept
  BY <1>1, <1>2, <1>3, <1>4, RunKept
<1> QED
  BY <1>4, <1>5, KeptSuffices DEF TInv, TypeOK

LEMMA FetchPageKept == ASSUME TInv, NEW p \in Syncer, FetchPage(p) PROVE TInv'
<1> DEFINE s == sync[p]
           t(a) == [s EXCEPT
               !.pc = IF a.clear \/ a.key \in {0, s.key} \/ s.pages + 1 = MaxPages
                        THEN "begin" ELSE "fetch",
               !.pages = @ + 1,
               !.list = @ \o Page(s.key),
               !.key = IF a.clear THEN 0 ELSE a.key]
<1>1. PICK a \in Answers(s.key) : sync' = [sync EXCEPT ![p] = t(a)]
  BY DEF FetchPage
<1>2. s \in SyncState /\ s.key \in Key /\ s.key <= posted /\ TypeOK
  BY DEF TInv, TypeOK, SyncState, KeysPosted
<1>3. a.key \in Key /\ a.key <= posted
  BY <1>2, AnswersTyped
<1>4. s.list \in Seq(Raw) /\ Page(s.key) \in Seq(Raw)
  BY <1>2, PageTyped DEF SyncState
<1> DEFINE l == s.list \o Page(s.key)
<1> HIDE DEF l
<1>5. l \in Seq(Raw) /\ Len(s.list) <= Len(l) /\ Len(l) \in Nat
  BY <1>4, ConcatLonger DEF l
<1>6. 0 \in Key /\ 0 <= posted
  BY BankSyncAssumption DEF Key, TInv, TypeOK
<1>7. t(a) \in SyncState /\ t(a).key <= posted
  <2> DEFINE c == IF a.clear \/ a.key \in {0, s.key} \/ s.pages + 1 = MaxPages
                    THEN "begin" ELSE "fetch"
             k == IF a.clear THEN 0 ELSE a.key
  <2>1. c \in {"begin", "fetch"} /\ k \in Key /\ k <= posted
    BY <1>3, <1>6
  <2>2. t(a) = [s EXCEPT !.pc = c, !.pages = s.pages + 1, !.list = l, !.key = k]
    BY <1>2 DEF SyncState, l
  <2>3. s.pages + 1 \in Nat /\ s.done \in Nat /\ s.done <= Len(l) /\ Len(l) \in Nat
    <3>1. s.pages \in Nat /\ s.done \in Nat /\ s.done <= Len(s.list)
      BY <1>2 DEF SyncState
    <3>2. Len(s.list) \in Nat
      BY <1>4, LenProperties
    <3> HIDE DEF s
    <3> QED
      BY <1>5, <3>1, <3>2
  <2> HIDE DEF c, k, t
  <2>4. [s EXCEPT !.pc = c, !.pages = s.pages + 1, !.list = l, !.key = k] \in SyncState
    BY <1>2, <1>5, <2>1, <2>3 DEF SyncState
  <2>5. [s EXCEPT !.pc = c, !.pages = s.pages + 1, !.list = l, !.key = k].key = k
    BY <1>2 DEF SyncState
  <2> QED
    BY <2>1, <2>2, <2>4, <2>5
<1>8. UNCHANGED Tables /\ UNCHANGED <<posted, runs, clock, account>>
  BY DEF FetchPage, Tables
<1>9. Kept
  BY <1>1, <1>7, <1>8, SyncKept
<1> QED
  BY <1>8, <1>9, KeptSuffices DEF TInv, TypeOK

LEMMA FailFetchKept == ASSUME TInv, NEW p \in Syncer, FailFetch(p) PROVE TInv'
<1> DEFINE s == [sync[p] EXCEPT !.pc = "failed"]
<1>1. sync' = [sync EXCEPT ![p] = s]
  BY DEF FailFetch, TInv, TypeOK, SyncState
<1>2. s \in SyncState /\ s.key <= posted
  BY DEF TInv, TypeOK, SyncState, KeysPosted
<1>3. UNCHANGED Tables /\ UNCHANGED <<posted, runs, clock, account>>
  BY DEF FailFetch, Tables
<1>4. Kept
  BY <1>1, <1>2, <1>3, SyncKept
<1> QED
  BY <1>3, <1>4, KeptSuffices DEF TInv, TypeOK

LEMMA BeginKept == ASSUME TInv, NEW p \in Syncer, Begin(p) PROVE TInv'
<1> DEFINE s == [sync[p] EXCEPT !.pc = "import", !.at = clock + 1]
<1>1. sync' = [sync EXCEPT ![p] = s]
  BY DEF Begin, TInv, TypeOK, SyncState
<1>2. s \in SyncState /\ s.key <= posted
  <2>1. sync[p] \in SyncState /\ clock + 1 \in Nat
    BY DEF TInv, TypeOK
  <2>2. s.key = sync[p].key /\ s \in SyncState
    BY <2>1 DEF SyncState
  <2> QED
    BY <2>2 DEF TInv, KeysPosted
<1>3. UNCHANGED Tables /\ UNCHANGED <<posted, runs, account>> /\ clock' \in Nat
  BY DEF Begin, Tables, TInv, TypeOK
<1>4. Kept
  BY <1>1, <1>2, <1>3, SyncKept
<1> QED
  BY <1>3, <1>4, KeptSuffices DEF TInv, TypeOK

\* The mutation a sync imports next is one of its list.
LEMMA MutationTyped ==
  ASSUME TInv, NEW p \in Syncer, Importing(p)
  PROVE  /\ sync[p].done + 1 \in 1 .. Len(sync[p].list)
         /\ Mutation(p) \in Raw /\ Mutation(p)[1] \in Booking
<1>1. sync[p].list \in Seq(Raw) /\ sync[p].done \in Nat /\ sync[p].done < Len(sync[p].list)
  BY DEF TInv, TypeOK, SyncState, Importing
<1>2. sync[p].done + 1 \in 1 .. Len(sync[p].list)
  BY <1>1
<1>3. Mutation(p) \in Raw
  BY <1>1, <1>2, ElementOfSeq DEF Mutation
<1> QED
  BY <1>2, <1>3 DEF Raw

LEMMA ImportMutationKept == ASSUME TInv, NEW p \in Syncer, ImportMutation(p) PROVE TInv'
<1> DEFINE m == Mutation(p)
           s == [sync[p] EXCEPT !.done = @ + 1,
                                !.inserted = @ \cup ({m} \ raw),
                                !.balances = WithBalance(@, m[1])]
<1>1. sync' = [sync EXCEPT ![p] = s]
  BY DEF ImportMutation, TInv, TypeOK, SyncState
<1>2. sync[p].done + 1 \in 1 .. Len(sync[p].list) /\ m \in Raw /\ m[1] \in Booking
  BY MutationTyped DEF ImportMutation
<1>3. sync[p] \in SyncState
  BY DEF TInv, TypeOK
<1>4. WithBalance(sync[p].balances, m[1]) \in UNION {[D -> Booking] : D \in SUBSET Days}
  BY <1>2, <1>3, WithBalanceTyped DEF Balances, SyncState
<1>5. s \in SyncState
  <2> DEFINE i == sync[p].inserted \cup ({m} \ raw)
             w == WithBalance(sync[p].balances, m[1])
             d == sync[p].done + 1
  <2>1. s = [sync[p] EXCEPT !.done = d, !.inserted = i, !.balances = w]
    BY <1>3 DEF SyncState
  <2>2. i \subseteq Raw
    BY <1>2, <1>3 DEF SyncState
  <2>3. d \in Nat /\ d <= Len(sync[p].list)
    BY <1>2, <1>3 DEF SyncState
  <2> HIDE DEF i, w, d
  <2>4. w \in UNION {[D -> Booking] : D \in SUBSET Days}
    BY <1>4 DEF w
  <2> QED
    BY <1>3, <2>1, <2>2, <2>3, <2>4 DEF SyncState
<1>6. s.key <= posted
  BY <1>3 DEF TInv, KeysPosted, SyncState
<1>7. UNCHANGED Tables /\ UNCHANGED <<posted, runs, clock>> /\ account' = p
  BY DEF ImportMutation, Tables
<1>8. Kept
  BY <1>1, <1>5, <1>6, <1>7, SyncKept
<1> QED
  BY <1>7, <1>8, KeptSuffices DEF TInv, TypeOK

LEMMA ReleaseTyped ==
  ASSUME TypeOK, NEW p \in Syncer PROVE ReleaseAccount(p) \in Syncer \cup {Null}
BY DEF TypeOK, ReleaseAccount

LEMMA RollbackKept == ASSUME TInv, NEW p \in Syncer, Rollback(p) PROVE TInv'
<1> DEFINE s == [Idle EXCEPT !.pc = "failed", !.run = sync[p].run]
<1>1. sync' = [sync EXCEPT ![p] = s]
  BY DEF Rollback
<1>2. s \in SyncState /\ s.key = 0
  BY IdleTyped DEF TInv, TypeOK, SyncState, Idle
<1>3. 0 <= posted
  BY BankSyncAssumption DEF TInv, TypeOK
<1>4. UNCHANGED Tables /\ UNCHANGED <<posted, runs, clock>> /\ account' \in Syncer \cup {Null}
  BY ReleaseTyped DEF Rollback, Tables, TInv
<1>5. Kept
  BY <1>1, <1>2, <1>3, <1>4, SyncKept
<1> QED
  BY <1>4, <1>5, KeptSuffices DEF TInv, TypeOK

LEMMA CommitKept == ASSUME TInv, NEW p \in Syncer, Commit(p) PROVE TInv'
<1> DEFINE s == sync[p]
           x == CompletedRun(s)
<1>1. s \in SyncState /\ s.key <= posted /\ s.run \in Nat /\ s.inserted \subseteq Raw
  BY DEF TInv, TypeOK, SyncState, KeysPosted
<1>2. Cardinality(s.inserted) \in Nat
  BY <1>1, RawFinite
<1>3. x \in Run /\ x.key <= posted
  BY <1>1, <1>2 DEF CompletedRun, Run, SyncState
<1>4. sync' = [sync EXCEPT ![p] = Idle] /\ runs' = [runs EXCEPT ![s.run] = x]
  BY DEF Commit
<1>5. Idle \in SyncState /\ Idle.key <= posted
  BY IdleTyped, BankSyncAssumption DEF TInv, TypeOK
<1>6. UNCHANGED <<posted, version, clock>> /\ account' \in Syncer \cup {Null}
  BY ReleaseTyped DEF Commit, TInv
<1>7. Kept
  BY <1>1, <1>3, <1>4, <1>5, <1>6, RunKept
<1>8. raw' \subseteq Raw /\ enriched' \subseteq Raw
  BY <1>1 DEF Commit, TInv, TypeOK
<1>9. PICK D \in SUBSET Days : s.balances \in [D -> Booking]
  BY <1>1 DEF SyncState
<1>10. snapshot' \in [Days -> Snapshot \cup {Null}]
  BY <1>1, <1>9 DEF Commit, Snapshot, TInv, TypeOK
<1> QED
  BY <1>6, <1>7, <1>8, <1>10 DEF TInv, TypeOK, Kept

LEMMA RecordFailureKept == ASSUME TInv, NEW p \in Syncer, RecordFailure(p) PROVE TInv'
<1> DEFINE r == sync[p].run
           x == [runs[r] EXCEPT !.status = "failed"]
<1>1. r \in Nat /\ runs \in Seq(Run)
  BY DEF TInv, TypeOK, SyncState
<1>2. sync' = [sync EXCEPT ![p] = Idle] /\ runs' = [runs EXCEPT ![r] = x]
  BY <1>1 DEF RecordFailure
<1>3. Idle \in SyncState /\ Idle.key <= posted
  BY IdleTyped, BankSyncAssumption DEF TInv, TypeOK
<1>4. UNCHANGED Tables /\ UNCHANGED <<posted, clock, account>>
  BY DEF RecordFailure, Tables
<1>5. CASE r \in DOMAIN runs
  <2>1. runs[r] \in Run /\ runs[r].key <= posted
    BY <1>1, <1>5 DEF TInv, KeysPosted
  <2>2. x \in Run /\ x.key <= posted
    BY <2>1 DEF Run
  <2>3. Kept
    BY <1>1, <1>2, <1>3, <1>4, <2>2, RunKept
  <2> QED
    BY <1>4, <2>3, KeptSuffices DEF TInv, TypeOK
<1>6. CASE r \notin DOMAIN runs
  <2>1. runs' = runs
    BY <1>1, <1>2, <1>6
  <2>2. Kept
    BY <1>2, <1>3, <1>4, <2>1, SyncKept
  <2> QED
    BY <1>4, <2>2, KeptSuffices DEF TInv, TypeOK
<1> QED
  BY <1>5, <1>6

LEMMA StopKept == ASSUME TInv, NEW p \in Syncer, Stop(p) PROVE TInv'
<1>1. sync' = [sync EXCEPT ![p] = Idle]
  BY DEF Stop
<1>2. Idle \in SyncState /\ Idle.key <= posted
  BY IdleTyped, BankSyncAssumption DEF TInv, TypeOK
<1>3. UNCHANGED Tables /\ UNCHANGED <<posted, runs, clock>> /\ account' \in Syncer \cup {Null}
  BY ReleaseTyped DEF Stop, Tables, TInv
<1>4. Kept
  BY <1>1, <1>2, <1>3, SyncKept
<1> QED
  BY <1>3, <1>4, KeptSuffices DEF TInv, TypeOK

LEMMA InitTyped == Init => TInv
<1> SUFFICES ASSUME Init PROVE TInv
  OBVIOUS
<1>1. Idle \in SyncState /\ Idle.key = 0
  BY IdleTyped
<1>2. posted = 0 /\ posted \in 0 .. Bookings /\ 0 \in Version /\ runs = <<>> /\ runs \in Seq(Run)
  BY BankSyncAssumption DEF Init
<1>3. TypeOK
  BY <1>1, <1>2 DEF Init, TypeOK
<1>4. KeysPosted
  BY <1>1, <1>2 DEF Init, KeysPosted
<1> QED
  BY <1>3, <1>4 DEF TInv

LEMMA StepTyped == TInv /\ [Next]_vars => TInv'
<1> SUFFICES ASSUME TInv, [Next]_vars PROVE TInv'
  OBVIOUS
<1>1. CASE Post
  BY <1>1, PostKept
<1>2. CASE \E b \in Booking : Revise(b)
  BY <1>2, ReviseKept
<1>3. ASSUME NEW p \in Syncer,
             ReadCursor(p) \/ SyncStep(p) \/ FailFetch(p) \/ Rollback(p) \/ Stop(p)
      PROVE  TInv'
  <2>1. CASE ReadCursor(p)
    BY <2>1, ReadCursorKept
  <2>2. CASE StartRun(p)
    BY <2>2, StartRunKept
  <2>3. CASE FetchPage(p)
    BY <2>3, FetchPageKept
  <2>4. CASE FailFetch(p)
    BY <2>4, FailFetchKept
  <2>5. CASE Begin(p)
    BY <2>5, BeginKept
  <2>6. CASE ImportMutation(p)
    BY <2>6, ImportMutationKept
  <2>7. CASE RefuseMutation(p) \/ Rollback(p)
    BY <2>7, RollbackKept DEF RefuseMutation
  <2>8. CASE Commit(p)
    BY <2>8, CommitKept
  <2>9. CASE RecordFailure(p)
    BY <2>9, RecordFailureKept
  <2>10. CASE Stop(p)
    BY <2>10, StopKept
  <2> QED
    BY <1>3, <2>1, <2>2, <2>3, <2>4, <2>5, <2>6, <2>7, <2>8, <2>9, <2>10 DEF SyncStep
<1>4. CASE UNCHANGED vars
  BY <1>4 DEF vars, TInv, TypeOK, KeysPosted
<1> QED
  BY <1>1, <1>2, <1>3, <1>4 DEF Next

\* Tables, runs and syncs keep their types for every bank list, page size and
\* set of syncs, and no run asks the bank for more than it has.
THEOREM TypeCorrect == Spec => []TypeOK
<1>1. TInv => TypeOK
  BY DEF TInv
<1> QED
  BY <1>1, InitTyped, StepTyped, PTL DEF Spec

(***************************************************************************)
(* No gap.  A sync whose cursor is k has fetched the bookings after k one   *)
(* after the other, k and all before it were imported when the cursor was   *)
(* written, and its transaction has those of its list it is done with.      *)
(***************************************************************************)

Follows(s, k, I) ==
  /\ 1 .. k \subseteq I
  /\ \A i \in 1 .. Len(s.list) : s.list[i][1] = k + i
  /\ s.key \in {0, k + Len(s.list)}
  /\ s.pc \in {"start", "fetch"} => s.key = k + Len(s.list)
  /\ \A m \in s.inserted : m[1] \in k + 1 .. k + s.done
  /\ \A b \in k + 1 .. k + s.done : b \in I \/ \E m \in s.inserted : m[1] = b

Gapless == \E n \in 0 .. Bookings : Imported = 1 .. n

RunsCovered == \A r \in DOMAIN runs : 1 .. runs[r].key \subseteq Imported

SyncsFollow == \A p \in Syncer : \E k \in Key : Follows(sync[p], k, Imported)

IInv == TInv /\ Gapless /\ RunsCovered /\ SyncsFollow

LEMMA FollowsMore ==
  ASSUME NEW s, NEW k, NEW I, NEW J, I \subseteq J, Follows(s, k, I)
  PROVE  Follows(s, k, J)
BY DEF Follows

\* A sync that has nothing follows any cursor that was imported.
LEMMA EmptyFollows ==
  ASSUME NEW I, NEW k \in Nat, 1 .. k \subseteq I, NEW s,
         s.list = <<>>, s.done = 0, s.inserted = {}, s.key \in {0, k},
         s.pc \in {"start", "fetch"} => s.key = k
  PROVE  Follows(s, k, I)
<1>1. Len(s.list) = 0
  OBVIOUS
<1>2. k + Len(s.list) = k
  BY <1>1
<1>3. 1 .. Len(s.list) = {} /\ k + 1 .. k + s.done = {}
  BY <1>1
<1> QED
  BY <1>2, <1>3 DEF Follows

LEMMA FollowersKept ==
  ASSUME IInv, NEW p \in Syncer, Imported \subseteq Imported',
         \A q \in Syncer : q # p => sync'[q] = sync[q],
         NEW k \in Key, Follows(sync'[p], k, Imported')
  PROVE  SyncsFollow'
<1> SUFFICES ASSUME NEW q \in Syncer PROVE \E j \in Key : Follows(sync'[q], j, Imported')
  BY DEF SyncsFollow
<1>1. CASE q = p
  BY <1>1
<1>2. CASE q # p
  <2>1. PICK j \in Key : Follows(sync[q], j, Imported)
    BY DEF IInv, SyncsFollow
  <2>2. Follows(sync[q], j, Imported')
    BY <2>1, FollowsMore
  <2> QED
    BY <1>2, <2>2
<1> QED
  BY <1>1, <1>2

\* A step that imports nothing needs to look at the runs and one sync only.
LEMMA QuietStep ==
  ASSUME IInv, TInv', raw' = raw, NEW p \in Syncer,
         \A q \in Syncer : q # p => sync'[q] = sync[q],
         NEW k \in Key, Follows(sync'[p], k, Imported),
         \A r \in DOMAIN runs' : runs'[r].key = 0 \/ (r \in DOMAIN runs /\ runs'[r].key = runs[r].key)
  PROVE  IInv'
<1>1. Imported' = Imported
  BY DEF Imported
<1>2. Gapless'
  BY <1>1 DEF IInv, Gapless
<1>3. RunsCovered'
  <2> SUFFICES ASSUME NEW r \in DOMAIN runs' PROVE 1 .. runs'[r].key \subseteq Imported'
    BY DEF RunsCovered
  <2>1. CASE runs'[r].key = 0
    BY <2>1
  <2>2. CASE r \in DOMAIN runs /\ runs'[r].key = runs[r].key
    BY <1>1, <2>2 DEF IInv, RunsCovered
  <2> QED
    BY <2>1, <2>2
<1>4. SyncsFollow'
  BY <1>1, FollowersKept
<1> QED
  BY <1>2, <1>3, <1>4 DEF IInv

LEMMA KeyNat == \A k \in Key : k \in Nat
BY BankSyncAssumption DEF Key

LEMMA ReadCursorFollows ==
  ASSUME IInv, TInv', NEW p \in Syncer, ReadCursor(p) PROVE IInv'
<1>1. PICK k \in Cursors : sync' = [sync EXCEPT ![p] = [Idle EXCEPT !.pc = "start", !.key = k]]
  BY DEF ReadCursor
<1>2. k \in Key /\ k \in Nat
  BY CursorTyped, KeyNat DEF IInv
<1>3. 1 .. k \subseteq Imported
  <2>1. CASE k = 0
    BY <2>1
  <2>2. CASE \E r \in Completed : k = runs[r].key
    BY <2>2 DEF Completed, IInv, RunsCovered
  <2> QED
    BY <2>1, <2>2 DEF Cursors
<1>4. sync'[p] = [Idle EXCEPT !.pc = "start", !.key = k] /\ \A q \in Syncer : q # p => sync'[q] = sync[q]
  BY <1>1 DEF IInv, TInv, TypeOK
<1>5. Follows(sync'[p], k, Imported)
  BY <1>2, <1>3, <1>4, EmptyFollows DEF Idle
<1> QED
  BY <1>2, <1>4, <1>5, QuietStep DEF ReadCursor

LEMMA StartRunFollows ==
  ASSUME IInv, TInv', NEW p \in Syncer, StartRun(p) PROVE IInv'
<1>1. PICK k \in Key : Follows(sync[p], k, Imported)
  BY DEF IInv, SyncsFollow
<1>2. sync[p] \in SyncState /\ runs \in Seq(Run)
  BY DEF IInv, TInv, TypeOK
<1>3. /\ sync'[p] = [sync[p] EXCEPT !.pc = "fetch", !.run = Len(runs) + 1]
      /\ \A q \in Syncer : q # p => sync'[q] = sync[q]
  BY <1>2 DEF StartRun, IInv, TInv, TypeOK, SyncState
<1>4. Follows(sync'[p], k, Imported)
  <2>1. /\ sync'[p].list = sync[p].list /\ sync'[p].done = sync[p].done
        /\ sync'[p].key = sync[p].key /\ sync'[p].inserted = sync[p].inserted
    BY <1>2, <1>3 DEF SyncState
  <2>2. sync[p].pc = "start"
    BY DEF StartRun
  <2> QED
    BY <1>1, <2>1, <2>2 DEF Follows
<1> DEFINE x == [status |-> "running", new |-> 0, key |-> 0, at |-> 0]
<1>5. \A r \in DOMAIN runs' : runs'[r].key = 0 \/ (r \in DOMAIN runs /\ runs'[r].key = runs[r].key)
  <2>1. x \in Run /\ runs' = Append(runs, x)
    BY BankSyncAssumption DEF Run, Key, StartRun
  <2>2. Len(runs) \in Nat /\ DOMAIN runs = 1 .. Len(runs)
    BY <1>2
  <2>3. DOMAIN runs' = 1 .. Len(runs) + 1
    BY <1>2, <2>1, AppendProperties
  <2> SUFFICES ASSUME NEW r \in 1 .. Len(runs) + 1
               PROVE  runs'[r].key = 0 \/ (r \in DOMAIN runs /\ runs'[r].key = runs[r].key)
    BY <2>3
  <2>4. CASE r = Len(runs) + 1
    BY <1>2, <2>1, <2>4, AppendProperties
  <2>5. CASE r \in 1 .. Len(runs)
    BY <1>2, <2>1, <2>2, <2>5, AppendProperties
  <2> QED
    BY <2>2, <2>4, <2>5
<1> QED
  BY <1>3, <1>4, <1>5, QuietStep DEF StartRun

\* A step of a sync whose list, progress and key stay as they are.
LEMMA OnwardFollows ==
  ASSUME IInv, TInv', NEW p \in Syncer, NEW s, sync' = [sync EXCEPT ![p] = s],
         s.list = sync[p].list, s.done = sync[p].done, s.key = sync[p].key,
         s.inserted = sync[p].inserted, s.pc \notin {"start", "fetch"},
         UNCHANGED <<raw, runs>>
  PROVE  IInv'
<1>1. PICK k \in Key : Follows(sync[p], k, Imported)
  BY DEF IInv, SyncsFollow
<1>2. sync'[p] = s /\ \A q \in Syncer : q # p => sync'[q] = sync[q]
  BY DEF IInv, TInv, TypeOK
<1>3. Follows(sync'[p], k, Imported)
  BY <1>1, <1>2 DEF Follows
<1> QED
  BY <1>2, <1>3, QuietStep

\* A step that gives up what a sync has fetched.
LEMMA EndingFollows ==
  ASSUME IInv, TInv', NEW p \in Syncer, NEW s, sync' = [sync EXCEPT ![p] = s],
         s.list = <<>>, s.done = 0, s.inserted = {}, s.key = 0, raw' = raw,
         \A r \in DOMAIN runs' : r \in DOMAIN runs /\ runs'[r].key = runs[r].key
  PROVE  IInv'
<1>1. sync'[p] = s /\ \A q \in Syncer : q # p => sync'[q] = sync[q]
  BY DEF IInv, TInv, TypeOK
<1>2. Follows(sync'[p], 0, Imported)
  BY <1>1, EmptyFollows
<1>3. 0 \in Key
  BY BankSyncAssumption DEF Key
<1> QED
  BY <1>1, <1>2, <1>3, QuietStep

LEMMA FetchPageFollows ==
  ASSUME IInv, TInv', NEW p \in Syncer, FetchPage(p) PROVE IInv'
<1>1. PICK k \in Key : Follows(sync[p], k, Imported)
  BY DEF IInv, SyncsFollow
<1> DEFINE s == sync[p]
           u == s.list
           w == Page(s.key)
<1>2. s \in SyncState /\ s.pc = "fetch" /\ s.key \in Key /\ s.key <= posted /\ k \in Nat
  BY KeyNat DEF IInv, TInv, TypeOK, SyncState, KeysPosted, FetchPage
<1>3. PICK a \in Answers(s.key) :
        /\ sync'[p].list = u \o w
        /\ sync'[p].key = IF a.clear THEN 0 ELSE a.key
        /\ sync'[p].done = s.done /\ sync'[p].inserted = s.inserted
        /\ sync'[p].pc = IF a.clear \/ a.key \in {0, s.key} \/ s.pages + 1 = MaxPages
                           THEN "begin" ELSE "fetch"
        /\ \A q \in Syncer : q # p => sync'[q] = sync[q]
  <2> DEFINE c(a) == IF a.clear \/ a.key \in {0, s.key} \/ s.pages + 1 = MaxPages
                       THEN "begin" ELSE "fetch"
             j(a) == IF a.clear THEN 0 ELSE a.key
             t(a) == [s EXCEPT !.pc = c(a), !.pages = @ + 1, !.list = @ \o w, !.key = j(a)]
  <2>1. PICK a \in Answers(s.key) : sync' = [sync EXCEPT ![p] = t(a)]
    BY DEF FetchPage
  <2>2. sync'[p] = t(a) /\ \A q \in Syncer : q # p => sync'[q] = sync[q]
    BY <2>1 DEF IInv, TInv, TypeOK
  <2>3. /\ t(a).list = u \o w /\ t(a).key = j(a) /\ t(a).pc = c(a)
        /\ t(a).done = s.done /\ t(a).inserted = s.inserted
    <3> HIDE DEF c, j, w
    <3> QED
      BY <1>2 DEF SyncState
  <2> QED
    BY <2>2, <2>3
<1>4. u \in Seq(Raw) /\ s.key = k + Len(u) /\ \A i \in 1 .. Len(u) : u[i][1] = k + i
  BY <1>1, <1>2 DEF Follows, SyncState
<1>5. /\ w \in Seq(Raw) /\ Len(w) = PageEnd(s.key) - s.key
      /\ \A i \in 1 .. Len(w) : w[i][1] = s.key + i
  BY <1>2, PageTyped DEF IInv, TInv
<1>6. a.key \in {0, PageEnd(s.key)} /\ PageEnd(s.key) \in Nat /\ s.key \in Nat
  BY <1>2, AnswersTyped, PageTyped, KeyNat DEF IInv, TInv
<1>7. Len(u) \in Nat /\ Len(w) \in Nat
  BY <1>4, <1>5, LenProperties
<1> HIDE DEF u, w
<1>8. Len(u \o w) = Len(u) + Len(w)
  BY <1>4, <1>5, ConcatProperties
<1>9. PageEnd(s.key) = k + Len(u \o w)
  <2>1. Len(w) = PageEnd(s.key) - s.key
    BY <1>5
  <2> HIDE DEF s
  <2> QED
    BY <1>2, <1>4, <1>6, <1>7, <1>8, <2>1
<1>10. \A i \in 1 .. Len(u \o w) : (u \o w)[i][1] = k + i
  <2> SUFFICES ASSUME NEW i \in 1 .. Len(u) + Len(w) PROVE (u \o w)[i][1] = k + i
    BY <1>8
  <2>1. (u \o w)[i] = IF i <= Len(u) THEN u[i] ELSE w[i - Len(u)]
    BY <1>4, <1>5, ConcatProperties
  <2>2. CASE i <= Len(u)
    BY <1>4, <1>7, <2>1, <2>2
  <2>3. CASE ~(i <= Len(u))
    <3>1. i - Len(u) \in 1 .. Len(w)
      BY <1>7, <2>3
    <3>2. w[i - Len(u)][1] = (k + Len(u)) + (i - Len(u))
      BY <1>4, <1>5, <3>1
    <3> QED
      BY <1>2, <1>7, <2>1, <2>3, <3>2
  <2> QED
    BY <2>2, <2>3
<1>11. sync'[p].key \in {0, k + Len(u \o w)}
  BY <1>3, <1>6, <1>9
<1>12. sync'[p].pc \in {"start", "fetch"} => sync'[p].key = k + Len(u \o w)
  BY <1>3, <1>6, <1>9
<1>13. Follows(sync'[p], k, Imported)
  BY <1>1, <1>3, <1>10, <1>11, <1>12 DEF Follows
<1>14. raw' = raw /\ runs' = runs
  BY DEF FetchPage
<1> QED
  BY <1>3, <1>13, <1>14, QuietStep

LEMMA ImportMutationFollows ==
  ASSUME IInv, TInv', NEW p \in Syncer, ImportMutation(p) PROVE IInv'
<1>1. PICK k \in Key : Follows(sync[p], k, Imported)
  BY DEF IInv, SyncsFollow
<1> DEFINE s == sync[p]
           m == Mutation(p)
<1>2. s \in SyncState /\ s.pc = "import" /\ s.done \in Nat /\ k \in Nat
  BY KeyNat DEF IInv, TInv, TypeOK, SyncState, ImportMutation, Importing
<1>3. s.done + 1 \in 1 .. Len(s.list) /\ m \in Raw
  BY MutationTyped DEF ImportMutation, IInv
<1>4. m[1] = k + s.done + 1
  <2>1. s.list[s.done + 1][1] = k + (s.done + 1)
    BY <1>1, <1>3 DEF Follows
  <2> QED
    BY <1>2, <2>1 DEF Mutation
<1>5. /\ sync'[p].list = s.list /\ sync'[p].key = s.key /\ sync'[p].pc = "import"
      /\ sync'[p].done = s.done + 1 /\ sync'[p].inserted = s.inserted \cup ({m} \ raw)
      /\ \A q \in Syncer : q # p => sync'[q] = sync[q]
  BY <1>2 DEF ImportMutation, IInv, TInv, TypeOK, SyncState
<1>6. m \in raw => m[1] \in Imported
  BY <1>3 DEF Imported, Raw
<1>7. \A x \in sync'[p].inserted : x[1] \in k + 1 .. k + (s.done + 1)
  <2>1. \A x \in s.inserted : x[1] \in k + 1 .. k + s.done
    BY <1>1 DEF Follows
  <2> QED
    BY <1>2, <1>4, <1>5, <2>1
<1>8. \A b \in k + 1 .. k + (s.done + 1) :
        b \in Imported \/ \E x \in sync'[p].inserted : x[1] = b
  <2> SUFFICES ASSUME NEW b \in k + 1 .. k + (s.done + 1)
               PROVE  b \in Imported \/ \E x \in sync'[p].inserted : x[1] = b
    OBVIOUS
  <2>1. CASE b \in k + 1 .. k + s.done
    BY <1>1, <1>5, <2>1 DEF Follows
  <2>2. CASE b = k + s.done + 1
    <3>1. m \in sync'[p].inserted \/ m \in raw
      BY <1>5
    <3> QED
      BY <1>4, <1>6, <2>2, <3>1
  <2> QED
    BY <1>2, <2>1, <2>2
<1>9. Follows(sync'[p], k, Imported)
  BY <1>1, <1>5, <1>7, <1>8 DEF Follows
<1>10. raw' = raw /\ runs' = runs
  BY DEF ImportMutation
<1> QED
  BY <1>5, <1>9, <1>10, QuietStep

LEMMA CommitFollows ==
  ASSUME IInv, TInv', NEW p \in Syncer, Commit(p) PROVE IInv'
<1>1. PICK k \in Key : Follows(sync[p], k, Imported)
  BY DEF IInv, SyncsFollow
<1> DEFINE s == sync[p]
           e == k + Len(s.list)
<1>2. s \in SyncState /\ s.done = Len(s.list) /\ Len(s.list) \in Nat /\ k \in Nat
  BY KeyNat DEF IInv, TInv, TypeOK, SyncState, Commit
<1>3. raw' = raw \cup s.inserted /\ s.inserted \subseteq Raw
  BY <1>2 DEF Commit, SyncState
<1>4. Imported' = Imported \cup {x[1] : x \in s.inserted}
  BY <1>3 DEF Imported, Raw
<1>5. Imported \subseteq Imported'
  BY <1>4
<1>6. \A b \in 1 .. e : b \in Imported'
  <2> SUFFICES ASSUME NEW b \in 1 .. e PROVE b \in Imported'
    OBVIOUS
  <2>1. b \in 1 .. k \/ b \in k + 1 .. k + s.done
    BY <1>2
  <2>2. CASE b \in 1 .. k
    BY <1>1, <1>5, <2>2 DEF Follows
  <2>3. CASE b \in k + 1 .. k + s.done
    BY <1>1, <1>4, <2>3 DEF Follows
  <2> QED
    BY <2>1, <2>2, <2>3
<1>7. \A x \in s.inserted : x[1] \in 1 .. e
  BY <1>1, <1>2 DEF Follows
<1>8. PICK n \in 0 .. Bookings : Imported = 1 .. n
  BY DEF IInv, Gapless
<1>9. n \in Nat /\ e \in Nat
  BY <1>2, <1>8, BankSyncAssumption
<1> DEFINE N == IF n < e THEN e ELSE n
<1>10. Imported' = 1 .. N
  <2>1. Imported' \subseteq 1 .. N
    BY <1>4, <1>7, <1>8, <1>9
  <2>2. 1 .. N \subseteq Imported'
    BY <1>5, <1>6, <1>8, <1>9
  <2> QED
    BY <2>1, <2>2
<1>11. N \in 0 .. Bookings
  <2>1. CASE n < e
    <3>1. e \in 1 .. e
      BY <1>8, <1>9, <2>1
    <3>2. e \in Imported'
      BY <1>6, <3>1
    <3>3. e \in Booking
      BY <3>2 DEF Imported
    <3> QED
      BY <1>9, <2>1, <3>3, BankSyncAssumption DEF Booking
  <2>2. CASE ~(n < e)
    BY <1>8, <2>2
  <2> QED
    BY <2>1, <2>2
<1>12. Gapless'
  BY <1>10, <1>11 DEF Gapless
<1>13. RunsCovered'
  <2> SUFFICES ASSUME NEW r \in DOMAIN runs' PROVE 1 .. runs'[r].key \subseteq Imported'
    BY DEF RunsCovered
  <2>1. runs' = [runs EXCEPT ![s.run] = CompletedRun(s)] /\ runs \in Seq(Run)
    BY DEF Commit, IInv, TInv, TypeOK
  <2>2. r \in DOMAIN runs /\ runs'[r] = IF r = s.run THEN CompletedRun(s) ELSE runs[r]
    BY <2>1
  <2>3. CASE r = s.run
    <3>1. runs'[r].key = s.key
      BY <2>2, <2>3 DEF CompletedRun
    <3>2. s.key = 0 \/ s.key = e
      BY <1>1 DEF Follows
    <3> QED
      BY <1>6, <3>1, <3>2
  <2>4. CASE r # s.run
    BY <1>5, <2>2, <2>4 DEF IInv, RunsCovered
  <2> QED
    BY <2>3, <2>4
<1>14. sync'[p] = Idle /\ \A q \in Syncer : q # p => sync'[q] = sync[q]
  BY DEF Commit, IInv, TInv, TypeOK
<1>15. Follows(sync'[p], 0, Imported')
  BY <1>14, EmptyFollows DEF Idle
<1>16. SyncsFollow'
  BY <1>5, <1>14, <1>15, BankSyncAssumption, FollowersKept DEF Key
<1> QED
  BY <1>12, <1>13, <1>16 DEF IInv

LEMMA ImportedGrows == ASSUME IInv, [Next]_vars PROVE Imported \subseteq Imported'
<1>1. raw \subseteq raw'
  BY DEF Next, vars, Post, Revise, SyncStep, ReadCursor, StartRun, FetchPage, FailFetch,
         Begin, ImportMutation, RefuseMutation, Rollback, Commit, RecordFailure, Stop
<1> QED
  BY <1>1 DEF Imported

LEMMA InitFollows == Init => IInv
<1> SUFFICES ASSUME Init PROVE IInv
  OBVIOUS
<1>1. Imported = {} /\ 0 \in 0 .. Bookings /\ 0 \in Key
  BY BankSyncAssumption DEF Init, Imported, Key
<1>2. Gapless
  BY <1>1 DEF Gapless
<1>3. RunsCovered
  BY DEF Init, RunsCovered
<1>4. \A p \in Syncer : Follows(sync[p], 0, Imported)
  BY EmptyFollows DEF Init, Idle
<1>5. SyncsFollow
  BY <1>1, <1>4 DEF SyncsFollow
<1> QED
  BY <1>2, <1>3, <1>5, InitTyped DEF IInv

LEMMA StepFollows == IInv /\ [Next]_vars => IInv'
<1> SUFFICES ASSUME IInv, [Next]_vars PROVE IInv'
  OBVIOUS
<1>0. TInv /\ TInv'
  BY StepTyped DEF IInv
<1>1. CASE UNCHANGED <<raw, runs, sync>>
  BY <1>0, <1>1 DEF IInv, Gapless, RunsCovered, SyncsFollow, Imported
<1>2. ASSUME NEW p \in Syncer,
             ReadCursor(p) \/ SyncStep(p) \/ FailFetch(p) \/ Rollback(p) \/ Stop(p)
      PROVE  IInv'
  <2>1. sync[p] \in SyncState /\ runs \in Seq(Run)
    BY <1>0 DEF TInv, TypeOK
  <2>2. CASE ReadCursor(p)
    BY <1>0, <2>2, ReadCursorFollows
  <2>3. CASE StartRun(p)
    BY <1>0, <2>3, StartRunFollows
  <2>4. CASE FetchPage(p)
    BY <1>0, <2>4, FetchPageFollows
  <2>5. CASE FailFetch(p)
    <3> DEFINE s == [sync[p] EXCEPT !.pc = "failed"]
    <3>1. sync' = [sync EXCEPT ![p] = s] /\ UNCHANGED <<raw, runs>>
      BY <2>1, <2>5 DEF FailFetch
    <3>2. /\ s.list = sync[p].list /\ s.done = sync[p].done /\ s.key = sync[p].key
          /\ s.inserted = sync[p].inserted /\ s.pc \notin {"start", "fetch"}
      BY <2>1 DEF SyncState
    <3> QED
      BY <1>0, <3>1, <3>2, OnwardFollows
  <2>6. CASE Begin(p)
    <3> DEFINE s == [sync[p] EXCEPT !.pc = "import", !.at = clock + 1]
    <3>1. sync' = [sync EXCEPT ![p] = s] /\ UNCHANGED <<raw, runs>>
      BY <2>1, <2>6 DEF Begin
    <3>2. /\ s.list = sync[p].list /\ s.done = sync[p].done /\ s.key = sync[p].key
          /\ s.inserted = sync[p].inserted /\ s.pc \notin {"start", "fetch"}
      BY <2>1 DEF SyncState
    <3> QED
      BY <1>0, <3>1, <3>2, OnwardFollows
  <2>7. CASE ImportMutation(p)
    BY <1>0, <2>7, ImportMutationFollows
  <2>8. CASE RefuseMutation(p) \/ Rollback(p)
    <3> DEFINE s == [Idle EXCEPT !.pc = "failed", !.run = sync[p].run]
    <3>1. sync' = [sync EXCEPT ![p] = s] /\ UNCHANGED <<raw, runs>>
      BY <2>8 DEF Rollback, RefuseMutation
    <3>2. s.list = <<>> /\ s.done = 0 /\ s.key = 0 /\ s.inserted = {}
      BY DEF Idle
    <3> QED
      BY <1>0, <3>1, <3>2, EndingFollows
  <2>9. CASE Commit(p)
    BY <1>0, <2>9, CommitFollows
  <2>10. CASE RecordFailure(p)
    <3>1. sync' = [sync EXCEPT ![p] = Idle] /\ raw' = raw
      BY <2>10 DEF RecordFailure
    <3>2. Idle.list = <<>> /\ Idle.done = 0 /\ Idle.key = 0 /\ Idle.inserted = {}
      BY DEF Idle
    <3>3. \A r \in DOMAIN runs : runs[r] \in Run
      BY <2>1
    <3>4. \A r \in DOMAIN runs' : r \in DOMAIN runs /\ runs'[r].key = runs[r].key
      BY <2>10, <3>3 DEF RecordFailure, Run
    <3> QED
      BY <1>0, <3>1, <3>2, <3>4, EndingFollows
  <2>11. CASE Stop(p)
    <3>1. sync' = [sync EXCEPT ![p] = Idle] /\ UNCHANGED <<raw, runs>>
      BY <2>11 DEF Stop
    <3>2. Idle.list = <<>> /\ Idle.done = 0 /\ Idle.key = 0 /\ Idle.inserted = {}
      BY DEF Idle
    <3> QED
      BY <1>0, <3>1, <3>2, EndingFollows
  <2> QED
    BY <1>2, <2>2, <2>3, <2>4, <2>5, <2>6, <2>7, <2>8, <2>9, <2>10, <2>11 DEF SyncStep
<1>3. CASE Post \/ \E b \in Booking : Revise(b)
  BY <1>1, <1>3 DEF Post, Revise
<1>4. CASE UNCHANGED vars
  BY <1>1, <1>4 DEF vars
<1> QED
  BY <1>2, <1>3, <1>4 DEF Next

\* Whatever syncs overlap, fail or stop and wherever the bank's answers leave
\* the cursor, every step of the import is one of BankLedger or none: no
\* booking is skipped, for every bank list, page size and number of pages.
THEOREM ImportsRefineLedger == Spec => ImportsWithoutGap
<1>1. Init => Ledger!Init
  BY DEF Init, Imported, Ledger!Init
<1>2. IInv /\ [Next]_vars => [Ledger!Next]_Imported
  <2> SUFFICES ASSUME IInv, [Next]_vars PROVE Ledger!Next \/ Imported' = Imported
    OBVIOUS
  <2>1. Imported \subseteq Imported'
    BY ImportedGrows
  <2>2. PICK n \in 0 .. Bookings : Imported' = 1 .. n
    BY StepFollows DEF IInv, Gapless
  <2>3. CASE n = 0
    BY <2>1, <2>2, <2>3
  <2>4. CASE n \in 1 .. Bookings
    BY <2>1, <2>2, <2>4 DEF Ledger!Next, Ledger!Extend
  <2> QED
    BY <2>2, <2>3, <2>4, BankSyncAssumption
<1> QED
  BY <1>1, <1>2, InitFollows, StepFollows, PTL DEF Spec, ImportsWithoutGap, Ledger!Spec

(***************************************************************************)
(* Whole imports.  A snapshot's run stays completed because nobody but the  *)
(* sync that began a run writes to it, and no two syncs began the same one. *)
(***************************************************************************)

Active(s) == s.pc \notin {"idle", "start"}

OwnRuns ==
  \A p \in Syncer : Active(sync[p]) =>
    sync[p].run \in DOMAIN runs /\ runs[sync[p].run].status = "running"

DistinctRuns ==
  \A p, q \in Syncer :
    p # q /\ Active(sync[p]) /\ Active(sync[q]) => sync[p].run # sync[q].run

\* Every balance a transaction holds was taken after a booking it imports or
\* that was imported before.
Taken(s, I) == \A d \in DOMAIN s.balances : s.balances[d] \in I \cup {m[1] : m \in s.inserted}

BalancesTaken == \A p \in Syncer : Taken(sync[p], Imported)

WInv == TInv /\ OwnRuns /\ DistinctRuns /\ BalancesTaken /\ ImportsAreWhole

LEMMA IdleWhole == ~Active(Idle) /\ \A I : Taken(Idle, I)
BY DEF Idle, Active, Taken

\* A step that leaves the tables and the runs alone.
LEMMA WholeKept ==
  ASSUME WInv, TInv', NEW p \in Syncer, NEW s, sync' = [sync EXCEPT ![p] = s],
         UNCHANGED <<raw, enriched, snapshot, runs>>, Taken(s, Imported),
         Active(s) => Active(sync[p]) /\ s.run = sync[p].run
  PROVE  WInv'
<1>1. sync'[p] = s /\ \A q \in Syncer : q # p => sync'[q] = sync[q]
  BY DEF WInv, TInv, TypeOK
<1>2. Imported' = Imported /\ Completed' = Completed
  BY DEF Imported, Completed
<1>3. OwnRuns'
  BY <1>1 DEF WInv, OwnRuns
<1>4. DistinctRuns'
  BY <1>1 DEF WInv, DistinctRuns
<1>5. BalancesTaken'
  BY <1>1, <1>2 DEF WInv, BalancesTaken
<1>6. ImportsAreWhole'
  BY <1>2 DEF WInv, ImportsAreWhole
<1> QED
  BY <1>3, <1>4, <1>5, <1>6 DEF WInv

LEMMA StartRunWhole ==
  ASSUME WInv, TInv', NEW p \in Syncer, StartRun(p) PROVE WInv'
<1> DEFINE x == [status |-> "running", new |-> 0, key |-> 0, at |-> 0]
           n == Len(runs) + 1
<1>1. sync[p] \in SyncState /\ runs \in Seq(Run) /\ x \in Run
  BY BankSyncAssumption DEF WInv, TInv, TypeOK, Run, Key
<1>2. runs' = Append(runs, x)
  BY DEF StartRun
<1>3. Len(runs) \in Nat /\ DOMAIN runs = 1 .. Len(runs)
  BY <1>1, LenProperties
<1>4. DOMAIN runs' = 1 .. n
  BY <1>1, <1>2, AppendProperties
<1>5. runs'[n] = x /\ \A r \in DOMAIN runs : runs'[r] = runs[r]
  BY <1>1, <1>2, <1>3, AppendProperties
<1>6. n \in DOMAIN runs' /\ n \notin DOMAIN runs /\ DOMAIN runs \subseteq DOMAIN runs'
  BY <1>3, <1>4
<1>7. /\ sync'[p].run = n /\ sync'[p].balances = sync[p].balances
      /\ sync'[p].inserted = sync[p].inserted
      /\ \A q \in Syncer : q # p => sync'[q] = sync[q]
  BY <1>1 DEF StartRun, WInv, TInv, TypeOK, SyncState
<1> HIDE DEF n
<1>8. OwnRuns'
  <2> SUFFICES ASSUME NEW q \in Syncer, Active(sync'[q])
               PROVE  sync'[q].run \in DOMAIN runs' /\ runs'[sync'[q].run].status = "running"
    BY DEF OwnRuns
  <2>1. CASE q = p
    BY <1>5, <1>6, <1>7, <2>1
  <2>2. CASE q # p
    BY <1>5, <1>6, <1>7, <2>2 DEF WInv, OwnRuns
  <2> QED
    BY <2>1, <2>2
<1>9. DistinctRuns'
  BY <1>6, <1>7 DEF WInv, OwnRuns, DistinctRuns
<1>10. BalancesTaken'
  BY <1>7 DEF WInv, BalancesTaken, Taken, Imported, StartRun
<1>11. Completed \subseteq Completed' /\ Imported' = Imported
  BY <1>5, <1>6 DEF Completed, Imported, StartRun
<1>12. ImportsAreWhole'
  BY <1>11 DEF WInv, ImportsAreWhole, StartRun
<1> QED
  BY <1>8, <1>9, <1>10, <1>12 DEF WInv

LEMMA ImportMutationWhole ==
  ASSUME WInv, TInv', NEW p \in Syncer, ImportMutation(p) PROVE WInv'
<1> DEFINE m == Mutation(p)
           i == sync[p].inserted \cup ({m} \ raw)
           w == WithBalance(sync[p].balances, m[1])
           s == [sync[p] EXCEPT !.done = @ + 1, !.inserted = i, !.balances = w]
<1>1. sync[p] \in SyncState /\ m \in Raw /\ sync[p].pc = "import"
  BY MutationTyped DEF WInv, TInv, TypeOK, ImportMutation, Importing
<1>2. sync' = [sync EXCEPT ![p] = s] /\ UNCHANGED <<raw, enriched, snapshot, runs>>
  BY <1>1 DEF ImportMutation, SyncState
<1>3. s.inserted = i /\ s.balances = w /\ s.run = sync[p].run /\ s.pc = sync[p].pc
  <2> HIDE DEF i, w
  <2> QED
    BY <1>1 DEF SyncState
<1>4. m[1] \in Imported \cup {x[1] : x \in i}
  BY <1>1 DEF Imported, Raw
<1>5. \A d \in DOMAIN sync[p].balances : sync[p].balances[d] \in Imported \cup {x[1] : x \in i}
  BY DEF WInv, BalancesTaken, Taken
<1>6. \A d \in DOMAIN w : w[d] = m[1] \/ (d \in DOMAIN sync[p].balances /\ w[d] = sync[p].balances[d])
  BY DEF WithBalance
<1>7. Taken(s, Imported)
  <2> HIDE DEF i, w, s, m
  <2> QED
    BY <1>3, <1>4, <1>5, <1>6 DEF Taken
<1> HIDE DEF s
<1> QED
  BY <1>1, <1>2, <1>3, <1>7, WholeKept DEF Active

LEMMA CommitWhole ==
  ASSUME WInv, TInv', NEW p \in Syncer, Commit(p) PROVE WInv'
<1> DEFINE s == sync[p]
<1>1. s \in SyncState /\ Active(s) /\ runs \in Seq(Run)
  BY DEF WInv, TInv, TypeOK, Commit, Active
<1>2. s.run \in DOMAIN runs
  BY <1>1 DEF WInv, OwnRuns
<1>3. sync'[p] = Idle /\ \A q \in Syncer : q # p => sync'[q] = sync[q]
  BY DEF Commit, WInv, TInv, TypeOK
<1>4. /\ DOMAIN runs' = DOMAIN runs /\ runs'[s.run].status = "completed"
      /\ \A r \in DOMAIN runs : r # s.run => runs'[r] = runs[r]
  BY <1>1, <1>2 DEF Commit, CompletedRun
<1>5. Completed' = Completed \cup {s.run}
  BY <1>2, <1>4 DEF Completed
<1>6. raw' = raw \cup s.inserted /\ s.inserted \subseteq Raw
  BY <1>1 DEF Commit, SyncState
<1>7. Imported' = Imported \cup {m[1] : m \in s.inserted}
  BY <1>6 DEF Imported, Raw
<1>8. OwnRuns'
  <2> SUFFICES ASSUME NEW q \in Syncer, Active(sync'[q])
               PROVE  sync'[q].run \in DOMAIN runs' /\ runs'[sync'[q].run].status = "running"
    BY DEF OwnRuns
  <2>1. q # p /\ sync'[q] = sync[q]
    BY <1>3, IdleWhole
  <2>2. sync[q].run # s.run
    BY <1>1, <2>1 DEF WInv, DistinctRuns
  <2> QED
    BY <1>4, <2>1, <2>2 DEF WInv, OwnRuns
<1>9. DistinctRuns'
  BY <1>3, IdleWhole DEF WInv, DistinctRuns
<1>10. BalancesTaken'
  BY <1>3, <1>7, IdleWhole DEF WInv, BalancesTaken, Taken
<1>11. raw' = enriched'
  BY DEF Commit, WInv, ImportsAreWhole
<1>12. ASSUME NEW d \in DOMAIN snapshot', snapshot'[d] # Null
       PROVE  snapshot'[d].run \in Completed' /\ snapshot'[d].after \in Imported'
  <2>1. d \in DOMAIN snapshot
    BY DEF Commit
  <2>2. CASE d \in DOMAIN s.balances
    <3>1. snapshot'[d] = [after |-> s.balances[d], run |-> s.run]
      BY <2>1, <2>2 DEF Commit
    <3>2. s.balances[d] \in Imported'
      BY <1>7, <2>2 DEF WInv, BalancesTaken, Taken
    <3> QED
      BY <1>5, <3>1, <3>2
  <2>3. CASE d \notin DOMAIN s.balances
    <3>1. snapshot'[d] = snapshot[d]
      BY <2>1, <2>3 DEF Commit
    <3> QED
      BY <1>5, <1>7, <1>12, <2>1, <3>1 DEF WInv, ImportsAreWhole
  <2> QED
    BY <2>2, <2>3
<1>13. ImportsAreWhole'
  BY <1>11, <1>12 DEF ImportsAreWhole
<1> QED
  BY <1>8, <1>9, <1>10, <1>13 DEF WInv

LEMMA RecordFailureWhole ==
  ASSUME WInv, TInv', NEW p \in Syncer, RecordFailure(p) PROVE WInv'
<1> DEFINE r == sync[p].run
<1>1. Active(sync[p]) /\ runs \in Seq(Run)
  BY DEF WInv, TInv, TypeOK, RecordFailure, Active
<1>2. r \in DOMAIN runs /\ runs[r].status = "running"
  BY <1>1 DEF WInv, OwnRuns
<1>3. sync'[p] = Idle /\ \A q \in Syncer : q # p => sync'[q] = sync[q]
  BY DEF RecordFailure, WInv, TInv, TypeOK
<1>4. DOMAIN runs' = DOMAIN runs /\ \A n \in DOMAIN runs : n # r => runs'[n] = runs[n]
  BY <1>1 DEF RecordFailure
<1>5. OwnRuns'
  <2> SUFFICES ASSUME NEW q \in Syncer, Active(sync'[q])
               PROVE  sync'[q].run \in DOMAIN runs' /\ runs'[sync'[q].run].status = "running"
    BY DEF OwnRuns
  <2>1. q # p /\ sync'[q] = sync[q]
    BY <1>3, IdleWhole
  <2>2. sync[q].run # r
    BY <1>1, <2>1 DEF WInv, DistinctRuns
  <2> QED
    BY <1>4, <2>1, <2>2 DEF WInv, OwnRuns
<1>6. DistinctRuns'
  BY <1>3, IdleWhole DEF WInv, DistinctRuns
<1>7. Imported' = Imported
  BY DEF Imported, RecordFailure
<1>8. BalancesTaken'
  BY <1>3, <1>7, IdleWhole DEF WInv, BalancesTaken
<1>9. Completed \subseteq Completed'
  <2>1. r \notin Completed
    BY <1>2 DEF Completed
  <2> QED
    BY <1>4, <2>1 DEF Completed
<1>10. ImportsAreWhole'
  BY <1>7, <1>9 DEF WInv, ImportsAreWhole, RecordFailure
<1> QED
  BY <1>5, <1>6, <1>8, <1>10 DEF WInv

LEMMA InitWhole == Init => WInv
<1> SUFFICES ASSUME Init PROVE WInv
  OBVIOUS
<1>1. \A p \in Syncer : sync[p] = Idle
  BY DEF Init
<1>2. OwnRuns /\ DistinctRuns /\ BalancesTaken
  BY <1>1, IdleWhole DEF OwnRuns, DistinctRuns, BalancesTaken
<1>3. ImportsAreWhole
  BY DEF Init, ImportsAreWhole
<1> QED
  BY <1>2, <1>3, InitTyped DEF WInv

LEMMA StepWhole == WInv /\ [Next]_vars => WInv'
<1> SUFFICES ASSUME WInv, [Next]_vars PROVE WInv'
  OBVIOUS
<1>0. TInv /\ TInv'
  BY StepTyped DEF WInv
<1>1. CASE UNCHANGED <<raw, enriched, snapshot, runs, sync>>
  BY <1>0, <1>1 DEF WInv, OwnRuns, DistinctRuns, BalancesTaken, ImportsAreWhole,
                    Imported, Completed
<1>2. ASSUME NEW p \in Syncer,
             ReadCursor(p) \/ SyncStep(p) \/ FailFetch(p) \/ Rollback(p) \/ Stop(p)
      PROVE  WInv'
  <2>1. sync[p] \in SyncState /\ Taken(sync[p], Imported)
    BY <1>0 DEF TInv, TypeOK, WInv, BalancesTaken
  <2>2. CASE ReadCursor(p)
    <3>1. PICK k \in Cursors : sync' = [sync EXCEPT ![p] = [Idle EXCEPT !.pc = "start", !.key = k]]
      BY <2>2 DEF ReadCursor
    <3> DEFINE s == [Idle EXCEPT !.pc = "start", !.key = k]
    <3>2. ~Active(s) /\ Taken(s, Imported)
      BY DEF Idle, Active, Taken
    <3> HIDE DEF s
    <3> QED
      BY <1>0, <2>2, <3>1, <3>2, WholeKept DEF ReadCursor, s
  <2>3. CASE StartRun(p)
    BY <1>0, <2>3, StartRunWhole
  <2>4. CASE FetchPage(p)
    <3>1. PICK a \in Answers(sync[p].key) :
            sync' = [sync EXCEPT ![p] = [sync[p] EXCEPT
               !.pc = IF a.clear \/ a.key \in {0, sync[p].key} \/ sync[p].pages + 1 = MaxPages
                        THEN "begin" ELSE "fetch",
               !.pages = @ + 1,
               !.list = @ \o Page(sync[p].key),
               !.key = IF a.clear THEN 0 ELSE a.key]]
      BY <2>4 DEF FetchPage
    <3> DEFINE s == [sync[p] EXCEPT
               !.pc = IF a.clear \/ a.key \in {0, sync[p].key} \/ sync[p].pages + 1 = MaxPages
                        THEN "begin" ELSE "fetch",
               !.pages = @ + 1,
               !.list = @ \o Page(sync[p].key),
               !.key = IF a.clear THEN 0 ELSE a.key]
    <3>2. s.balances = sync[p].balances /\ s.inserted = sync[p].inserted /\ s.run = sync[p].run
      BY <2>1 DEF SyncState
    <3>3. Taken(s, Imported) /\ Active(sync[p])
      BY <2>1, <2>4, <3>2 DEF Taken, FetchPage, Active
    <3> HIDE DEF s
    <3> QED
      BY <1>0, <2>4, <3>1, <3>2, <3>3, WholeKept DEF FetchPage, s
  <2>5. CASE FailFetch(p)
    <3> DEFINE s == [sync[p] EXCEPT !.pc = "failed"]
    <3>1. s.balances = sync[p].balances /\ s.inserted = sync[p].inserted /\ s.run = sync[p].run
      BY <2>1 DEF SyncState
    <3>2. Taken(s, Imported) /\ Active(sync[p])
      BY <2>1, <2>5, <3>1 DEF Taken, FailFetch, Active
    <3>3. sync' = [sync EXCEPT ![p] = s]
      BY <2>5 DEF FailFetch
    <3> HIDE DEF s
    <3> QED
      BY <1>0, <2>5, <3>1, <3>2, <3>3, WholeKept DEF FailFetch
  <2>6. CASE Begin(p)
    <3> DEFINE s == [sync[p] EXCEPT !.pc = "import", !.at = clock + 1]
    <3>1. s.balances = sync[p].balances /\ s.inserted = sync[p].inserted /\ s.run = sync[p].run
      BY <2>1 DEF SyncState
    <3>2. Taken(s, Imported) /\ Active(sync[p])
      BY <2>1, <2>6, <3>1 DEF Taken, Begin, Active
    <3>3. sync' = [sync EXCEPT ![p] = s]
      BY <2>6 DEF Begin
    <3> HIDE DEF s
    <3> QED
      BY <1>0, <2>6, <3>1, <3>2, <3>3, WholeKept DEF Begin
  <2>7. CASE ImportMutation(p)
    BY <1>0, <2>7, ImportMutationWhole
  <2>8. CASE RefuseMutation(p) \/ Rollback(p)
    <3> DEFINE s == [Idle EXCEPT !.pc = "failed", !.run = sync[p].run]
    <3>1. s.run = sync[p].run /\ Taken(s, Imported)
      BY DEF Idle, Taken
    <3>2. Active(sync[p])
      BY <2>8 DEF Rollback, RefuseMutation, Active
    <3>3. sync' = [sync EXCEPT ![p] = s]
      BY <2>8 DEF Rollback, RefuseMutation
    <3> HIDE DEF s
    <3> QED
      BY <1>0, <2>8, <3>1, <3>2, <3>3, WholeKept DEF Rollback, RefuseMutation
  <2>9. CASE Commit(p)
    BY <1>0, <2>9, CommitWhole
  <2>10. CASE RecordFailure(p)
    BY <1>0, <2>10, RecordFailureWhole
  <2>11. CASE Stop(p)
    BY <1>0, <2>11, IdleWhole, WholeKept DEF Stop
  <2> QED
    BY <1>2, <2>2, <2>3, <2>4, <2>5, <2>6, <2>7, <2>8, <2>9, <2>10, <2>11 DEF SyncStep
<1>3. CASE Post \/ \E b \in Booking : Revise(b)
  BY <1>1, <1>3 DEF Post, Revise
<1>4. CASE UNCHANGED vars
  BY <1>1, <1>4 DEF vars
<1> QED
  BY <1>2, <1>3, <1>4 DEF Next

\* An import leaves all of its traces or none: no raw transaction is without
\* its enriched row, and no balance outlives a run that failed.
THEOREM ImportsWhole == Spec => []ImportsAreWhole
<1>1. WInv => ImportsAreWhole
  BY DEF WInv
<1> QED
  BY <1>1, InitWhole, StepWhole, PTL DEF Spec

(***************************************************************************)
(* Counts.  What a sync has inserted is in no other sync's transaction and  *)
(* not stored yet, because it keeps the account's lock from its first       *)
(* insert to its end; and its own run counts nothing as new until then.     *)
(***************************************************************************)

NoneYet == \A p \in Syncer : Active(sync[p]) => runs[sync[p].run].new = 0

\* That a transaction with rows of its own holds the lock.
Exclusive ==
  \A p \in Syncer : sync[p].inserted # {} =>
    account = p /\ sync[p].inserted \cap raw = {}

NewOf(R) == [r \in DOMAIN R |-> R[r].new]

CInv == WInv /\ NoneYet /\ Exclusive /\ NewCountsAddUp

LEMMA IdleCounts == ~Active(Idle) /\ Idle.inserted = {}
BY DEF Idle, Active

LEMMA NewTyped ==
  ASSUME NEW R \in Seq(Run)
  PROVE  /\ IsFiniteSet(DOMAIN R) /\ Ints(NewOf(R), DOMAIN R)
         /\ \A r \in DOMAIN R : R[r].new \in Nat /\ NewOf(R)[r] = R[r].new
<1>1. DOMAIN R = 1 .. Len(R) /\ Len(R) \in Nat
  BY LenProperties
<1>2. \A r \in DOMAIN R : R[r] \in Run
  BY <1>1, ElementOfSeq
<1>3. \A r \in DOMAIN R : R[r].new \in Nat
  BY <1>2 DEF Run
<1>4. IsFiniteSet(DOMAIN R)
  BY <1>1, FS_Interval
<1>5. \A r \in DOMAIN R : NewOf(R)[r] = R[r].new
  BY DEF NewOf
<1> QED
  BY <1>3, <1>4, <1>5 DEF Ints

\* Runs that only differ in what is not counted have the same sum.
LEMMA SameCounts ==
  ASSUME NEW R \in Seq(Run), NEW Q, DOMAIN Q = DOMAIN R,
         \A r \in DOMAIN R : Q[r].new = R[r].new
  PROVE  SumOf(NewOf(Q), DOMAIN Q) = SumOf(NewOf(R), DOMAIN R)
<1>1. \A r \in DOMAIN R : NewOf(Q)[r] = NewOf(R)[r]
  BY DEF NewOf
<1> QED
  BY <1>1, NewTyped, SumSame

\* Who takes the lock, keeps it or gives up its own is nobody else's matter.
LEMMA LockKept ==
  ASSUME CInv, NEW p \in Syncer, NEW s, sync' = [sync EXCEPT ![p] = s],
         account' = account \/ account' = ReleaseAccount(p) \/ (account \in {Null, p} /\ account' = p),
         NEW q \in Syncer, q # p, sync'[q].inserted # {}
  PROVE  account' = q /\ account = q /\ sync'[q] = sync[q]
<1>1. sync'[q] = sync[q]
  BY DEF CInv, WInv, TInv, TypeOK
<1>2. account = q
  BY <1>1 DEF CInv, Exclusive
<1>3. q # Null
  BY BankSyncAssumption
<1> QED
  BY <1>1, <1>2, <1>3 DEF ReleaseAccount

\* A step that leaves the runs and the raw transactions alone.
LEMMA CountsKept ==
  ASSUME CInv, WInv', NEW p \in Syncer, NEW s, sync' = [sync EXCEPT ![p] = s],
         UNCHANGED <<raw, runs>>, Active(s) => Active(sync[p]) /\ s.run = sync[p].run,
         account' = account \/ account' = ReleaseAccount(p) \/ (account \in {Null, p} /\ account' = p),
         s.inserted # {} =>
           s.inserted \cap raw = {} /\ (account' = p \/ (account' = account /\ sync[p].inserted # {}))
  PROVE  CInv'
<1>1. sync'[p] = s /\ \A q \in Syncer : q # p => sync'[q] = sync[q]
  BY DEF CInv, WInv, TInv, TypeOK
<1>2. NoneYet'
  BY <1>1 DEF CInv, NoneYet
<1>3. Exclusive'
  <2> SUFFICES ASSUME NEW q \in Syncer, sync'[q].inserted # {}
               PROVE  account' = q /\ sync'[q].inserted \cap raw' = {}
    BY DEF Exclusive
  <2>1. CASE q = p
    BY <1>1, <2>1 DEF CInv, Exclusive
  <2>2. CASE q # p
    <3>1. account' = q /\ sync'[q] = sync[q]
      BY <2>2, LockKept
    <3> QED
      BY <3>1 DEF CInv, Exclusive
  <2> QED
    BY <2>1, <2>2
<1>4. NewCountsAddUp'
  BY DEF CInv, NewCountsAddUp
<1> QED
  BY <1>2, <1>3, <1>4 DEF CInv

\* A run begins with nothing new.
LEMMA StartRunCounts ==
  ASSUME CInv, WInv', NEW p \in Syncer, StartRun(p) PROVE CInv'
<1> DEFINE x == [status |-> "running", new |-> 0, key |-> 0, at |-> 0]
           n == Len(runs) + 1
<1>1. sync[p] \in SyncState /\ runs \in Seq(Run) /\ x \in Run
  BY BankSyncAssumption DEF CInv, WInv, TInv, TypeOK, Run, Key
<1>2. runs' = Append(runs, x)
  BY DEF StartRun
<1>3. Len(runs) \in Nat /\ DOMAIN runs = 1 .. Len(runs)
  BY <1>1, LenProperties
<1>4. DOMAIN runs' = 1 .. n /\ runs' \in Seq(Run)
  BY <1>1, <1>2, AppendProperties
<1>5. runs'[n] = x /\ \A r \in DOMAIN runs : runs'[r] = runs[r]
  BY <1>1, <1>2, <1>3, AppendProperties
<1>6. DOMAIN runs' = DOMAIN runs \cup {n} /\ n \notin DOMAIN runs
  BY <1>3, <1>4
<1>7. /\ sync'[p].run = n /\ sync'[p].inserted = sync[p].inserted
      /\ \A q \in Syncer : q # p => sync'[q] = sync[q]
  BY <1>1 DEF StartRun, CInv, WInv, TInv, TypeOK, SyncState
<1>8. \A q \in Syncer : sync'[q].inserted = sync[q].inserted
  BY <1>7
<1> HIDE DEF n
<1>9. NoneYet'
  <2> SUFFICES ASSUME NEW q \in Syncer, Active(sync'[q]) PROVE runs'[sync'[q].run].new = 0
    BY DEF NoneYet
  <2>1. CASE q = p
    BY <1>5, <1>7, <2>1
  <2>2. CASE q # p
    BY <1>5, <1>7, <2>2 DEF CInv, WInv, OwnRuns, NoneYet
  <2> QED
    BY <2>1, <2>2
<1>10. Exclusive'
  BY <1>8 DEF CInv, Exclusive, StartRun
<1>11. NewCountsAddUp'
  <2> DEFINE f == NewOf(runs')
             g == NewOf(runs)
  <2>1. IsFiniteSet(DOMAIN runs) /\ Ints(g, DOMAIN runs)
    BY <1>1, NewTyped
  <2>2. \A r \in DOMAIN runs : f[r] = g[r]
    BY <1>5, <1>6 DEF NewOf
  <2>3. f[n] = 0
    BY <1>5, <1>6 DEF NewOf
  <2>4. Ints(f, DOMAIN runs)
    BY <2>1, <2>2 DEF Ints
  <2>5. SumOf(f, DOMAIN runs) = SumOf(g, DOMAIN runs)
    BY <2>1, <2>2, SumSame
  <2>6. SumOf(f, DOMAIN runs \cup {n}) = SumOf(f, DOMAIN runs) + f[n]
    BY <1>6, <2>1, <2>3, <2>4, SumAdd
  <2>7. SumOf(f, DOMAIN runs) \in Int
    BY <2>1, <2>4, SumTyped
  <2>8. SumOf(f, DOMAIN runs') = SumOf(g, DOMAIN runs)
    BY <1>6, <2>3, <2>5, <2>6, <2>7
  <2>9. raw' = raw
    BY DEF StartRun
  <2> QED
    BY <2>8, <2>9 DEF CInv, NewCountsAddUp, NewOf
<1> QED
  BY <1>9, <1>10, <1>11 DEF CInv

LEMMA ImportMutationCounts ==
  ASSUME CInv, WInv', NEW p \in Syncer, ImportMutation(p) PROVE CInv'
<1> DEFINE m == Mutation(p)
           i == sync[p].inserted \cup ({m} \ raw)
           s == [sync[p] EXCEPT !.done = @ + 1, !.inserted = i,
                                !.balances = WithBalance(sync[p].balances, m[1])]
<1>1. sync[p] \in SyncState /\ Active(sync[p])
  BY DEF CInv, WInv, TInv, TypeOK, ImportMutation, Importing, Active
<1>2. sync' = [sync EXCEPT ![p] = s] /\ UNCHANGED <<raw, runs>>
  BY <1>1 DEF ImportMutation, SyncState
<1>3. s.inserted = i /\ s.run = sync[p].run
  <2> HIDE DEF i
  <2> QED
    BY <1>1 DEF SyncState
<1>4. account \in {Null, p} /\ account' = p
  BY DEF ImportMutation, Importing
<1>5. i \cap raw = {}
  BY DEF CInv, Exclusive
<1> HIDE DEF s, i
<1> QED
  BY <1>1, <1>2, <1>3, <1>4, <1>5, CountsKept

\* The commit adds what it inserted to what is stored and as much to the sum.
LEMMA CommitCounts ==
  ASSUME CInv, WInv', NEW p \in Syncer, Commit(p) PROVE CInv'
<1> DEFINE s == sync[p]
           r == sync[p].run
           k == Cardinality(sync[p].inserted)
<1>1. s \in SyncState /\ Active(s) /\ runs \in Seq(Run) /\ runs' \in Seq(Run)
  BY DEF CInv, WInv, TInv, TypeOK, Commit, Active
<1>2. r \in DOMAIN runs /\ runs[r].new = 0
  BY <1>1 DEF CInv, WInv, OwnRuns, NoneYet
<1>3. sync'[p] = Idle /\ \A q \in Syncer : q # p => sync'[q] = sync[q]
  BY DEF Commit, CInv, WInv, TInv, TypeOK
<1>4. /\ DOMAIN runs' = DOMAIN runs /\ runs'[r].new = k
      /\ \A n \in DOMAIN runs : n # r => runs'[n] = runs[n]
  BY <1>1, <1>2 DEF Commit, CompletedRun
<1>5. raw' = raw \cup s.inserted /\ s.inserted \subseteq Raw /\ raw \subseteq Raw
  BY <1>1 DEF Commit, SyncState, CInv, WInv, TInv, TypeOK
<1>6. s.inserted \cap raw = {}
  BY DEF CInv, Exclusive
<1>7. NoneYet'
  <2> SUFFICES ASSUME NEW q \in Syncer, Active(sync'[q]) PROVE runs'[sync'[q].run].new = 0
    BY DEF NoneYet
  <2>1. q # p /\ sync'[q] = sync[q]
    BY <1>3, IdleCounts
  <2>2. sync[q].run # r /\ sync[q].run \in DOMAIN runs
    BY <1>1, <2>1 DEF CInv, WInv, DistinctRuns, OwnRuns
  <2> QED
    BY <1>4, <2>1, <2>2 DEF CInv, NoneYet
<1>8. Exclusive'
  <2> SUFFICES ASSUME NEW q \in Syncer, sync'[q].inserted # {}
               PROVE  account' = q /\ sync'[q].inserted \cap raw' = {}
    BY DEF Exclusive
  <2>1. q # p
    BY <1>3, IdleCounts
  <2>2. sync' = [sync EXCEPT ![p] = Idle] /\ account' = ReleaseAccount(p)
    BY DEF Commit
  <2>3. account' = q /\ account = q /\ sync'[q] = sync[q]
    BY <2>1, <2>2, LockKept
  <2>4. s.inserted = {}
    BY <2>1, <2>3 DEF CInv, Exclusive
  <2> QED
    BY <1>5, <2>3, <2>4 DEF CInv, Exclusive
<1>9. NewCountsAddUp'
  <2> DEFINE f == NewOf(runs')
             g == NewOf(runs)
             D == DOMAIN runs
  <2>1. IsFiniteSet(D) /\ Ints(g, D) /\ Ints(f, D) /\ r \in D
    BY <1>1, <1>2, <1>4, NewTyped
  <2>2. f[r] = k /\ g[r] = 0
    BY <1>2, <1>4 DEF NewOf
  <2>3. \A n \in D \ {r} : f[n] = g[n]
    BY <1>4 DEF NewOf
  <2>4. IsFiniteSet(D \ {r}) /\ Ints(g, D \ {r})
    BY <2>1, FS_Subset DEF Ints
  <2>5. SumOf(f, D \ {r}) = SumOf(g, D \ {r}) /\ SumOf(g, D \ {r}) \in Int
    BY <2>3, <2>4, SumSame, SumTyped
  <2>6. SumOf(f, D) = f[r] + SumOf(f, D \ {r})
    BY <2>1, SumRemove
  <2>7. SumOf(g, D) = g[r] + SumOf(g, D \ {r})
    BY <2>1, SumRemove
  <2>8. SumOf(g, D) = Cardinality(raw)
    BY DEF CInv, NewCountsAddUp, NewOf
  <2>9. IsFiniteSet(raw) /\ IsFiniteSet(s.inserted)
    BY <1>5, RawFinite
  <2>10. Cardinality(raw \cup s.inserted) = Cardinality(raw) + k - Cardinality(raw \cap s.inserted)
    BY <2>9, FS_Union
  <2>11. k \in Nat /\ Cardinality(raw) \in Nat
    BY <1>5, RawFinite
  <2>12. Cardinality(raw') = Cardinality(raw) + k
    <3>1. raw \cap s.inserted = {}
      BY <1>6
    <3>2. Cardinality(raw \cap s.inserted) = 0
      BY <3>1, FS_EmptySet
    <3>3. Cardinality(raw') = Cardinality(raw \cup s.inserted)
      BY <1>5
    <3> HIDE DEF k
    <3> QED
      BY <2>10, <2>11, <3>2, <3>3
  <2>13. SumOf(f, D) = Cardinality(raw')
    <3> HIDE DEF f, g, D, k
    <3> QED
      BY <2>2, <2>5, <2>6, <2>7, <2>8, <2>11, <2>12
  <2> QED
    BY <1>4, <2>13 DEF NewCountsAddUp, NewOf
<1> QED
  BY <1>7, <1>8, <1>9 DEF CInv

LEMMA RecordFailureCounts ==
  ASSUME CInv, WInv', NEW p \in Syncer, RecordFailure(p) PROVE CInv'
<1>1. runs \in Seq(Run) /\ sync' = [sync EXCEPT ![p] = Idle] /\ UNCHANGED <<raw, account>>
  BY DEF CInv, WInv, TInv, TypeOK, RecordFailure
<1>2. sync'[p] = Idle /\ \A q \in Syncer : q # p => sync'[q] = sync[q]
  BY <1>1 DEF CInv, WInv, TInv, TypeOK
<1>3. \A n \in DOMAIN runs : runs[n] \in Run
  BY <1>1, ElementOfSeq, LenProperties
<1>4. DOMAIN runs' = DOMAIN runs /\ \A n \in DOMAIN runs : runs'[n].new = runs[n].new
  BY <1>3 DEF RecordFailure, Run
<1>5. NoneYet'
  <2> SUFFICES ASSUME NEW q \in Syncer, Active(sync'[q]) PROVE runs'[sync'[q].run].new = 0
    BY DEF NoneYet
  <2>1. q # p /\ sync'[q] = sync[q]
    BY <1>2, IdleCounts
  <2>2. sync[q].run \in DOMAIN runs
    BY <2>1 DEF CInv, WInv, OwnRuns
  <2> QED
    BY <1>4, <2>1, <2>2 DEF CInv, NoneYet
<1>6. Exclusive'
  BY <1>1, <1>2, IdleCounts DEF CInv, Exclusive
<1>7. NewCountsAddUp'
  BY <1>1, <1>4, SameCounts DEF CInv, NewCountsAddUp, NewOf
<1> QED
  BY <1>5, <1>6, <1>7 DEF CInv

LEMMA InitCounts == Init => CInv
<1> SUFFICES ASSUME Init PROVE CInv
  OBVIOUS
<1>1. \A p \in Syncer : sync[p] = Idle
  BY DEF Init
<1>2. NoneYet /\ Exclusive
  BY <1>1, IdleCounts DEF NoneYet, Exclusive
<1>3. DOMAIN runs = {} /\ raw = {}
  BY DEF Init
<1>4. NewCountsAddUp
  BY <1>3, SumEmpty, FS_EmptySet DEF NewCountsAddUp
<1> QED
  BY <1>2, <1>4, InitWhole DEF CInv

LEMMA StepCounts == CInv /\ [Next]_vars => CInv'
<1> SUFFICES ASSUME CInv, [Next]_vars PROVE CInv'
  OBVIOUS
<1>0. WInv'
  BY StepWhole DEF CInv
<1>1. CASE UNCHANGED <<raw, runs, account, sync>>
  BY <1>0, <1>1 DEF CInv, NoneYet, Exclusive, NewCountsAddUp
<1>2. ASSUME NEW p \in Syncer,
             ReadCursor(p) \/ SyncStep(p) \/ FailFetch(p) \/ Rollback(p) \/ Stop(p)
      PROVE  CInv'
  <2>1. sync[p] \in SyncState
    BY DEF CInv, WInv, TInv, TypeOK
  <2>2. sync[p].inserted # {} => account = p /\ sync[p].inserted \cap raw = {}
    BY DEF CInv, Exclusive
  <2>3. CASE ReadCursor(p)
    <3>1. PICK k \in Cursors : sync' = [sync EXCEPT ![p] = [Idle EXCEPT !.pc = "start", !.key = k]]
      BY <2>3 DEF ReadCursor
    <3> DEFINE s == [Idle EXCEPT !.pc = "start", !.key = k]
    <3>2. ~Active(s) /\ s.inserted = {}
      BY DEF Idle, Active
    <3> HIDE DEF s
    <3> QED
      BY <1>0, <2>3, <3>1, <3>2, CountsKept DEF ReadCursor, s
  <2>4. CASE StartRun(p)
    BY <1>0, <2>4, StartRunCounts
  <2>5. CASE FetchPage(p) \/ FailFetch(p) \/ Begin(p)
    <3>1. \E s : /\ sync' = [sync EXCEPT ![p] = s]
                 /\ s.inserted = sync[p].inserted /\ s.run = sync[p].run
      <4>1. CASE FetchPage(p)
        <5>1. PICK a \in Answers(sync[p].key) :
                sync' = [sync EXCEPT ![p] = [sync[p] EXCEPT
                   !.pc = IF a.clear \/ a.key \in {0, sync[p].key} \/ sync[p].pages + 1 = MaxPages
                            THEN "begin" ELSE "fetch",
                   !.pages = @ + 1,
                   !.list = @ \o Page(sync[p].key),
                   !.key = IF a.clear THEN 0 ELSE a.key]]
          BY <4>1 DEF FetchPage
        <5> DEFINE s == [sync[p] EXCEPT
                   !.pc = IF a.clear \/ a.key \in {0, sync[p].key} \/ sync[p].pages + 1 = MaxPages
                            THEN "begin" ELSE "fetch",
                   !.pages = @ + 1,
                   !.list = @ \o Page(sync[p].key),
                   !.key = IF a.clear THEN 0 ELSE a.key]
        <5>2. s.inserted = sync[p].inserted /\ s.run = sync[p].run
          BY <2>1 DEF SyncState
        <5> QED
          BY <5>1, <5>2
      <4>2. CASE FailFetch(p)
        <5> DEFINE s == [sync[p] EXCEPT !.pc = "failed"]
        <5>1. s.inserted = sync[p].inserted /\ s.run = sync[p].run /\ sync' = [sync EXCEPT ![p] = s]
          BY <2>1, <4>2 DEF SyncState, FailFetch
        <5> QED
          BY <5>1
      <4>3. CASE Begin(p)
        <5> DEFINE s == [sync[p] EXCEPT !.pc = "import", !.at = clock + 1]
        <5>1. s.inserted = sync[p].inserted /\ s.run = sync[p].run
          BY <2>1 DEF SyncState
        <5>2. sync' = [sync EXCEPT ![p] = s]
          BY <4>3 DEF Begin
        <5> QED
          BY <5>1, <5>2
      <4> QED
        BY <2>5, <4>1, <4>2, <4>3
    <3>2. PICK s : /\ sync' = [sync EXCEPT ![p] = s]
                   /\ s.inserted = sync[p].inserted /\ s.run = sync[p].run
      BY <3>1
    <3>3. UNCHANGED <<raw, runs>> /\ account' = account
      BY <2>5 DEF FetchPage, FailFetch, Begin
    <3>4. Active(sync[p])
      BY <2>5 DEF FetchPage, FailFetch, Begin, Active
    <3> QED
      BY <1>0, <2>2, <3>2, <3>3, <3>4, CountsKept
  <2>6. CASE ImportMutation(p)
    BY <1>0, <2>6, ImportMutationCounts
  <2>7. CASE RefuseMutation(p) \/ Rollback(p)
    <3> DEFINE s == [Idle EXCEPT !.pc = "failed", !.run = sync[p].run]
    <3>1. s.run = sync[p].run /\ s.inserted = {}
      BY DEF Idle
    <3>2. Active(sync[p])
      BY <2>7 DEF Rollback, RefuseMutation, Active
    <3>3. sync' = [sync EXCEPT ![p] = s] /\ account' = ReleaseAccount(p) /\ UNCHANGED <<raw, runs>>
      BY <2>7 DEF Rollback, RefuseMutation
    <3> HIDE DEF s
    <3> QED
      BY <1>0, <3>1, <3>2, <3>3, CountsKept
  <2>8. CASE Commit(p)
    BY <1>0, <2>8, CommitCounts
  <2>9. CASE RecordFailure(p)
    BY <1>0, <2>9, RecordFailureCounts
  <2>10. CASE Stop(p)
    BY <1>0, <2>10, IdleCounts, CountsKept DEF Stop
  <2> QED
    BY <1>2, <2>3, <2>4, <2>5, <2>6, <2>7, <2>8, <2>9, <2>10 DEF SyncStep
<1>3. CASE Post \/ \E b \in Booking : Revise(b)
  BY <1>1, <1>3 DEF Post, Revise
<1>4. CASE UNCHANGED vars
  BY <1>1, <1>4 DEF vars
<1> QED
  BY <1>2, <1>3, <1>4 DEF Next

\* What the runs report as new adds up to what is stored, however many syncs
\* fetch the same bookings at the same time.
THEOREM CountsAddUp == Spec => []NewCountsAddUp
<1>1. CInv => NewCountsAddUp
  BY DEF CInv
<1> QED
  BY <1>1, InitCounts, StepCounts, PTL DEF Spec
=============================================================================
