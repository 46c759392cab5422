---------------------------- MODULE Client_proofs ----------------------------
(***************************************************************************)
(* Theorems about Client for any number of items, versions and requests,   *)
(* and any choice of pages.                                                *)
(***************************************************************************)
EXTENDS Client, WellFoundedInduction, TLAPS

LEMMA MaxOfBounded ==
  ASSUME NEW b \in Nat, NEW S, S \subseteq 0 .. b, S # {}
  PROVE  Max(S) \in S /\ \A x \in S : x <= Max(S)
<1> DEFINE T == {b - x : x \in S}
<1>1. T \subseteq Nat /\ T # {}
  <2>1. \A x \in S : b - x \in Nat
    OBVIOUS
  <2>2. PICK x \in S : TRUE
    OBVIOUS
  <2>3. b - x \in T
    OBVIOUS
  <2> QED
    BY <2>1, <2>3
<1>2. PICK t \in T : \A y \in T : ~ (<<y, t>> \in OpToRel(<, Nat))
  <2> HIDE DEF T
  <2> QED
    BY <1>1, NatLessThanWellFounded, WFMin
<1>3. \A y \in T : ~ (y < t)
  BY <1>1, <1>2 DEF OpToRel
<1>4. PICK x \in S : t = b - x
  BY <1>2
<1>5. \A y \in S : x >= y
  BY <1>3, <1>4
<1> QED
  BY <1>5 DEF Max

------------------------------------------------------------------------------
(* The parts of drafts, requests and lists are there. *)

Drafted(d) == DOMAIN d = {"of", "typed"}
Asking(q) == DOMAIN q = {"kind", "id", "done", "of"}
Listing(c) == DOMAIN c = {"v", "last", "items"}
Shown(u) == DOMAIN u = {"url", "active", "draft", "filter"}

\* Pages whose draft is that of what is selected.
Editing == Inspecting \cup {"rules"}

\* The draft is of what is selected, or of the new rule, or of the settings.
OwnDraft(u) ==
  /\ Shown(u)
  /\ u.draft # Null =>
       /\ Drafted(u.draft)
       /\ page \in Editing /\ u.active # New => u.draft.of = u.active
       /\ page = "settings" => u.draft.of \in {New, 1}

OwnRequest(q) ==
  /\ Asking(q)
  /\ q.kind \in {"correct", "save"} /\ q.id # New =>
       q.of = q.id \/ (page = "settings" /\ q.of = New)
  /\ page = "review" => q.kind = "correct"
  /\ page \in {"review", "rules"} => cache # Null

Mapped == reqs = [r \in Requests |-> reqs[r]]

\* A review page sends one correction at a time.
DInv ==
  /\ OwnDraft(ui)
  /\ Mapped
  /\ \A r \in Requests : reqs[r] # Null => OwnRequest(reqs[r])
  /\ page = "review" =>
       \A r, q \in Requests : reqs[r] # Null /\ reqs[q] # Null => r = q

LEMMA SeedDrafted == ASSUME NEW id PROVE Drafted(Seed(id)) /\ Seed(id).of = id
BY DEF Seed, Drafted

LEMMA DraftOwn ==
  ASSUME NEW c, NEW e, NEW now, NEW d, NEW place,
         d # Null => Drafted(d),
         page = "settings" /\ d # Null => d.of \in {New, 1},
         page = "rules" /\ c = Null /\ now # New /\ d # Null => d.of = now
  PROVE  LET b == DraftAfter(c, e, now, d, place)
         IN b # Null =>
              /\ Drafted(b)
              /\ page \in Editing /\ now # New => b.of = now
              /\ page = "settings" => b.of \in {New, 1}
<1>1. CASE page = "rules"
  <2>1. DraftAfter(c, e, now, d, place) = IF c = Null THEN d ELSE RuleDraft(c.items, now, d)
    BY <1>1 DEF DraftAfter, Inspecting
  <2> QED
    BY <1>1, <2>1, SeedDrafted DEF RuleDraft, Editing
<1>2. CASE page = "settings"
  <2>1. DraftAfter(c, e, now, d, place) = IF c = Null THEN d ELSE SettingsDraft(c.items, d)
    BY <1>2 DEF DraftAfter, Inspecting
  <2> QED
    BY <1>2, <2>1, SeedDrafted DEF SettingsDraft, Editing, Inspecting
<1>3. CASE page = "review"
  <2>1. DraftAfter(c, e, now, d, place) = IF Mounted(c, e) THEN ReviewDraft(c.items, now, d) ELSE Null
    BY <1>3 DEF DraftAfter, Inspecting
  <2> QED
    BY <1>3, <2>1, SeedDrafted DEF ReviewDraft
<1>4. CASE page = "transactions"
  <2>1. DraftAfter(c, e, now, d, place)
          = IF Mounted(c, e) THEN TransactionDraft(c.items, now, d, place) ELSE Null
    BY <1>4 DEF DraftAfter, Inspecting
  <2> QED
    BY <1>4, <2>1, SeedDrafted DEF TransactionDraft
<1>5. CASE page = "recurring"
  <2>1. DraftAfter(c, e, now, d, place)
          = IF Mounted(c, e) THEN SeriesDraft(c.items, now, d, place) ELSE Null
    BY <1>5 DEF DraftAfter, Inspecting
  <2> QED
    BY <1>5, <2>1, SeedDrafted DEF SeriesDraft
<1>6. CASE page \notin Editing \cup {"settings"}
  BY <1>6 DEF DraftAfter, Editing, Inspecting
<1> QED
  BY <1>1, <1>2, <1>3, <1>4, <1>5, <1>6 DEF Editing, Inspecting

\* What Show leaves is the draft of what it selects.
LEMMA ShowOwn ==
  ASSUME OwnDraft(ui), page' = page, NEW c, NEW e, NEW u, Show(c, e, u),
         u.draft = ui.draft,
         page = "rules" /\ c = Null => u.active = ui.active
  PROVE  OwnDraft(ui)'
<1>1. PICK now, place :
        /\ c = Null => now = u.active
        /\ ui' = [url |-> IF page = "review" /\ c # Null /\ now = Null THEN Null ELSE u.url,
                  active |-> now, draft |-> DraftAfter(c, e, now, u.draft, place),
                  filter |-> u.filter]
  BY DEF Show
<1>2. Shown(ui') /\ ui'.active = now /\ ui'.draft = DraftAfter(c, e, now, ui.draft, place)
  BY <1>1 DEF Shown
<1>3. /\ ui.draft # Null => Drafted(ui.draft)
      /\ page = "settings" /\ ui.draft # Null => ui.draft.of \in {New, 1}
      /\ page = "rules" /\ c = Null /\ now # New /\ ui.draft # Null => ui.draft.of = now
  BY <1>1 DEF OwnDraft, Editing
<1> HIDE DEF Drafted
<1> QED
  BY <1>2, <1>3, DraftOwn DEF OwnDraft

\* Another list is shown: what is selected, and a form seeded for it.
LEMMA OtherShown ==
  ASSUME Shown(ui), NEW c, ShowOther(c)
  PROVE  /\ cache' = c /\ error' = FALSE
         /\ Shown(ui') /\ ui'.url = ui.url /\ ui'.filter = ui.filter + 1
         /\ ui'.active = IF c = Null THEN ui.active ELSE TransactionSelection(c.items, ui)
         /\ ui'.draft = IF c = Null \/ ui'.active = Null THEN Null ELSE Seed(ui'.active)
<1>1. PICK a : a = IF c = Null THEN ui.active ELSE TransactionSelection(c.items, ui)
  OBVIOUS
<1>2. ui' = [ui EXCEPT !.filter = @ + 1, !.active = a,
                       !.draft = IF c = Null \/ a = Null THEN Null ELSE Seed(a)]
  BY <1>1 DEF ShowOther
<1> QED
  BY <1>1, <1>2 DEF ShowOther, Shown

\* A step that only types, selects or shows keeps the requests' drafts.
LEMMA DraftsKept ==
  ASSUME DInv, OwnDraft(ui)', page' = page, reqs' = reqs,
         page \in {"review", "rules"} /\ cache # Null => cache' # Null
  PROVE  DInv'
BY DEF DInv, OwnRequest, OwnDraft, Mapped

LEMMA TypedKeeps == ASSUME DInv, ui.draft # Null, Typed PROVE DInv'
<1>1. ui' = [ui EXCEPT !.draft.typed = TRUE] /\ page' = page /\ reqs' = reqs /\ cache' = cache
  BY DEF Typed
<1>2. PICK d : d = [ui.draft EXCEPT !.typed = TRUE]
  OBVIOUS
<1>3. Drafted(d) /\ d.of = ui.draft.of
  BY <1>2 DEF DInv, OwnDraft, Drafted
<1>4. ui' = [ui EXCEPT !.draft = d]
  BY <1>1, <1>2
<1>5. Shown(ui') /\ ui'.active = ui.active /\ ui'.draft = d /\ ui'.filter = ui.filter
  BY <1>4 DEF DInv, OwnDraft, Shown
<1>6. OwnDraft(ui)'
  BY <1>1, <1>3, <1>5 DEF DInv, OwnDraft
<1> QED
  BY <1>1, <1>6, DraftsKept

LEMMA PickedKeeps ==
  ASSUME DInv, NEW id, ui' = [ui EXCEPT !.active = id, !.draft = Seed(id)],
         page = "rules", page' = page, reqs' = reqs, cache' = cache
  PROVE  DInv'
<1>1. Shown(ui') /\ ui'.active = id /\ ui'.draft = Seed(id)
  BY DEF DInv, OwnDraft, Shown
<1>2. OwnDraft(ui)'
  BY <1>1, SeedDrafted DEF OwnDraft
<1> QED
  BY <1>2, DraftsKept

\* Which requests there are after one is sent, served or answered.
LEMMA RequestsAfter ==
  ASSUME Mapped, NEW r \in Requests, NEW q,
         reqs' = [reqs EXCEPT ![r] = q]
  PROVE  /\ Mapped' /\ reqs'[r] = q
         /\ \A p \in Requests : p # r => reqs'[p] = reqs[p]
BY DEF Mapped

LEMMA SendKeeps ==
  ASSUME DInv, NEW kind, NEW id, Send(kind, id),
         kind \in {"correct", "save"} /\ id # New =>
           /\ ui.draft # Null
           /\ (page \in Editing /\ id = ui.active) \/ (page = "settings" /\ id = 1),
         page = "review" => kind = "correct" /\ Idle({"correct"}),
         page \in {"review", "rules"} => cache # Null
  PROVE  DInv'
<1>1. PICK r \in Requests :
        /\ reqs[r] = Null
        /\ reqs' = [reqs EXCEPT ![r] =
             [kind |-> kind, id |-> id, done |-> Null,
              of |-> IF ui.draft = Null THEN Null ELSE ui.draft.of]]
  BY DEF Send
<1>2. page' = page /\ ui' = ui /\ cache' = cache
  BY DEF Send
<1>3. PICK q : q = [kind |-> kind, id |-> id, done |-> Null,
                    of |-> IF ui.draft = Null THEN Null ELSE ui.draft.of]
  OBVIOUS
<1>4. /\ Mapped' /\ reqs'[r] = q
      /\ \A p \in Requests : p # r => reqs'[p] = reqs[p]
  <2>1. reqs' = [reqs EXCEPT ![r] = q]
    BY <1>1, <1>3
  <2> QED
    BY <2>1, RequestsAfter DEF DInv
<1>5. OwnRequest(q)'
  BY <1>2, <1>3 DEF OwnRequest, Asking, DInv, OwnDraft
<1>6. page = "review" => \A p \in Requests : p # r => reqs[p] = Null
  BY DEF DInv, OwnRequest, Idle
<1>7. (\A p \in Requests : reqs[p] # Null => OwnRequest(reqs[p]))'
  BY <1>2, <1>4, <1>5 DEF DInv, OwnRequest
<1>8. OwnDraft(ui)'
  BY <1>2 DEF DInv, OwnDraft
<1> QED
  BY <1>2, <1>4, <1>6, <1>7, <1>8 DEF DInv

LEMMA ServeKeeps ==
  ASSUME DInv, NEW r \in Requests, reqs[r] # Null, NEW items, NEW ids, Serve(r, items, ids)
  PROVE  DInv'
<1>1. PICK a : reqs' = [reqs EXCEPT ![r].done = a]
  BY DEF Serve
<1>2. page' = page /\ ui' = ui /\ cache' = cache
  BY DEF Serve
<1>3. PICK q : q = [reqs[r] EXCEPT !.done = a]
  OBVIOUS
<1>4. reqs' = [reqs EXCEPT ![r] = q]
  BY <1>1, <1>3
<1>5. /\ Mapped' /\ reqs'[r] = q
      /\ \A p \in Requests : p # r => reqs'[p] = reqs[p]
  BY <1>4, RequestsAfter DEF DInv
<1>6. OwnRequest(reqs[r])
  BY DEF DInv
<1>7. Asking(q) /\ q.kind = reqs[r].kind /\ q.id = reqs[r].id /\ q.of = reqs[r].of
  BY <1>3, <1>6 DEF OwnRequest, Asking
<1>8. OwnRequest(q)'
  BY <1>2, <1>6, <1>7 DEF OwnRequest
<1>9. (\A p \in Requests : reqs[p] # Null => OwnRequest(reqs[p]))'
  BY <1>2, <1>5, <1>8 DEF DInv, OwnRequest
<1>10. OwnDraft(ui)'
  BY <1>2 DEF DInv, OwnDraft
<1> QED
  BY <1>2, <1>5, <1>9, <1>10 DEF DInv

LEMMA EndKeeps ==
  ASSUME DInv, NEW r \in Requests, reqs[r] # Null, reqs' = [reqs EXCEPT ![r] = Null],
         page' = page, OwnDraft(ui)', page = "rules" => cache' = cache
  PROVE  DInv'
<1>1. /\ Mapped' /\ reqs'[r] = Null
      /\ \A p \in Requests : p # r => reqs'[p] = reqs[p]
  BY RequestsAfter DEF DInv
<1>2. page = "review" => \A p \in Requests : reqs'[p] = Null
  BY <1>1 DEF DInv
<1>3. (\A p \in Requests : reqs[p] # Null => OwnRequest(reqs[p]))'
  BY <1>1, <1>2 DEF DInv, OwnRequest
<1> QED
  BY <1>1, <1>2, <1>3 DEF DInv

------------------------------------------------------------------------------
(* The steps *)

LEMMA UserKeeps == ASSUME DInv, User PROVE DInv'
<1>1. CASE Select
  <2>1. PICK id \in Id : \/ SelectReview(id) \/ SelectTransaction(id) \/ SelectSeries(id)
                         \/ SelectRule(id) \/ SelectExport(id)
    BY <1>1 DEF Select
  <2>2. PICK u : u = IF page = "transactions" THEN [ui EXCEPT !.active = id]
                      ELSE [ui EXCEPT !.url = id, !.active = id]
    OBVIOUS
  <2>3. u.draft = ui.draft
    BY <2>2 DEF DInv, OwnDraft, Shown
  <2>4. ASSUME page # "rules", Show(cache, error, u), page' = page, reqs' = reqs
        PROVE  DInv'
    <3>1. cache' = cache
      BY <2>4 DEF Show
    <3>2. OwnDraft(ui)'
      BY <2>3, <2>4, ShowOwn DEF DInv
    <3> QED
      BY <2>4, <3>1, <3>2, DraftsKept
  <2>5. CASE SelectReview(id) \/ SelectTransaction(id) \/ SelectSeries(id)
    BY <2>2, <2>4, <2>5 DEF SelectReview, SelectTransaction, SelectSeries
  <2>6. CASE SelectRule(id)
    BY <2>6, PickedKeeps DEF SelectRule
  <2>7. CASE SelectExport(id)
    <3>1. ui' = [ui EXCEPT !.active = id] /\ page' = page /\ page = "export"
          /\ reqs' = reqs /\ cache' = cache
      BY <2>7 DEF SelectExport
    <3>2. Shown(ui') /\ ui'.draft = ui.draft
      BY <3>1 DEF DInv, OwnDraft, Shown
    <3>3. OwnDraft(ui)'
      BY <3>1, <3>2 DEF DInv, OwnDraft, Editing, Inspecting
    <3> QED
      BY <3>1, <3>3, DraftsKept
  <2> QED
    BY <2>1, <2>5, <2>6, <2>7
<1>2. CASE StartNew
  BY <1>2, PickedKeeps DEF StartNew
<1>3. CASE Type
  BY <1>3, TypedKeeps
  DEF Type, TypeReview, TypeTransaction, TypeRule, TypeSeries, TypeSettings, Form
<1>4. CASE ChangeFilter
  <2>1. PICK c : page = "transactions" /\ ShowOther(c) /\ page' = page /\ reqs' = reqs
    BY <1>4 DEF ChangeFilter
  <2>2. OwnDraft(ui)'
    BY <2>1, OtherShown, SeedDrafted DEF DInv, OwnDraft
  <2> QED
    BY <2>1, <2>2, DraftsKept
<1>5. CASE Correct \/ SaveTransaction \/ CreateDraftRule
  BY <1>5, SendKeeps DEF Correct, SaveTransaction, CreateDraftRule, Form, Mounted, Editing, Inspecting
<1>6. CASE SaveRule \/ ChangeRule
  BY <1>6, SendKeeps DEF SaveRule, ChangeRule, Form, Mounted, Editing
<1>7. CASE SaveSeries \/ ConfirmSeries \/ DisableSeries
  BY <1>7, SendKeeps DEF SaveSeries, ConfirmSeries, DisableSeries, Form, Editing, Inspecting
<1>8. CASE SaveSettings \/ CreateExport \/ SyncNow
  BY <1>8, SendKeeps DEF SaveSettings, CreateExport, SyncNow, Form
<1>9. CASE SubmitFilter
  <2>1. OwnDraft(ui)'
    BY <1>9 DEF SubmitFilter, DInv, OwnDraft
  <2> QED
    BY <1>9, <2>1, DraftsKept DEF SubmitFilter
<1> QED
  BY <1>1, <1>2, <1>3, <1>4, <1>5, <1>6, <1>7, <1>8, <1>9 DEF User

LEMMA ServerKeeps == ASSUME DInv, NEW r \in Requests, Server(r) PROVE DInv'
<1>1. reqs[r] # Null /\ \E items, ids : Serve(r, items, ids)
  BY DEF Server, Asks, ServeReview, ServeTransaction, ServeDraftRule, ServeNewRule, ServeRule,
         ServeApply, ServeSeries, ServeDisable, ServeSettings, ServeExport, ServeSync
<1> QED
  BY <1>1, ServeKeeps

LEMMA AnswerKeeps == ASSUME DInv, NEW r \in Requests, Answer(r) PROVE DInv'
<1>1. reqs[r] # Null /\ reqs' = [reqs EXCEPT ![r] = Null] /\ page' = page
  BY DEF Answer, Answers, AnswerReview, AnswerTransaction, AnswerRule, AnswerSeries,
         AnswerSettings, AnswerExport, AnswerSync
<1>2. CASE AnswerReview(r)
  <2>1. PICK c, n : page = "review" /\ Show(c, FALSE, [ui EXCEPT !.url = n, !.active = n])
    BY <1>2 DEF AnswerReview, Answers
  <2>2. [ui EXCEPT !.url = n, !.active = n].draft = ui.draft
    BY DEF DInv, OwnDraft, Shown
  <2>3. OwnDraft(ui)'
    BY <1>1, <2>1, <2>2, ShowOwn DEF DInv
  <2> QED
    BY <1>1, <2>1, <2>3, EndKeeps
<1>3. ASSUME NEW a, Reread(r, a), page \in {"review", "rules"} => cache # Null PROVE DInv'
  <2>1. Show(cache, error, [ui EXCEPT !.active = a]) /\ cache' = cache
    BY <1>3 DEF Reread, Show
  <2>2. [ui EXCEPT !.active = a].draft = ui.draft
    BY DEF DInv, OwnDraft, Shown
  <2>3. OwnDraft(ui)'
    BY <1>1, <1>3, <2>1, <2>2, ShowOwn DEF DInv
  <2> QED
    BY <1>1, <2>1, <2>3, EndKeeps
<1>4. CASE \/ AnswerTransaction(r) \/ AnswerRule(r) \/ AnswerSeries(r) \/ AnswerExport(r)
           \/ AnswerSync(r)
  <2>1. page \in {"review", "rules"} => cache # Null
    BY <1>1 DEF DInv, OwnRequest
  <2> QED
    BY <1>3, <1>4, <2>1
    DEF AnswerTransaction, AnswerRule, AnswerSeries, AnswerExport, AnswerSync
<1>5. CASE AnswerSettings(r)
  <2>1. ui' = [ui EXCEPT !.active = 1, !.draft = Seed(1)] /\ page = "settings"
    BY <1>5 DEF AnswerSettings, Answers
  <2>2. Shown(ui') /\ ui'.draft = Seed(1)
    BY <2>1 DEF DInv, OwnDraft, Shown
  <2>3. OwnDraft(ui)'
    BY <1>1, <2>1, <2>2, SeedDrafted DEF OwnDraft, Editing, Inspecting
  <2> QED
    BY <1>1, <2>1, <2>3, EndKeeps
<1> QED
  BY <1>2, <1>4, <1>5 DEF Answer

LEMMA FetchKeeps == ASSUME DInv, Refetch \/ Read \/ Receive \/ FetchFails PROVE DInv'
<1>1. CASE Refetch \/ Read
  <2>1. page' = page /\ ui' = ui /\ reqs' = reqs /\ cache' = cache
    BY <1>1 DEF Refetch, Read
  <2> QED
    BY <2>1 DEF DInv, OwnRequest, OwnDraft, Mapped
<1>2. CASE Receive
  <2>1. Show(fetch.read, FALSE, ui) /\ fetch.read # Null /\ page' = page /\ reqs' = reqs
        /\ cache' = fetch.read
    BY <1>2 DEF Receive, Show
  <2>2. OwnDraft(ui)'
    BY <2>1, ShowOwn DEF DInv
  <2> QED
    BY <2>1, <2>2, DraftsKept
<1>3. CASE FetchFails
  <2>1. Show(cache, TRUE, ui) /\ page' = page /\ reqs' = reqs /\ cache' = cache
    BY <1>3 DEF FetchFails, Show
  <2>2. OwnDraft(ui)'
    BY <2>1, ShowOwn DEF DInv
  <2> QED
    BY <2>1, <2>2, DraftsKept
<1> QED
  BY <1>1, <1>2, <1>3

LEMMA DraftsInductive == DInv /\ [Next]_vars => DInv'
<1> SUFFICES ASSUME DInv, [Next]_vars PROVE DInv'
  OBVIOUS
<1>1. CASE User
  BY <1>1, UserKeeps
<1>2. CASE Refetch \/ Read \/ Receive \/ FetchFails
  BY <1>2, FetchKeeps
<1>3. CASE Elsewhere \/ UNCHANGED vars
  <2>1. page' = page /\ ui' = ui /\ reqs' = reqs /\ cache' = cache
    BY <1>3 DEF Elsewhere, vars
  <2> QED
    BY <2>1 DEF DInv, OwnRequest, OwnDraft, Mapped
<1>4. ASSUME NEW r \in Requests, Server(r) PROVE DInv'
  BY <1>4, ServerKeeps
<1>5. ASSUME NEW r \in Requests, Answer(r) PROVE DInv'
  BY <1>5, AnswerKeeps
<1>6. ASSUME NEW r \in Requests, Lose(r) PROVE DInv'
  <2>1. reqs[r] # Null /\ reqs' = [reqs EXCEPT ![r] = Null] /\ page' = page /\ ui' = ui
        /\ cache' = cache
    BY <1>6 DEF Lose
  <2>2. OwnDraft(ui)'
    BY <2>1 DEF DInv, OwnDraft
  <2> QED
    BY <2>1, <2>2, EndKeeps
<1> QED
  BY <1>1, <1>2, <1>3, <1>4, <1>5, <1>6 DEF Next

LEMMA DraftsInitially == Init => DInv
<1> SUFFICES ASSUME Init PROVE DInv
  OBVIOUS
<1>1. PICK url :
        ui = [url |-> IF page = "transactions" THEN Null ELSE url,
              active |-> IF page = "rules" THEN New ELSE url,
              draft |-> IF page \in {"rules", "settings"} THEN Seed(New) ELSE Null,
              filter |-> 0]
  BY DEF Init
<1>2. Shown(ui) /\ ui.active = (IF page = "rules" THEN New ELSE url)
      /\ ui.draft = (IF page \in {"rules", "settings"} THEN Seed(New) ELSE Null)
  BY <1>1 DEF Shown
<1>3. OwnDraft(ui)
  BY <1>2, SeedDrafted DEF OwnDraft, Editing, Inspecting
<1>4. reqs = [r \in Requests |-> Null]
  BY DEF Init
<1> QED
  BY <1>3, <1>4 DEF DInv, Mapped

\* A request that changes an item carries what was typed for that item, on every
\* page and for any number of items and requests (ActiveReviewPanel,
\* TransactionInspector, RecurringInspector, RulesWorkspace).
THEOREM SentForIt == Spec => []SentForItsItem
<1>1. DInv => SentForItsItem
  BY DEF DInv, OwnRequest, SentForItsItem
<1> QED
  BY <1>1, DraftsInitially, DraftsInductive, PTL DEF Spec

------------------------------------------------------------------------------
(* What is read is not older than what was answered. *)

\* A fetch that has read, and what is shown once nothing is read any more.
Recent(f, c, e) ==
  /\ f.open /\ f.read # Null => f.read.v >= due
  /\ c # Null /\ ~f.open /\ ~e => c.v >= due

VInv ==
  /\ server.v \in Nat /\ due \in 0 .. server.v
  /\ \A r \in Requests :
       reqs[r] # Null /\ reqs[r].done # Null => reqs[r].done.v \in 0 .. server.v
  /\ Recent(fetch, cache, error)

LEMMA RecentAsked == ASSUME fetch' = Asked PROVE Recent(fetch, cache, error)'
BY DEF Recent, Asked

\* Steps that ask, read or show nothing new keep it.
LEMMA VersionsRest ==
  ASSUME VInv, server' = server, due' = due, reqs' = reqs, Recent(fetch, cache, error)'
  PROVE  VInv'
BY DEF VInv

LEMMA VersionsSent == ASSUME VInv, DInv, NEW kind, NEW id, Send(kind, id) PROVE VInv'
<1>0. PICK q : q.done = Null /\ \E r \in Requests : reqs' = [reqs EXCEPT ![r] = q]
  <2>1. PICK r, o :
          r \in Requests /\ reqs' = [reqs EXCEPT ![r] = [kind |-> kind, id |-> id, done |-> Null, of |-> o]]
    BY DEF Send
  <2>2. [kind |-> kind, id |-> id, done |-> Null, of |-> o].done = Null
    OBVIOUS
  <2> QED
    BY <2>1, <2>2
<1>1. PICK r \in Requests : q.done = Null /\ reqs' = [reqs EXCEPT ![r] = q]
  BY <1>0
<1>2. reqs'[r] = q /\ \A p \in Requests : p # r => reqs'[p] = reqs[p]
  BY <1>1, RequestsAfter DEF DInv
<1>3. q.done = Null
  BY <1>1
<1>4. server' = server /\ due' = due /\ Recent(fetch, cache, error)'
  BY DEF Send, VInv, Recent
<1> QED
  BY <1>2, <1>3, <1>4 DEF VInv

LEMMA VersionsUser == ASSUME VInv, DInv, User PROVE VInv'
<1>1. ASSUME UNCHANGED <<server, fetch, reqs, due>>, NEW u, Show(cache, error, u)
      PROVE  VInv'
  BY <1>1, VersionsRest DEF Show, VInv, Recent
<1>2. ASSUME UNCHANGED <<server, cache, fetch, error, reqs, due>> PROVE VInv'
  BY <1>2, VersionsRest DEF VInv, Recent
<1>3. CASE Select \/ StartNew \/ Type
  BY <1>1, <1>2, <1>3
  DEF Select, SelectReview, SelectTransaction, SelectSeries, SelectRule, SelectExport, StartNew,
      Type, TypeReview, TypeTransaction, TypeRule, TypeSeries, TypeSettings, Typed
<1>4. CASE ChangeFilter
  <2>1. PICK earlier, read, v :
          /\ v \in 0 .. server.v /\ earlier.v = v /\ read \in {Null, earlier}
          /\ fetch' = [open |-> TRUE, read |-> read]
          /\ due' = IF read # Null /\ v < due THEN v ELSE due
    BY <1>4 DEF ChangeFilter
  <2>2. server'.v = server.v /\ reqs' = reqs
    <3>1. PICK items : server' = [server EXCEPT !.items = items]
      BY <1>4 DEF ChangeFilter
    <3> QED
      BY <1>4, <3>1 DEF ChangeFilter
  <2>3. due' \in 0 .. server.v /\ Recent(fetch, cache, error)'
    BY <2>1 DEF VInv, Recent
  <2> QED
    BY <2>2, <2>3 DEF VInv
<1>5. CASE SubmitFilter
  <2>1. fetch' = Asked \/ fetch' = fetch
    BY <1>5 DEF SubmitFilter, Invalidate
  <2>2. UNCHANGED <<server, cache, error, reqs, due>>
    BY <1>5 DEF SubmitFilter
  <2> QED
    BY <2>1, <2>2, RecentAsked, VersionsRest DEF VInv, Recent
<1>6. CASE \/ Correct \/ SaveTransaction \/ CreateDraftRule \/ SaveRule \/ ChangeRule
           \/ SaveSeries \/ ConfirmSeries \/ DisableSeries
           \/ SaveSettings \/ CreateExport \/ SyncNow
  BY <1>6, VersionsSent
  DEF Correct, SaveTransaction, CreateDraftRule, SaveRule, ChangeRule, SaveSeries,
      ConfirmSeries, DisableSeries, SaveSettings, CreateExport, SyncNow
<1> QED
  BY <1>3, <1>4, <1>5, <1>6 DEF User

LEMMA VersionsServed ==
  ASSUME VInv, DInv, NEW r \in Requests, reqs[r] # Null, NEW items, NEW ids, Serve(r, items, ids)
  PROVE  VInv'
<1>1. PICK a : a = [v |-> server.v + 1, ids |-> ids] /\ reqs' = [reqs EXCEPT ![r].done = a]
  BY DEF Serve
<1>2. a.v = server.v + 1
  BY <1>1
<1>3. PICK q : q = [reqs[r] EXCEPT !.done = a]
  OBVIOUS
<1>4. q.done = a
  BY <1>3 DEF DInv, OwnRequest, Asking
<1>5. reqs' = [reqs EXCEPT ![r] = q]
  BY <1>1, <1>3
<1>6. reqs'[r] = q /\ \A p \in Requests : p # r => reqs'[p] = reqs[p]
  BY <1>5, RequestsAfter DEF DInv
<1>7. server'.v = server.v + 1 /\ due' = due /\ Recent(fetch, cache, error)'
  BY DEF Serve, VInv, Recent
<1> QED
  BY <1>2, <1>4, <1>6, <1>7 DEF VInv

LEMMA VersionsEnd ==
  ASSUME VInv, DInv, NEW r \in Requests, reqs' = [reqs EXCEPT ![r] = Null],
         server' = server, due' \in 0 .. server.v, Recent(fetch, cache, error)'
  PROVE  VInv'
<1>1. reqs'[r] = Null /\ \A p \in Requests : p # r => reqs'[p] = reqs[p]
  BY RequestsAfter DEF DInv
<1> QED
  BY <1>1 DEF VInv

LEMMA VersionsAnswered == ASSUME VInv, DInv, NEW r \in Requests, Answer(r) PROVE VInv'
<1>1. /\ reqs[r] # Null /\ reqs[r].done # Null
      /\ reqs' = [reqs EXCEPT ![r] = Null] /\ server' = server
  BY DEF Answer, Answers, AnswerReview, AnswerTransaction, AnswerRule, AnswerSeries,
         AnswerSettings, AnswerExport, AnswerSync
<1>2. reqs[r].done.v \in 0 .. server.v
  BY <1>1 DEF VInv
<1>3. CASE AnswerReview(r)
  <2>1. cache # Null
    BY <1>1, <1>3 DEF AnswerReview, Answers, DInv, OwnRequest
  <2>2. fetch' = Asked /\ due' = reqs[r].done.v
    BY <1>3, <2>1 DEF AnswerReview, Invalidate
  <2> QED
    BY <1>1, <1>2, <2>2, RecentAsked, VersionsEnd
<1>4. ASSUME NEW a, Reread(r, a) PROVE VInv'
  <2>1. cache' = cache /\ error' = error
    BY <1>4 DEF Reread, Show
  <2>2. CASE cache = Null /\ fetch.open
    <3>1. fetch' = fetch /\ due' = due
      BY <1>4, <2>2 DEF Reread, Invalidate
    <3> QED
      BY <1>1, <2>1, <3>1, VersionsEnd DEF VInv, Recent
  <2>3. CASE ~(cache = Null /\ fetch.open)
    <3>1. fetch' = Asked /\ due' \in 0 .. server.v
      BY <1>2, <1>4, <2>3 DEF Reread, Invalidate, VInv
    <3> QED
      BY <1>1, <3>1, RecentAsked, VersionsEnd
  <2> QED
    BY <2>2, <2>3
<1>5. CASE AnswerSettings(r)
  <2>1. /\ cache'.v = reqs[r].done.v /\ fetch' = fetch
        /\ due' = IF fetch.open THEN due ELSE reqs[r].done.v
    BY <1>5 DEF AnswerSettings
  <2>2. due' \in 0 .. server.v /\ Recent(fetch, cache, error)'
    BY <1>2, <2>1 DEF VInv, Recent
  <2> QED
    BY <1>1, <2>2, VersionsEnd
<1> QED
  BY <1>3, <1>4, <1>5
  DEF Answer, AnswerTransaction, AnswerRule, AnswerSeries, AnswerExport, AnswerSync

LEMMA VersionsFetched == ASSUME VInv, Refetch \/ Read \/ Receive \/ FetchFails PROVE VInv'
<1>1. server' = server /\ due' = due /\ reqs' = reqs
  BY DEF Refetch, Read, Receive, FetchFails
<1>2. CASE Refetch
  <2>1. fetch' = Asked
    BY <1>2 DEF Refetch
  <2> QED
    BY <1>1, <2>1, RecentAsked, VersionsRest
<1>3. CASE Read
  BY <1>1, <1>3, VersionsRest DEF Read, Recent, VInv
<1>4. CASE Receive
  BY <1>1, <1>4, VersionsRest DEF Receive, Show, Recent, NotAsked, VInv
<1>5. CASE FetchFails
  BY <1>1, <1>5, VersionsRest DEF FetchFails, Show, Recent, NotAsked, VInv
<1> QED
  BY <1>2, <1>3, <1>4, <1>5

LEMMA VersionsInductive == VInv /\ DInv /\ [Next]_vars => VInv'
<1> SUFFICES ASSUME VInv, DInv, [Next]_vars PROVE VInv'
  OBVIOUS
<1>1. CASE User
  BY <1>1, VersionsUser
<1>2. CASE Refetch \/ Read \/ Receive \/ FetchFails
  BY <1>2, VersionsFetched
<1>3. CASE Elsewhere
  BY <1>3 DEF Elsewhere, VInv, Recent
<1>4. CASE UNCHANGED vars
  BY <1>4 DEF vars, VInv, Recent
<1>5. ASSUME NEW r \in Requests, Server(r) PROVE VInv'
  <2>1. reqs[r] # Null /\ \E items, ids : Serve(r, items, ids)
    BY <1>5
    DEF Server, Asks, ServeReview, ServeTransaction, ServeDraftRule, ServeNewRule, ServeRule,
        ServeApply, ServeSeries, ServeDisable, ServeSettings, ServeExport, ServeSync
  <2> QED
    BY <2>1, VersionsServed
<1>6. ASSUME NEW r \in Requests, Answer(r) PROVE VInv'
  BY <1>6, VersionsAnswered
<1>7. ASSUME NEW r \in Requests, Lose(r) PROVE VInv'
  BY <1>7, VersionsEnd DEF Lose, VInv, Recent
<1> QED
  BY <1>1, <1>2, <1>3, <1>4, <1>5, <1>6, <1>7 DEF Next

\* Once a request is answered and the fetches that follow are done, the page shows
\* the server as the request left it or later, however many requests and fetches
\* overlapped (invalidateFinanceWorkspaces).
THEOREM OwnChangesShown == Spec => []ShowsOwnChanges
<1>1. Init => VInv
  BY DEF Init, VInv, Recent, Asked
<1>2. VInv => ShowsOwnChanges
  BY DEF VInv, Recent, ShowsOwnChanges
<1> QED
  BY <1>1, <1>2, DraftsInitially, DraftsInductive, VersionsInductive, PTL DEF Spec

------------------------------------------------------------------------------
(* Corrected reviews *)

\* The reviews of a list have been given their ids, and none was corrected.
Kept(c) == Listing(c) /\ DOMAIN c.items \subseteq (1 .. server.last) \ gone

Answered(q) ==
  /\ q.id \in 1 .. server.last
  /\ q.done # Null => q.done.ids \subseteq (1 .. server.last) \ DOMAIN server.items

GInv ==
  /\ server.last \in 0 .. MaxId
  /\ gone \subseteq 1 .. server.last
  /\ Kept(server)
  /\ cache # Null => Kept(cache)
  /\ fetch.open /\ fetch.read # Null => Kept(fetch.read)
  /\ ui.draft # Null => ui.active \in 1 .. server.last
  /\ \A r \in Requests : reqs[r] # Null => Answered(reqs[r])

LEMMA ShownListed ==
  ASSUME page = "review", NEW n \in 0 .. MaxId, NEW c, NEW e, NEW u, Show(c, e, u),
         c # Null => DOMAIN c.items \subseteq 1 .. n
  PROVE  ui'.draft # Null => ui'.active \in 1 .. n
<1>1. PICK now, place :
        /\ c # Null => now \in Selections(c.items, u)
        /\ ui' = [url |-> IF page = "review" /\ c # Null /\ now = Null THEN Null ELSE u.url,
                  active |-> now, draft |-> DraftAfter(c, e, now, u.draft, place),
                  filter |-> u.filter]
  BY DEF Show
<1>2. ui'.active = now /\ ui'.draft = DraftAfter(c, e, now, u.draft, place)
  BY <1>1
<1>3. ui'.draft # Null => c # Null /\ now # Null
  <2>1. ui'.draft = IF Mounted(c, e) THEN ReviewDraft(c.items, now, u.draft) ELSE Null
    BY <1>2 DEF DraftAfter, Inspecting
  <2> QED
    BY <2>1 DEF Mounted, ReviewDraft
<1>4. ASSUME c # Null, now # Null PROVE now \in 1 .. n
  <2>1. now = ReviewSelection(c.items, u)
    BY <1>1, <1>4 DEF Selections
  <2>2. CASE DOMAIN c.items = {}
    BY <1>4, <2>1, <2>2 DEF ReviewSelection, Newest
  <2>3. CASE DOMAIN c.items # {}
    <3>1. DOMAIN c.items \subseteq 0 .. n
      BY <1>4
    <3>2. Max(DOMAIN c.items) \in DOMAIN c.items
      BY <2>3, <3>1, MaxOfBounded
    <3> QED
      BY <1>4, <2>1, <2>3, <3>2 DEF ReviewSelection, Newest
  <2> QED
    BY <2>2, <2>3
<1> QED
  BY <1>2, <1>3, <1>4

\* Steps that leave the server's list and what was answered.
LEMMA ReviewsRest ==
  ASSUME GInv, server' = server, gone' = gone, reqs' = reqs,
         (cache # Null => Kept(cache))',
         (fetch.open /\ fetch.read # Null => Kept(fetch.read))',
         (ui.draft # Null => ui.active \in 1 .. server.last)'
  PROVE  GInv'
BY DEF GInv, Kept, Answered

LEMMA ReviewShown ==
  ASSUME page = "review", GInv, server' = server, gone' = gone, reqs' = reqs,
         NEW c, NEW e, NEW u, Show(c, e, u), c # Null => Kept(c),
         fetch' \in {fetch, NotAsked}
  PROVE  GInv'
<1>1. cache' = c
  BY DEF Show
<1>2. server.last \in 0 .. MaxId /\ (c # Null => DOMAIN c.items \subseteq 1 .. server.last)
  BY DEF GInv, Kept
<1>3. ui'.draft # Null => ui'.active \in 1 .. server.last
  BY <1>2, ShownListed
<1>4. (cache # Null => Kept(cache))'
  BY <1>1 DEF Kept
<1>5. (fetch.open /\ fetch.read # Null => Kept(fetch.read))'
  BY DEF GInv, Kept, NotAsked
<1> QED
  BY <1>3, <1>4, <1>5, ReviewsRest

LEMMA ReviewUser == ASSUME page = "review", GInv, DInv, User PROVE GInv'
<1>1. CASE Select
  <2>1. PICK id \in Id : SelectReview(id)
    BY <1>1 DEF Select, SelectTransaction, SelectSeries, SelectRule, SelectExport
  <2> QED
    BY <2>1, ReviewShown DEF SelectReview, GInv
<1>2. CASE Type
  <2>1. ui.draft # Null /\ Typed
    BY <1>2 DEF Type, TypeReview, TypeTransaction, TypeRule, TypeSeries, TypeSettings, Form
  <2>2. ui' = [ui EXCEPT !.draft.typed = TRUE] /\ Shown(ui)
    BY <2>1 DEF Typed, DInv, OwnDraft
  <2>3. ui'.active = ui.active
    BY <2>2 DEF Shown
  <2>4. server' = server /\ gone' = gone /\ reqs' = reqs /\ cache' = cache /\ fetch' = fetch
    BY <2>1 DEF Typed
  <2> QED
    BY <2>1, <2>3, <2>4, ReviewsRest DEF GInv, Kept
<1>3. CASE Correct
  <2>1. /\ ui.draft # Null /\ ui' = ui /\ server' = server /\ gone' = gone
        /\ cache' = cache /\ fetch' = fetch
    BY <1>3 DEF Correct, Form, Send
  <2>2. PICK r \in Requests :
          reqs' = [reqs EXCEPT ![r] =
                    [kind |-> "correct", id |-> ui.active, done |-> Null,
                     of |-> IF ui.draft = Null THEN Null ELSE ui.draft.of]]
    BY <1>3 DEF Correct, Send
  <2>3. PICK q : q = [kind |-> "correct", id |-> ui.active, done |-> Null,
                      of |-> IF ui.draft = Null THEN Null ELSE ui.draft.of]
    OBVIOUS
  <2>4. reqs' = [reqs EXCEPT ![r] = q]
    BY <2>2, <2>3
  <2>5. q.id = ui.active /\ q.done = Null
    BY <2>3
  <2>6. reqs'[r] = q /\ \A p \in Requests : p # r => reqs'[p] = reqs[p]
    BY <2>4, RequestsAfter DEF DInv
  <2>7. Answered(q)'
    BY <2>1, <2>5 DEF Answered, GInv
  <2>8. (\A p \in Requests : reqs[p] # Null => Answered(reqs[p]))'
    BY <2>1, <2>6, <2>7 DEF Answered, GInv
  <2> QED
    BY <2>1, <2>8 DEF GInv, Kept
<1> QED
  BY <1>1, <1>2, <1>3
  DEF User, StartNew, ChangeFilter, SubmitFilter, SaveTransaction, CreateDraftRule, SaveRule, ChangeRule,
      SaveSeries, ConfirmSeries, DisableSeries, SaveSettings, CreateExport, SyncNow, Form

LEMMA ReviewFetched ==
  ASSUME page = "review", GInv, Refetch \/ Read \/ Receive \/ FetchFails
  PROVE  GInv'
<1>1. CASE Refetch \/ Read
  <2>1. /\ server' = server /\ gone' = gone /\ reqs' = reqs /\ cache' = cache /\ ui' = ui
        /\ fetch'.read \in {Null, server}
    BY <1>1 DEF Refetch, Read, Asked
  <2> QED
    BY <2>1, ReviewsRest DEF GInv, Kept
<1>2. CASE Receive
  BY <1>2, ReviewShown DEF Receive, GInv
<1>3. CASE FetchFails
  BY <1>3, ReviewShown DEF FetchFails, GInv
<1> QED
  BY <1>1, <1>2, <1>3

\* No id of the list is one that was given before and was not there.
Grown(items, ids) ==
  DOMAIN items \subseteq DOMAIN server.items \cup {x \in ids : x > server.last}

LEMMA ReviewsChanged ==
  ASSUME GInv, NEW items, NEW ids, ids \subseteq Id,
         Listing(server'), server'.items = items, server'.last = Max({server.last} \cup ids),
         Grown(items, ids)
  PROVE  /\ server'.last \in 0 .. MaxId /\ 1 .. server.last \subseteq 1 .. server'.last
         /\ gone' = gone => Kept(server)'
<1> DEFINE S == {server.last} \cup ids
<1>0. MaxId \in Nat /\ server.last \in 0 .. MaxId /\ ids \subseteq 1 .. MaxId
  BY ClientAssumption DEF GInv, Id
<1>1. S \subseteq 0 .. MaxId /\ S # {}
  <2>1. 1 .. MaxId \subseteq 0 .. MaxId
    BY <1>0
  <2> QED
    BY <1>0, <2>1
<1>2. Max(S) \in S /\ \A x \in S : x <= Max(S)
  <2> HIDE DEF S
  <2> QED
    BY <1>0, <1>1, MaxOfBounded
<1>3. server'.last = Max(S)
  OBVIOUS
<1>4. server'.last \in 0 .. MaxId /\ server.last <= server'.last /\ ids \subseteq 1 .. server'.last
  <2>1. Max(S) \in 0 .. MaxId /\ server.last <= Max(S) /\ \A x \in ids : x <= Max(S)
    BY <1>1, <1>2
  <2>2. \A x \in ids : x \in 1 .. Max(S)
    <3> HIDE DEF S
    <3> QED
      BY <1>0, <2>1
  <2> HIDE DEF S
  <2> QED
    BY <1>3, <2>1, <2>2
<1>5. 1 .. server.last \subseteq 1 .. server'.last
  BY <1>0, <1>4
<1>6. DOMAIN items \subseteq (1 .. server'.last) \ gone
  <2>1. DOMAIN server.items \subseteq (1 .. server.last) \ gone /\ gone \subseteq 1 .. server.last
    BY DEF GInv, Kept
  <2>2. \A x \in ids : x > server.last => x \notin gone
    <3>1. \A x \in gone : x <= server.last
      BY <1>0, <2>1
    <3>2. \A x \in ids : x \in Int
      BY <1>0
    <3> QED
      BY <1>0, <3>1, <3>2
  <2> QED
    BY <1>4, <1>5, <2>1, <2>2 DEF Grown
<1> QED
  BY <1>3, <1>4, <1>5, <1>6 DEF Kept

LEMMA ReviewServed ==
  ASSUME page = "review", GInv, DInv, NEW r \in Requests, Server(r)
  PROVE  GInv'
<1>1. ServeReview(r)
  BY DEF Server, Asks, ServeReview, ServeTransaction, ServeDraftRule, ServeNewRule, ServeRule,
         ServeApply, ServeSeries, ServeDisable, ServeSettings, ServeExport, ServeSync
<1>2. PICK ids : /\ reqs[r] # Null /\ ids \subseteq {reqs[r].id} \cup DOMAIN server.items
                 /\ Serve(r, Without(server.items, ids), ids)
  BY <1>1 DEF ServeReview, Asks
<1>3. PICK items : items = Without(server.items, ids)
  OBVIOUS
<1>4. DOMAIN items = DOMAIN server.items \ ids
  BY <1>3 DEF Without, Restrict
<1>5. ids \subseteq 1 .. server.last /\ ids \subseteq Id
  BY <1>2, ClientAssumption DEF GInv, Answered, Kept, Id
<1>6. /\ server' = [v |-> server.v + 1, items |-> items, last |-> Max({server.last} \cup ids)]
      /\ cache' = cache /\ fetch' = fetch /\ ui' = ui /\ gone' = gone
  BY <1>2, <1>3 DEF Serve
<1>7. /\ server'.last \in 0 .. MaxId /\ 1 .. server.last \subseteq 1 .. server'.last
      /\ Kept(server)' /\ server'.items = items
  <2>0. /\ server'.items = items /\ server'.last = Max({server.last} \cup ids)
        /\ Listing(server')
    BY <1>6 DEF Listing
  <2>1. Grown(items, ids)
    BY <1>4 DEF Grown
  <2> QED
    BY <1>5, <1>6, <2>0, <2>1, ReviewsChanged
<1>8. PICK a : a = [v |-> server.v + 1, ids |-> ids] /\ reqs' = [reqs EXCEPT ![r].done = a]
  BY <1>2 DEF Serve
<1>9. a.ids = ids
  BY <1>8
<1>10. PICK q : q = [reqs[r] EXCEPT !.done = a]
  OBVIOUS
<1>11. q.done = a /\ q.id = reqs[r].id
  BY <1>2, <1>10 DEF DInv, OwnRequest, Asking
<1>12. reqs' = [reqs EXCEPT ![r] = q]
  BY <1>8, <1>10
<1>13. reqs'[r] = q /\ \A p \in Requests : p # r => reqs'[p] = reqs[p]
  BY <1>12, RequestsAfter DEF DInv
<1>14. Answered(q)'
  BY <1>2, <1>4, <1>5, <1>7, <1>9, <1>11 DEF Answered, GInv
<1>15. ASSUME NEW p \in Requests, reqs[p] # Null PROVE Answered(reqs[p])' \/ p = r
  BY <1>4, <1>7, <1>13, <1>15 DEF Answered, GInv
<1>16. (\A p \in Requests : reqs[p] # Null => Answered(reqs[p]))'
  BY <1>13, <1>14, <1>15
<1> QED
  BY <1>6, <1>7, <1>16 DEF GInv, Kept

LEMMA ReviewElsewhere == ASSUME page = "review", GInv, Elsewhere PROVE GInv'
<1>1. PICK items :
        /\ server' = [v |-> server.v + 1, items |-> items,
                      last |-> Max({server.last} \cup DOMAIN items)]
        /\ DOMAIN items \subseteq DOMAIN server.items \cup (Id \cap {server.last + 1})
  <2>1. \A id, b : DOMAIN Changed(server.items, id, b) = DOMAIN server.items
    BY DEF Changed
  <2>2. \A ids : DOMAIN Without(server.items, ids) \subseteq DOMAIN server.items
    BY DEF Without, Restrict
  <2>3. \A id : DOMAIN Added(server.items, id) = DOMAIN server.items \cup {id}
    BY DEF Added
  <2>4. PICK new \in
          (UNION {{Changed(server.items, id, b) :
                     b \in IF page = "recurring" THEN BOOLEAN ELSE {server.items[id].confirmed}} :
                   id \in DOMAIN server.items})
            \cup {Without(server.items, {id}) :
                    id \in IF page \in Inspecting THEN DOMAIN server.items ELSE {}}
            \cup {Added(server.items, id) : id \in Comers} :
          server' = [v |-> server.v + 1, items |-> new,
                     last |-> Max({server.last} \cup DOMAIN new)]
    BY DEF Elsewhere
  <2>5. \/ \E id, b : new = Changed(server.items, id, b)
        \/ \E ids : new = Without(server.items, ids)
        \/ \E id \in Id \cap {server.last + 1} : new = Added(server.items, id)
    BY <2>4 DEF Comers
  <2>6. DOMAIN new \subseteq DOMAIN server.items \cup (Id \cap {server.last + 1})
    <3>1. CASE \E id, b : new = Changed(server.items, id, b)
      BY <2>1, <3>1
    <3>2. CASE \E ids : new = Without(server.items, ids)
      BY <2>2, <3>2
    <3>3. CASE \E id \in Id \cap {server.last + 1} : new = Added(server.items, id)
      <4>1. PICK id : id \in Id \cap {server.last + 1} /\ new = Added(server.items, id)
        BY <3>3
      <4>2. DOMAIN new = DOMAIN server.items \cup {id}
        BY <2>3, <4>1
      <4>3. {id} \subseteq Id \cap {server.last + 1}
        BY <4>1
      <4> QED
        BY <4>2, <4>3
    <3> QED
      BY <2>5, <3>1, <3>2, <3>3
  <2> QED
    BY <2>4, <2>6
<1>2. DOMAIN server.items \subseteq 1 .. server.last /\ server.last \in 0 .. MaxId
  BY DEF GInv, Kept
<1>3. DOMAIN items \subseteq Id /\ Grown(items, DOMAIN items)
  BY <1>1, <1>2, ClientAssumption DEF Id, Grown
<1>4. cache' = cache /\ fetch' = fetch /\ ui' = ui /\ gone' = gone /\ reqs' = reqs
  BY DEF Elsewhere
<1>5. /\ server'.last \in 0 .. MaxId /\ 1 .. server.last \subseteq 1 .. server'.last
      /\ Kept(server)' /\ server'.items = items
  <2>1. /\ server'.items = items /\ server'.last = Max({server.last} \cup DOMAIN items)
        /\ Listing(server')
    BY <1>1 DEF Listing
  <2> QED
    BY <1>3, <1>4, <2>1, ReviewsChanged
<1>6. (1 .. server.last) \cap DOMAIN items \subseteq DOMAIN server.items
  BY <1>1, <1>2
<1>7. (\A r \in Requests : reqs[r] # Null => Answered(reqs[r]))'
  BY <1>4, <1>5, <1>6 DEF GInv, Answered
<1> QED
  BY <1>4, <1>5, <1>7 DEF GInv, Kept

LEMMA ReviewAnswered ==
  ASSUME page = "review", GInv, DInv, NEW r \in Requests, Answer(r)
  PROVE  GInv'
<1>1. AnswerReview(r)
  BY DEF Answer, Answers, AnswerTransaction, AnswerRule, AnswerSeries, AnswerSettings,
         AnswerExport, AnswerSync
<1>2. /\ reqs[r] # Null /\ reqs[r].done # Null /\ server' = server
      /\ reqs' = [reqs EXCEPT ![r] = Null]
  BY <1>1 DEF AnswerReview, Answers
<1>3. reqs'[r] = Null /\ \A p \in Requests : p # r => reqs'[p] = reqs[p]
  BY <1>2, RequestsAfter DEF DInv
<1>4. cache # Null
  BY <1>2 DEF DInv, OwnRequest
<1>5. PICK ids : ids = reqs[r].done.ids
  OBVIOUS
<1>6. ids \subseteq (1 .. server.last) \ DOMAIN server.items
  BY <1>2, <1>5 DEF GInv, Answered
<1>7. PICK c, u : /\ c = WithoutCorrected(cache, ids) /\ Show(c, FALSE, u)
                  /\ gone' = gone \cup ids /\ fetch' = Asked
  BY <1>1, <1>4, <1>5 DEF AnswerReview, Invalidate
<1>8. Listing(c) /\ DOMAIN c.items = DOMAIN cache.items \ ids
  <2>1. Listing(cache)
    BY <1>4 DEF GInv, Kept
  <2>2. PICK x : x = Without(cache.items, ids)
    OBVIOUS
  <2>3. c = [cache EXCEPT !.items = x]
    BY <1>7, <2>2 DEF WithoutCorrected
  <2>4. Listing(c) /\ c.items = x
    BY <2>1, <2>3 DEF Listing
  <2> QED
    BY <2>2, <2>4 DEF Without, Restrict
<1>9. DOMAIN c.items \subseteq (1 .. server.last) \ (gone \cup ids)
  BY <1>4, <1>8 DEF GInv, Kept
<1>10. cache' = c
  BY <1>7 DEF Show
<1>11. ui'.draft # Null => ui'.active \in 1 .. server.last
  <2>1. server.last \in 0 .. MaxId /\ DOMAIN c.items \subseteq 1 .. server.last
    BY <1>9 DEF GInv
  <2> QED
    BY <1>7, <2>1, ShownListed
<1>12. Kept(cache)'
  BY <1>2, <1>7, <1>8, <1>9, <1>10 DEF Kept
<1>13. Kept(server)' /\ gone' \subseteq 1 .. server.last
  BY <1>2, <1>6, <1>7 DEF GInv, Kept
<1>14. fetch'.read = Null
  BY <1>7 DEF Asked
<1>15. (\A p \in Requests : reqs[p] # Null => Answered(reqs[p]))'
  BY <1>2, <1>3 DEF GInv, Answered
<1> QED
  BY <1>2, <1>11, <1>12, <1>13, <1>14, <1>15 DEF GInv

LEMMA ReviewsInductive ==
  (page = "review" => GInv) /\ DInv /\ [Next]_vars => (page = "review" => GInv)'
<1> SUFFICES ASSUME page = "review" => GInv, DInv, [Next]_vars, page' = "review" PROVE GInv'
  OBVIOUS
<1>1. page = "review"
  BY DEF Next, vars, User, Select, SelectReview, SelectTransaction, SelectSeries, SelectRule,
    SelectExport, StartNew, Type, TypeReview, TypeTransaction, TypeRule, TypeSeries,
    TypeSettings, Typed, ChangeFilter, SubmitFilter, Correct, SaveTransaction, CreateDraftRule, SaveRule,
    ChangeRule, SaveSeries, ConfirmSeries, DisableSeries, SaveSettings, CreateExport, SyncNow,
    Send, Refetch, Read, Receive, FetchFails, Elsewhere, Lose, Server, Answer, Answers, Serve,
    ServeReview, ServeTransaction, ServeDraftRule, ServeNewRule, ServeRule, ServeApply,
    ServeSeries, ServeDisable, ServeSettings, ServeExport, ServeSync, AnswerReview,
    AnswerTransaction, AnswerRule, AnswerSeries, AnswerSettings, AnswerExport, AnswerSync
<1>2. GInv
  BY <1>1
<1>3. CASE User
  BY <1>1, <1>2, <1>3, ReviewUser
<1>4. CASE Refetch \/ Read \/ Receive \/ FetchFails
  BY <1>1, <1>2, <1>4, ReviewFetched
<1>5. CASE Elsewhere
  BY <1>1, <1>2, <1>5, ReviewElsewhere
<1>6. CASE UNCHANGED vars
  BY <1>2, <1>6 DEF vars, GInv, Kept, Answered
<1>7. ASSUME NEW r \in Requests, Server(r) PROVE GInv'
  BY <1>1, <1>2, <1>7, ReviewServed
<1>8. ASSUME NEW r \in Requests, Answer(r) PROVE GInv'
  BY <1>1, <1>2, <1>8, ReviewAnswered
<1>9. ASSUME NEW r \in Requests, Lose(r) PROVE GInv'
  <2>1. /\ server' = server /\ gone' = gone /\ cache' = cache /\ fetch' = fetch /\ ui' = ui
        /\ reqs' = [reqs EXCEPT ![r] = Null]
    BY <1>9 DEF Lose
  <2>2. reqs'[r] = Null /\ \A p \in Requests : p # r => reqs'[p] = reqs[p]
    BY <2>1, RequestsAfter DEF DInv
  <2>3. (\A p \in Requests : reqs[p] # Null => Answered(reqs[p]))'
    BY <1>2, <2>1, <2>2 DEF GInv, Answered
  <2> QED
    BY <1>2, <2>1, <2>3 DEF GInv, Kept
<1> QED
  BY <1>3, <1>4, <1>5, <1>6, <1>7, <1>8, <1>9 DEF Next

LEMMA ReviewsInitially == Init => (page = "review" => GInv)
<1> SUFFICES ASSUME Init, page = "review" PROVE GInv
  OBVIOUS
<1>1. PICK items, ids : /\ items = [id \in ids |-> [rev |-> 0, confirmed |-> FALSE]]
                        /\ ids = InitialItems(page)
                        /\ server = [v |-> 0, last |-> Max({0} \cup ids), items |-> items]
  BY DEF Init
<1>2. ids = Id \ {MaxId}
  BY <1>1 DEF InitialItems
<1>3. MaxId \in Nat /\ {0} \cup ids \subseteq 0 .. MaxId
  BY <1>2, ClientAssumption DEF Id
<1>4. /\ Max({0} \cup ids) \in 0 .. MaxId
      /\ \A x \in ids : x <= Max({0} \cup ids)
  BY <1>3, MaxOfBounded
<1>5. server.last = Max({0} \cup ids) /\ server.items = items /\ Listing(server)
      /\ DOMAIN items = ids
  BY <1>1 DEF Listing
<1>6. ids \subseteq 1 .. server.last
  BY <1>2, <1>3, <1>4, <1>5 DEF Id
<1>7. gone = {} /\ cache = Null /\ fetch.read = Null /\ \A r \in Requests : reqs[r] = Null
  BY DEF Init, Asked
<1>8. ui.draft = Null
  BY DEF Init
<1> QED
  BY <1>4, <1>5, <1>6, <1>7, <1>8 DEF GInv, Kept

\* A review that an answer reported as corrected is not offered again, however the
\* fetches and answers overlapped (applyReviewResultToCache).
THEOREM CorrectedStay == Spec => []CorrectedStayAway
<1>1. (page = "review" => GInv) => CorrectedStayAway
  BY DEF GInv, Kept, CorrectedStayAway
<1> QED
  BY <1>1, DraftsInitially, DraftsInductive, ReviewsInitially, ReviewsInductive, PTL DEF Spec
------------------------------------------------------------------------------
(* Types *)

LEMMA MinOfNaturals ==
  ASSUME NEW S, S \subseteq Nat, S # {}
  PROVE  Min(S) \in S /\ \A x \in S : Min(S) <= x
<1>1. PICK t \in S : \A y \in S : ~ (<<y, t>> \in OpToRel(<, Nat))
  BY NatLessThanWellFounded, WFMin
<1>2. \A y \in S : ~ (y < t)
  BY <1>1 DEF OpToRel
<1>3. \A y \in S : t <= y
  BY <1>2
<1> QED
  BY <1>3 DEF Min

Contents == [rev: 0 .. MaxVersion, confirmed: BOOLEAN]

LEMMA ItemsTyped ==
  ASSUME NEW items
  PROVE  items \in Items <=> DOMAIN items \subseteq Id /\ items \in [DOMAIN items -> Contents]
BY DEF Items, Contents

LEMMA ItemsOf ==
  ASSUME NEW S \in SUBSET Id, NEW items \in [S -> Contents]
  PROVE  items \in Items /\ DOMAIN items = S
BY ItemsTyped

OwnList(c) == c \in Lists /\ (page = "settings" => DOMAIN c.items = {1})

\* A draft and a selection of the page's kind
Drafts == [of: Id \cup {New}, typed: BOOLEAN]

Chosen(u) ==
  /\ u.url \in Id \cup {Null} /\ u.active \in Id \cup {New, Null}
  /\ page \in Inspecting => u.active # New
  /\ page = "rules" => u.active # Null
  /\ u.draft # Null => u.draft \in Drafts
  /\ u.filter \in 0 .. MaxFilter

\* Pages without a form have no draft, a panel shows an item, and the list has it.
Fitting(c, u) ==
  /\ page \in Inspecting /\ u.draft # Null => u.active # Null
  /\ u.draft # Null => page \in Editing \cup {"settings"}
  /\ c # Null /\ page # "export" => u.active \in DOMAIN c.items \cup {New, Null}

Kinds ==
  {"correct", "save", "draft", "toggle", "apply", "confirm", "disable", "create", "sync"}

\* A request names an item, and so does its answer; that to a new one its id.
Requested(q) ==
  /\ q.kind \in Kinds /\ q.id \in Id \cup {New}
  /\ page \in Inspecting \/ q.kind = "apply" => q.id # New
  /\ page = "export" => q.id = New
  /\ q.done # Null =>
       /\ q.done.v \in 0 .. MaxVersion /\ q.done.ids \subseteq Id
       /\ q.id = New => q.done.ids # {}

Fetched(f) ==
  /\ f \in [open: BOOLEAN, read: Lists \cup {Null}]
  /\ f.read # Null => OwnList(f.read)

Loaded ==
  /\ page \in Pages
  /\ OwnList(server) /\ (cache # Null => OwnList(cache))
  /\ Fetched(fetch)
  /\ error \in BOOLEAN

Past == due \in 0 .. MaxVersion /\ gone \subseteq Id

TInv ==
  /\ Loaded
  /\ Chosen(ui) /\ Fitting(cache, ui)
  /\ \A r \in Requests : reqs[r] # Null => Requested(reqs[r])
  /\ Past

LEMMA TypesHold == TInv => TypeOK
BY DEF TInv, Loaded, Fetched, OwnList, Chosen, Drafts, Fitting, Requested, Kinds, Past, TypeOK

LEMMA ListTyped ==
  ASSUME NEW c, OwnList(c)
  PROVE  /\ DOMAIN c.items \subseteq Id /\ c.items \in [DOMAIN c.items -> Contents]
         /\ c.v \in 0 .. MaxVersion /\ c.last \in 0 .. MaxId /\ c.items \in Items
BY ItemsTyped DEF OwnList, Lists

LEMMA NewestListed ==
  ASSUME NEW S, S \subseteq Id, S # {}
  PROVE  Max(S) \in S
<1>1. MaxId \in Nat /\ S \subseteq 0 .. MaxId
  BY ClientAssumption DEF Id
<1> QED
  BY <1>1, MaxOfBounded

\* What is selected is in the list.
LEMMA SelectionTyped ==
  ASSUME page \in Pages, NEW items, DOMAIN items \subseteq Id,
         page = "settings" => DOMAIN items = {1},
         NEW u, Chosen(u), NEW now \in Selections(items, u)
  PROVE  /\ now \in Id \cup {New, Null}
         /\ page # "export" => now \in DOMAIN items \cup {New, Null}
         /\ page \in Inspecting => now # New
         /\ page = "rules" => now # Null
<1>1. New \notin Id /\ Null \notin Id /\ New # Null /\ 1 \in Id
  BY ClientAssumption DEF New, Id
<1>2. DOMAIN items # {} => Max(DOMAIN items) \in DOMAIN items
  BY NewestListed
<1>3. CASE page = "review"
  <2>1. now = ReviewSelection(items, u)
    BY <1>3 DEF Selections
  <2> QED
    BY <1>1, <1>2, <1>3, <2>1 DEF ReviewSelection, Newest
<1>4. CASE page = "transactions"
  <2>1. now = TransactionSelection(items, u)
    BY <1>4 DEF Selections
  <2> QED
    BY <1>1, <1>2, <1>4, <2>1 DEF TransactionSelection, Newest
<1>5. CASE page = "recurring"
  <2>1. now \in SeriesSelections(items, u)
    BY <1>5 DEF Selections
  <2>2. Preferred(items) \subseteq DOMAIN items \cup {Null}
    BY DEF Preferred
  <2> QED
    BY <1>1, <1>5, <2>1, <2>2 DEF SeriesSelections
<1>6. CASE page = "rules"
  <2>1. now = RuleSelection(items, u)
    BY <1>6 DEF Selections
  <2> QED
    BY <1>1, <1>6, <2>1 DEF RuleSelection, Inspecting
<1>7. CASE page = "export"
  <2>1. now \in ExportSelections(items, u)
    BY <1>7 DEF Selections
  <2> QED
    BY <1>1, <1>7, <2>1 DEF ExportSelections, Inspecting, Chosen
<1>8. CASE page = "settings"
  BY <1>1, <1>8 DEF Selections, Inspecting
<1>9. CASE page = "status"
  BY <1>1, <1>9 DEF Selections, Inspecting
<1> QED
  BY <1>3, <1>4, <1>5, <1>6, <1>7, <1>8, <1>9, ClientAssumption DEF Inspecting

LEMMA SeedTyped ==
  ASSUME NEW id \in Id \cup {New} PROVE Seed(id) \in Drafts
BY DEF Seed, Drafts

LEMMA DraftTyped ==
  ASSUME page \in Pages, NEW c, NEW e, NEW now \in Id \cup {New, Null}, NEW d, NEW place,
         d # Null => d \in Drafts,
         page = "rules" => now # Null
  PROVE  LET b == DraftAfter(c, e, now, d, place)
         IN b # Null => /\ b \in Drafts
                        /\ page \in Inspecting => now # Null
                        /\ page \in Editing \cup {"settings"}
<1>1. 1 \in Id
  BY ClientAssumption DEF Id
<1>2. CASE page = "rules"
  <2>1. DraftAfter(c, e, now, d, place) = IF c = Null THEN d ELSE RuleDraft(c.items, now, d)
    BY <1>2 DEF DraftAfter, Inspecting
  <2> QED
    BY <1>2, <2>1, SeedTyped DEF RuleDraft, Inspecting, Editing
<1>3. CASE page = "settings"
  <2>1. DraftAfter(c, e, now, d, place) = IF c = Null THEN d ELSE SettingsDraft(c.items, d)
    BY <1>3 DEF DraftAfter, Inspecting
  <2> QED
    BY <1>1, <1>3, <2>1, SeedTyped DEF SettingsDraft, Inspecting
<1>4. CASE page = "review"
  <2>1. DraftAfter(c, e, now, d, place) = IF Mounted(c, e) THEN ReviewDraft(c.items, now, d) ELSE Null
    BY <1>4 DEF DraftAfter, Inspecting
  <2> QED
    BY <1>4, <2>1, SeedTyped DEF ReviewDraft, Editing, Inspecting
<1>5. CASE page = "transactions"
  <2>1. DraftAfter(c, e, now, d, place)
          = IF Mounted(c, e) THEN TransactionDraft(c.items, now, d, place) ELSE Null
    BY <1>5 DEF DraftAfter, Inspecting
  <2> QED
    BY <1>5, <2>1, SeedTyped DEF TransactionDraft, Editing, Inspecting
<1>6. CASE page = "recurring"
  <2>1. DraftAfter(c, e, now, d, place)
          = IF Mounted(c, e) THEN SeriesDraft(c.items, now, d, place) ELSE Null
    BY <1>6 DEF DraftAfter, Inspecting
  <2> QED
    BY <1>6, <2>1, SeedTyped DEF SeriesDraft, Editing, Inspecting
<1>7. CASE page \notin Inspecting \cup {"rules", "settings"}
  BY <1>7 DEF DraftAfter, Inspecting
<1> QED
  BY <1>2, <1>3, <1>4, <1>5, <1>6, <1>7 DEF Inspecting

\* What Show leaves has its types and fits.
LEMMA ShowTyped ==
  ASSUME TInv, page' = page, NEW c, c # Null => OwnList(c), NEW e \in BOOLEAN,
         NEW u, Chosen(u), Show(c, e, u)
  PROVE  /\ cache' # Null => OwnList(cache)'
         /\ error' \in BOOLEAN
         /\ Chosen(ui)' /\ Fitting(cache, ui)'
<1>1. PICK now, place :
        /\ now \in IF c = Null THEN {u.active} ELSE Selections(c.items, u)
        /\ cache' = c /\ error' = e
        /\ ui' = [url |-> IF page = "review" /\ c # Null /\ now = Null THEN Null ELSE u.url,
                  active |-> now, draft |-> DraftAfter(c, e, now, u.draft, place),
                  filter |-> u.filter]
  BY DEF Show
<1>2. /\ ui'.active = now /\ ui'.draft = DraftAfter(c, e, now, u.draft, place)
      /\ ui'.url \in {Null, u.url} /\ ui'.filter = u.filter
  BY <1>1
<1>3. page \in Pages
  BY DEF TInv, Loaded
<1>4. /\ now \in Id \cup {New, Null}
      /\ c # Null /\ page # "export" => now \in DOMAIN c.items \cup {New, Null}
      /\ page \in Inspecting => now # New
      /\ page = "rules" => now # Null
  <2>1. CASE c = Null
    BY <1>1, <2>1 DEF Chosen
  <2>2. CASE c # Null
    <3>1. DOMAIN c.items \subseteq Id /\ (page = "settings" => DOMAIN c.items = {1})
      BY <2>2, ListTyped DEF OwnList
    <3>2. now \in Selections(c.items, u)
      BY <1>1, <2>2
    <3> QED
      BY <1>3, <2>2, <3>1, <3>2, SelectionTyped
  <2> QED
    BY <2>1, <2>2
<1>5. ui'.draft # Null =>
        /\ ui'.draft \in Drafts
        /\ page \in Inspecting => now # Null
        /\ page \in Editing \cup {"settings"}
  BY <1>2, <1>3, <1>4, DraftTyped DEF Chosen
<1>6. Chosen(ui)'
  BY <1>2, <1>4, <1>5 DEF Chosen
<1>7. Fitting(cache, ui)'
  BY <1>1, <1>2, <1>4, <1>5 DEF Fitting, Editing
<1> QED
  BY <1>1, <1>6, <1>7 DEF OwnList

RequestsTyped == \A r \in Requests : reqs[r] # Null => Requested(reqs[r])

LEMMA RequestsStay ==
  ASSUME TInv, page' = page, reqs' = reqs PROVE RequestsTyped'
BY DEF TInv, RequestsTyped, Requested

LEMMA RequestsEnd ==
  ASSUME TInv, DInv, page' = page, NEW r \in Requests, reqs' = [reqs EXCEPT ![r] = Null]
  PROVE  RequestsTyped'
BY RequestsAfter DEF TInv, DInv, RequestsTyped, Requested

LEMMA FetchTyped ==
  ASSUME TInv, page' = page, fetch' \in {fetch, Asked, NotAsked}
  PROVE  Fetched(fetch)'
<1>1. Fetched(fetch) /\ Fetched(Asked) /\ Fetched(NotAsked)
  BY DEF TInv, Loaded, Fetched, Asked, NotAsked
<1> QED
  BY <1>1 DEF Fetched, OwnList

\* Steps that show a list
LEMMA ShowKeepsTypes ==
  ASSUME TInv, page' = page, server' = server, fetch' \in {fetch, Asked, NotAsked},
         NEW c, c # Null => OwnList(c), NEW e \in BOOLEAN, NEW u, Chosen(u), Show(c, e, u),
         RequestsTyped', Past'
  PROVE  TInv'
<1>1. OwnList(server)' /\ page' \in Pages
  BY DEF TInv, Loaded, OwnList
<1> QED
  BY <1>1, FetchTyped, ShowTyped DEF TInv, Loaded, RequestsTyped

\* Steps that show nothing new
LEMMA RestKeepsTypes ==
  ASSUME TInv, UNCHANGED <<page, cache, error, ui>>, OwnList(server)',
         Fetched(fetch)', RequestsTyped', Past'
  PROVE  TInv'
<1>1. cache' # Null => OwnList(cache)'
  BY DEF TInv, Loaded, OwnList
<1>2. Chosen(ui)' /\ Fitting(cache, ui)'
  BY DEF TInv, Chosen, Fitting
<1>3. page' \in Pages /\ error' \in BOOLEAN
  BY DEF TInv, Loaded
<1> QED
  BY <1>1, <1>2, <1>3 DEF TInv, Loaded, RequestsTyped

LEMMA PastStays == ASSUME TInv, due' = due, gone' = gone PROVE Past'
BY DEF TInv, Past

LEMMA FetchKeepsTypes == ASSUME TInv, Refetch \/ Read \/ Receive \/ FetchFails PROVE TInv'
<1>1. RequestsTyped' /\ Past' /\ page' = page /\ server' = server
  BY RequestsStay, PastStays DEF Refetch, Read, Receive, FetchFails
<1>2. OwnList(server)'
  BY <1>1 DEF TInv, Loaded, OwnList
<1>3. CASE Refetch \/ Read
  <2>1. UNCHANGED <<page, cache, error, ui>>
    BY <1>3 DEF Refetch, Read
  <2>2. CASE Refetch
    BY <1>1, <1>2, <2>1, <2>2, FetchTyped, RestKeepsTypes DEF Refetch
  <2>3. CASE Read
    <3>1. fetch' = [open |-> TRUE, read |-> server] /\ OwnList(server)
      BY <2>3 DEF Read, TInv, Loaded
    <3>2. Fetched(fetch)'
      BY <1>1, <3>1 DEF Fetched, OwnList
    <3> QED
      BY <1>1, <1>2, <2>1, <3>2, RestKeepsTypes
  <2> QED
    BY <1>3, <2>2, <2>3
<1>4. Chosen(ui) /\ (cache # Null => OwnList(cache)) /\ (fetch.read # Null => OwnList(fetch.read))
  BY DEF TInv, Loaded, Fetched
<1>5. CASE Receive
  BY <1>1, <1>4, <1>5, ShowKeepsTypes DEF Receive
<1>6. CASE FetchFails
  BY <1>1, <1>4, <1>6, ShowKeepsTypes DEF FetchFails
<1> QED
  BY <1>3, <1>5, <1>6

------------------------------------------------------------------------------
(* What users send *)

LEMMA SendTyped ==
  ASSUME TInv, DInv, NEW kind \in Kinds, NEW id \in Id \cup {New}, Send(kind, id),
         page \in Inspecting \/ kind = "apply" => id # New, page = "export" => id = New
  PROVE  TInv'
<1>1. PICK r \in Requests :
        reqs' = [reqs EXCEPT ![r] =
          [kind |-> kind, id |-> id, done |-> Null,
           of |-> IF ui.draft = Null THEN Null ELSE ui.draft.of]]
  BY DEF Send
<1>2. PICK q : q = [kind |-> kind, id |-> id, done |-> Null,
                    of |-> IF ui.draft = Null THEN Null ELSE ui.draft.of]
  OBVIOUS
<1>3. reqs' = [reqs EXCEPT ![r] = q]
  BY <1>1, <1>2
<1>4. reqs'[r] = q /\ \A p \in Requests : p # r => reqs'[p] = reqs[p]
  BY <1>3, RequestsAfter DEF DInv
<1>5. UNCHANGED <<page, server, cache, fetch, error, ui, due, gone>>
  BY DEF Send
<1>6. Requested(q)'
  BY <1>2, <1>5 DEF Requested
<1>7. RequestsTyped'
  BY <1>4, <1>5, <1>6 DEF RequestsTyped, TInv, Requested
<1>8. OwnList(server)' /\ Past' /\ Fetched(fetch)'
  BY <1>5, PastStays, FetchTyped DEF TInv, Loaded, OwnList
<1> QED
  BY <1>5, <1>7, <1>8, RestKeepsTypes

\* What a panel shows is an item, and what the rules page shows at least a new one.
LEMMA FormTyped ==
  ASSUME TInv
  PROVE  /\ page \in Inspecting /\ ui.draft # Null => ui.active \in Id
         /\ page = "rules" => ui.active \in Id \cup {New}
         /\ ui.draft # Null => ui.draft \in Drafts
BY DEF TInv, Chosen, Fitting

\* The form is typed in, or another item of the page is picked.
LEMMA UiTyped ==
  ASSUME TInv, UNCHANGED <<page, server, cache, fetch, error, reqs, due, gone>>,
         Chosen(ui)', Fitting(cache, ui)'
  PROVE  TInv'
<1>1. RequestsTyped' /\ Past'
  BY RequestsStay, PastStays
<1>2. Loaded'
  BY FetchTyped DEF TInv, Loaded, OwnList
<1> QED
  BY <1>1, <1>2 DEF TInv, RequestsTyped

LEMMA TypedTyped == ASSUME TInv, DInv, ui.draft # Null, Typed PROVE TInv'
<1>1. ui' = [ui EXCEPT !.draft.typed = TRUE]
      /\ UNCHANGED <<page, server, cache, fetch, error, reqs, due, gone>>
  BY DEF Typed
<1>2. PICK d : d = [ui.draft EXCEPT !.typed = TRUE]
  OBVIOUS
<1>3. d \in Drafts
  BY <1>2, FormTyped DEF Drafts
<1>4. ui' = [ui EXCEPT !.draft = d]
  BY <1>1, <1>2
<1>5. ui'.url = ui.url /\ ui'.active = ui.active /\ ui'.draft = d /\ ui'.filter = ui.filter
  BY <1>4 DEF DInv, OwnDraft, Shown
<1>6. Chosen(ui)' /\ Fitting(cache, ui)'
  BY <1>1, <1>3, <1>5 DEF TInv, Chosen, Fitting
<1> QED
  BY <1>1, <1>6, UiTyped

LEMMA PickedTyped ==
  ASSUME TInv, DInv, page = "rules", NEW id \in Id \cup {New},
         cache # Null => id \in DOMAIN cache.items \cup {New},
         ui' = [ui EXCEPT !.active = id, !.draft = Seed(id)],
         UNCHANGED <<page, server, cache, fetch, error, reqs, due, gone>>
  PROVE  TInv'
<1>1. ui'.url = ui.url /\ ui'.active = id /\ ui'.draft = Seed(id) /\ ui'.filter = ui.filter
  BY DEF DInv, OwnDraft, Shown
<1>2. id # Null /\ page' \notin Inspecting
  BY ClientAssumption DEF Inspecting, Id, New
<1>3. Chosen(ui)' /\ Fitting(cache, ui)'
  BY <1>1, <1>2, SeedTyped DEF TInv, Chosen, Fitting, Editing
<1> QED
  BY <1>3, UiTyped

\* The transactions of another filter are typed.
LEMMA FoundTyped ==
  ASSUME TInv, NEW ids, ids \subseteq 1 .. server.last, NEW v \in 0 .. server.v
  PROVE  /\ Found(ids, v) \in Items
         /\ [v |-> v, last |-> server.last, items |-> Found(ids, v)] \in Lists
<1>1. /\ server.last \in 0 .. MaxId /\ server.v \in 0 .. MaxVersion
      /\ server.items \in [DOMAIN server.items -> Contents]
  BY ListTyped DEF TInv, Loaded
<1>2. ids \subseteq Id /\ v \in 0 .. MaxVersion
  BY <1>1, ClientAssumption DEF Id
<1>3. \A id \in DOMAIN server.items : server.items[id].rev \in 0 .. MaxVersion
  BY <1>1 DEF Contents
<1>4. Found(ids, v) \in [ids -> Contents]
  BY <1>2, <1>3 DEF Found, Contents
<1>5. Found(ids, v) \in Items
  BY <1>2, <1>4, ItemsOf
<1> QED
  BY <1>1, <1>2, <1>5 DEF Lists

LEMMA FilterTyped == ASSUME TInv, DInv, ChangeFilter PROVE TInv'
<1>1. PICK ids, v, earlier, shown, read :
        /\ ids \subseteq 1 .. server.last /\ v \in 0 .. server.v
        /\ earlier = [v |-> v, last |-> server.last, items |-> Found(ids, v)]
        /\ {shown, read} \subseteq {Null, earlier}
        /\ ShowOther(shown)
        /\ server' = [server EXCEPT !.items = Found(ids, server.v)]
        /\ fetch' = [open |-> TRUE, read |-> read]
        /\ due' = IF read # Null /\ v < due THEN v ELSE due
  BY DEF ChangeFilter
<1>2. /\ page = "transactions" /\ page' = page /\ reqs' = reqs /\ gone' = gone
      /\ ui.filter < MaxFilter
  BY DEF ChangeFilter
<1>3. server \in Lists /\ server.v \in 0 .. MaxVersion
  BY ListTyped DEF TInv, Loaded, OwnList
<1>4. Found(ids, server.v) \in Items
  <2>1. server.v \in 0 .. server.v
    BY <1>3
  <2> QED
    BY <1>1, <2>1, FoundTyped
<1>5. earlier \in Lists
  BY <1>1, FoundTyped
<1>6. OwnList(server)' /\ (shown # Null => OwnList(shown)) /\ (read # Null => OwnList(read))
  BY <1>1, <1>2, <1>3, <1>4, <1>5 DEF OwnList, Lists
<1>7. Fetched(fetch)'
  BY <1>1, <1>2, <1>5, <1>6 DEF Fetched, OwnList
<1>8. Past'
  BY <1>1, <1>2, <1>3, ClientAssumption DEF TInv, Past
<1>9. /\ cache' = shown /\ error' = FALSE
      /\ ui'.url = ui.url /\ ui'.filter = ui.filter + 1
      /\ ui'.active = IF shown = Null THEN ui.active ELSE TransactionSelection(shown.items, ui)
      /\ ui'.draft = IF shown = Null \/ ui'.active = Null THEN Null ELSE Seed(ui'.active)
  BY <1>1, OtherShown DEF DInv, OwnDraft
<1>10. Chosen(ui) /\ page \in Inspecting /\ page \in Pages
  BY <1>2 DEF TInv, Loaded, Inspecting
<1>11. /\ ui'.active \in Id \cup {Null}
       /\ shown # Null => ui'.active \in DOMAIN shown.items \cup {Null}
  <2>1. CASE shown = Null
    BY <1>9, <1>10, <2>1 DEF Chosen
  <2>2. CASE shown # Null
    <3>1. DOMAIN shown.items \subseteq Id
      BY <1>6, <2>2, ListTyped
    <3>2. DOMAIN shown.items # {} => Max(DOMAIN shown.items) \in DOMAIN shown.items
      BY <3>1, NewestListed
    <3> QED
      BY <1>9, <2>2, <3>1, <3>2 DEF TransactionSelection, Newest
  <2> QED
    BY <2>1, <2>2
<1>12. ui'.draft # Null => ui'.active \in Id /\ ui'.draft \in Drafts
  BY <1>9, <1>11, SeedTyped
<1>13. Chosen(ui)'
  <2>1. ui'.filter \in 0 .. MaxFilter
    BY <1>2, <1>9, <1>10, ClientAssumption DEF Chosen
  <2>2. ui'.active # New /\ page # "rules"
    BY <1>2, <1>11, ClientAssumption DEF Id, New
  <2> QED
    BY <1>2, <1>9, <1>10, <1>11, <1>12, <2>1, <2>2 DEF Chosen
<1>14. Fitting(cache, ui)'
  BY <1>2, <1>9, <1>10, <1>11, <1>12, ClientAssumption DEF Fitting, Editing, Id
<1>15. Loaded'
  BY <1>2, <1>6, <1>7, <1>9, <1>10 DEF TInv, Loaded, OwnList
<1> QED
  BY <1>8, <1>13, <1>14, <1>15, <1>2, RequestsStay DEF TInv, RequestsTyped

LEMMA UserTyped == ASSUME TInv, DInv, User PROVE TInv'
<1>1. 1 \in Id /\ New \notin Id /\ Null \notin Id /\ New # Null
  BY ClientAssumption DEF Id, New
<1>2. CASE Select
  <2>1. PICK id \in Id : \/ SelectReview(id) \/ SelectTransaction(id) \/ SelectSeries(id)
                         \/ SelectRule(id) \/ SelectExport(id)
    BY <1>2 DEF Select
  <2>2. PICK u : u = IF page = "transactions" THEN [ui EXCEPT !.active = id]
                      ELSE [ui EXCEPT !.url = id, !.active = id]
    OBVIOUS
  <2>3. u.url \in {id, ui.url} /\ u.active = id /\ u.draft = ui.draft /\ u.filter = ui.filter
    BY <2>2 DEF DInv, OwnDraft, Shown
  <2>4. Chosen(u)
    BY <1>1, <2>3 DEF TInv, Chosen
  <2>5. CASE SelectReview(id) \/ SelectTransaction(id) \/ SelectSeries(id)
    <3>1. /\ Show(cache, error, u)
          /\ UNCHANGED <<page, server, fetch, reqs, due, gone>>
      BY <2>2, <2>5 DEF SelectReview, SelectTransaction, SelectSeries
    <3>2. (cache # Null => OwnList(cache)) /\ error \in BOOLEAN
      BY DEF TInv, Loaded
    <3> QED
      BY <2>4, <3>1, <3>2, ShowKeepsTypes, RequestsStay, PastStays
  <2>6. CASE SelectRule(id)
    BY <2>6, PickedTyped DEF SelectRule, Listed
  <2>7. CASE SelectExport(id)
    <3>1. /\ ui' = [ui EXCEPT !.active = id] /\ page = "export"
          /\ UNCHANGED <<page, server, cache, fetch, error, reqs, due, gone>>
      BY <2>7 DEF SelectExport
    <3>2. ui'.url = ui.url /\ ui'.active = id /\ ui'.draft = ui.draft /\ ui'.filter = ui.filter
      BY <3>1 DEF DInv, OwnDraft, Shown
    <3>3. Chosen(ui)' /\ Fitting(cache, ui)'
      BY <1>1, <3>1, <3>2 DEF TInv, Chosen, Fitting, Inspecting
    <3> QED
      BY <3>1, <3>3, UiTyped
  <2> QED
    BY <2>1, <2>5, <2>6, <2>7
<1>3. CASE StartNew
  BY <1>3, PickedTyped DEF StartNew
<1>4. CASE Type
  BY <1>4, TypedTyped
  DEF Type, TypeReview, TypeTransaction, TypeRule, TypeSeries, TypeSettings, Form
<1>5. CASE ChangeFilter
  BY <1>5, FilterTyped
<1>6. CASE Correct \/ SaveTransaction \/ CreateDraftRule
  <2>1. /\ ui.active \in Id /\ page \in Inspecting
        /\ \E kind \in Kinds \ {"apply"} : Send(kind, ui.active)
    BY <1>6, FormTyped DEF Correct, SaveTransaction, CreateDraftRule, Form, Inspecting, Kinds
  <2> QED
    BY <1>1, <2>1, SendTyped DEF Inspecting
<1>7. CASE SaveRule \/ ChangeRule
  <2>1. /\ page = "rules" /\ ui.active \in Id \cup {New}
        /\ \E kind \in Kinds : Send(kind, ui.active) /\ (kind = "apply" => ui.active # New)
    BY <1>7, FormTyped DEF SaveRule, ChangeRule, Form, Kinds
  <2> QED
    BY <2>1, SendTyped DEF Inspecting
<1>8. CASE SaveSeries \/ ConfirmSeries \/ DisableSeries
  <2>1. /\ ui.active \in Id /\ page \in Inspecting
        /\ \E kind \in Kinds \ {"apply"} : Send(kind, ui.active)
    BY <1>8, FormTyped DEF SaveSeries, ConfirmSeries, DisableSeries, Form, Inspecting, Kinds
  <2> QED
    BY <1>1, <2>1, SendTyped DEF Inspecting
<1>9. CASE SaveSettings \/ CreateExport \/ SyncNow
  <2>1. /\ page \notin Inspecting
        /\ \E kind \in Kinds \ {"apply"}, id \in Id \cup {New} :
             Send(kind, id) /\ (page = "export" => id = New)
    BY <1>1, <1>9 DEF SaveSettings, CreateExport, SyncNow, Form, Inspecting, Kinds
  <2> QED
    BY <2>1, SendTyped
<1>10. CASE SubmitFilter
  <2>1. /\ UNCHANGED <<page, server, cache, error, ui, reqs, due, gone>>
        /\ fetch' \in {fetch, Asked}
    BY <1>10 DEF SubmitFilter, Invalidate
  <2>2. OwnList(server)'
    BY <2>1 DEF TInv, Loaded, OwnList
  <2> QED
    BY <2>1, <2>2, FetchTyped, RequestsStay, PastStays, RestKeepsTypes
<1> QED
  BY <1>2, <1>3, <1>4, <1>5, <1>6, <1>7, <1>8, <1>9, <1>10 DEF User

------------------------------------------------------------------------------
(* What the server makes of its list *)

LEMMA ChangedTyped ==
  ASSUME NEW items \in Items, NEW id, NEW b \in BOOLEAN,
         server.v \in 0 .. MaxVersion, server.v < MaxVersion
  PROVE  Changed(items, id, b) \in Items /\ DOMAIN Changed(items, id, b) = DOMAIN items
<1>1. [rev |-> server.v + 1, confirmed |-> b] \in Contents
  BY ClientAssumption DEF Contents
<1>2. items \in [DOMAIN items -> Contents] /\ DOMAIN items \subseteq Id
  BY ItemsTyped
<1>3. Changed(items, id, b) \in [DOMAIN items -> Contents]
  BY <1>1, <1>2 DEF Changed
<1> QED
  BY <1>2, <1>3, ItemsOf

LEMMA WithoutTyped ==
  ASSUME NEW items \in Items, NEW ids
  PROVE  Without(items, ids) \in Items /\ DOMAIN Without(items, ids) = DOMAIN items \ ids
<1>1. items \in [DOMAIN items -> Contents] /\ DOMAIN items \subseteq Id
  BY ItemsTyped
<1>2. Without(items, ids) \in [DOMAIN items \ ids -> Contents]
  BY <1>1 DEF Without, Restrict
<1> QED
  BY <1>1, <1>2, ItemsOf

LEMMA AddedTyped ==
  ASSUME NEW items \in Items, NEW id \in Id,
         server.v \in 0 .. MaxVersion, server.v < MaxVersion
  PROVE  Added(items, id) \in Items
<1>1. [rev |-> server.v + 1, confirmed |-> FALSE] \in Contents
  BY ClientAssumption DEF Contents
<1>2. items \in [DOMAIN items -> Contents] /\ DOMAIN items \subseteq Id
  BY ItemsTyped
<1>3. Added(items, id) \in [DOMAIN items \cup {id} -> Contents]
  BY <1>1, <1>2 DEF Added
<1> QED
  BY <1>2, <1>3, ItemsOf

LEMMA LastTyped ==
  ASSUME NEW n \in 0 .. MaxId, NEW S, S \subseteq Id
  PROVE  Max({n} \cup S) \in 0 .. MaxId
<1>1. MaxId \in Nat /\ {n} \cup S \subseteq 0 .. MaxId
  BY ClientAssumption DEF Id
<1> HIDE DEF Id
<1>2. {n} \cup S # {}
  OBVIOUS
<1>3. Max({n} \cup S) \in {n} \cup S
  <2> DEFINE T == {n} \cup S
  <2>1. T \subseteq 0 .. MaxId /\ T # {}
    BY <1>1, <1>2
  <2> HIDE DEF T
  <2>2. Max(T) \in T
    BY <1>1, <2>1, MaxOfBounded
  <2> QED
    BY <2>2 DEF T
<1> QED
  BY <1>1, <1>3

\* The list, the last id and the version that a change leaves
LEMMA ServerTyped ==
  ASSUME TInv, page' = page, NEW items \in Items, NEW ids, ids \subseteq Id,
         server.v < MaxVersion, page = "settings" => DOMAIN items = {1},
         server' = [v |-> server.v + 1, items |-> items, last |-> Max({server.last} \cup ids)]
  PROVE  OwnList(server)'
<1>1. server.v \in 0 .. MaxVersion /\ server.last \in 0 .. MaxId
  BY ListTyped DEF TInv, Loaded
<1>2. Max({server.last} \cup ids) \in 0 .. MaxId
  BY <1>1, LastTyped
<1>3. server.v + 1 \in 0 .. MaxVersion
  BY <1>1, ClientAssumption
<1> QED
  BY <1>2, <1>3 DEF OwnList, Lists

LEMMA ServeTyped ==
  ASSUME TInv, DInv, NEW r \in Requests, reqs[r] # Null,
         NEW items \in Items, NEW ids, ids \subseteq Id, Serve(r, items, ids),
         server.v < MaxVersion, page = "settings" => DOMAIN items = {1},
         reqs[r].id = New => ids # {}
  PROVE  TInv'
<1>1. UNCHANGED <<page, cache, fetch, error, ui, due, gone>>
  BY DEF Serve
<1>2. OwnList(server)'
  BY <1>1, ServerTyped DEF Serve
<1>3. server.v + 1 \in 0 .. MaxVersion
  BY ListTyped, ClientAssumption DEF TInv, Loaded
<1>4. PICK a : a = [v |-> server.v + 1, ids |-> ids]
  OBVIOUS
<1>5. PICK q : q = [reqs[r] EXCEPT !.done = a]
  OBVIOUS
<1>6. reqs' = [reqs EXCEPT ![r] = q]
  BY <1>4, <1>5 DEF Serve
<1>7. q.kind = reqs[r].kind /\ q.id = reqs[r].id /\ q.done = a
  BY <1>5 DEF DInv, OwnRequest, Asking
<1>8. Requested(reqs[r]) /\ a.v \in 0 .. MaxVersion /\ a.ids = ids
  BY <1>3, <1>4 DEF TInv
<1>9. Requested(q)'
  BY <1>1, <1>7, <1>8 DEF Requested
<1>10. reqs'[r] = q /\ \A p \in Requests : p # r => reqs'[p] = reqs[p]
  BY <1>6, RequestsAfter DEF DInv
<1>11. RequestsTyped'
  BY <1>1, <1>9, <1>10 DEF TInv, RequestsTyped, Requested
<1> QED
  BY <1>1, <1>2, <1>11, PastStays, FetchTyped, RestKeepsTypes

LEMMA AnyServed ==
  ASSUME TInv, DInv, NEW r \in Requests, Server(r)
  PROVE  /\ reqs[r] # Null /\ server.v < MaxVersion
         /\ \E items \in Items, ids \in SUBSET Id :
              /\ Serve(r, items, ids)
              /\ page = "settings" => DOMAIN items = {1}
              /\ reqs[r].id = New => ids # {}
<1>1. server.items \in Items /\ server.v \in 0 .. MaxVersion /\ DOMAIN server.items \subseteq Id
      /\ server.last \in 0 .. MaxId
  BY ListTyped DEF TInv, Loaded
<1>2. reqs[r] # Null /\ server.v < MaxVersion
  BY DEF Server, Asks, ServeReview, ServeTransaction, ServeDraftRule, ServeNewRule, ServeRule,
         ServeApply, ServeSeries, ServeDisable, ServeSettings, ServeExport, ServeSync
<1>3. Requested(reqs[r])
  BY <1>2 DEF TInv
<1>4. 1 \in Id /\ New \notin Id
  BY ClientAssumption DEF Id, New
<1> DEFINE id == reqs[r].id
<1>5. CASE ServeReview(r)
  <2>1. page = "review"
    BY <1>5 DEF ServeReview, Asks
  <2>2. id \in Id
    BY <1>3, <2>1 DEF Requested, Inspecting
  <2>3. PICK similar \in SUBSET DOMAIN server.items :
          Serve(r, Without(server.items, {id} \cup similar), {id} \cup similar)
    BY <1>5 DEF ServeReview
  <2>4. Without(server.items, {id} \cup similar) \in Items /\ {id} \cup similar \in SUBSET Id
    BY <1>1, <2>2, WithoutTyped
  <2> QED
    BY <1>2, <1>4, <2>1, <2>2, <2>3, <2>4
<1>6. CASE ServeTransaction(r) \/ ServeDraftRule(r)
  <2>1. page = "transactions"
    BY <1>6 DEF ServeTransaction, ServeDraftRule, Asks
  <2>2. id \in Id
    BY <1>3, <2>1 DEF Requested, Inspecting
  <2>3. {Without(server.items, {id}), Added(server.items, id), server.items} \subseteq Items
    <3>1. server.items \in Items
      BY <1>1
    <3>2. Without(server.items, {id}) \in Items
      BY <3>1, WithoutTyped
    <3>3. Added(server.items, id) \in Items
      BY <1>1, <1>2, <2>2, <3>1, AddedTyped
    <3> QED
      BY <3>1, <3>2, <3>3
  <2>4. \E items \in {Without(server.items, {id}), Added(server.items, id), server.items},
          ids \in {{id}, {}} :
          Serve(r, items, ids)
    BY <1>6 DEF ServeTransaction, ServeDraftRule
  <2>5. \E items \in Items, ids \in SUBSET Id : Serve(r, items, ids)
    BY <2>2, <2>3, <2>4
  <2> QED
    BY <1>2, <1>4, <2>1, <2>2, <2>5
<1>7. CASE ServeNewRule(r) \/ ServeExport(r)
  <2>1. page \in {"rules", "export"} /\ server.last < MaxId
        /\ Serve(r, Added(server.items, server.last + 1), {server.last + 1})
    BY <1>7 DEF ServeNewRule, ServeExport, Asks
  <2>2. server.last + 1 \in Id
    BY <1>1, <2>1, ClientAssumption DEF Id
  <2>3. Added(server.items, server.last + 1) \in Items
    BY <1>1, <1>2, <2>2, AddedTyped
  <2> QED
    BY <1>2, <2>1, <2>2, <2>3
<1>8. CASE ServeRule(r) \/ ServeApply(r)
  <2>1. page = "rules" /\ id \in Id
    BY <1>3, <1>8 DEF ServeRule, ServeApply, Asks, Requested
  <2>2. {Changed(server.items, id, FALSE), server.items} \subseteq Items
    BY <1>1, <1>2, ChangedTyped
  <2>3. \E items \in {Changed(server.items, id, FALSE), server.items} : Serve(r, items, {id})
    BY <1>8 DEF ServeRule, ServeApply
  <2>4. \E items \in Items : Serve(r, items, {id})
    BY <2>2, <2>3
  <2> QED
    BY <1>2, <2>1, <2>4
<1>9. CASE ServeSeries(r) \/ ServeDisable(r)
  <2>1. page = "recurring"
    BY <1>9 DEF ServeSeries, ServeDisable, Asks
  <2>2. id \in Id
    BY <1>3, <2>1 DEF Requested, Inspecting
  <2> DEFINE after == {Changed(server.items, id, TRUE), server.items,
                       Without(server.items, {id})}
  <2>3. after \subseteq Items
    <3>1. Changed(server.items, id, TRUE) \in Items
      BY <1>1, <1>2, ChangedTyped
    <3>2. Without(server.items, {id}) \in Items
      BY <1>1, WithoutTyped
    <3> QED
      BY <1>1, <3>1, <3>2
  <2>4. \E items \in after : Serve(r, items, {id})
    BY <1>9 DEF ServeSeries, ServeDisable
  <2> HIDE DEF after
  <2>5. \E items \in Items : Serve(r, items, {id})
    BY <2>3, <2>4
  <2> QED
    BY <1>2, <2>1, <2>2, <2>5
<1>10. CASE ServeSettings(r) \/ ServeSync(r)
  <2>1. Serve(r, Changed(server.items, 1, FALSE), {1})
    BY <1>10 DEF ServeSettings, ServeSync
  <2>2. Changed(server.items, 1, FALSE) \in Items
        /\ DOMAIN Changed(server.items, 1, FALSE) = DOMAIN server.items
    BY <1>1, <1>2, ChangedTyped
  <2>3. page = "settings" => DOMAIN server.items = {1}
    BY DEF TInv, Loaded, OwnList
  <2> QED
    BY <1>2, <1>4, <2>1, <2>2, <2>3
<1> QED
  BY <1>5, <1>6, <1>7, <1>8, <1>9, <1>10 DEF Server

LEMMA ElsewhereTyped == ASSUME TInv, Elsewhere PROVE TInv'
<1>1. server.items \in Items /\ server.v \in 0 .. MaxVersion /\ DOMAIN server.items \subseteq Id
  BY ListTyped DEF TInv, Loaded
<1>2. server.v < MaxVersion /\ UNCHANGED <<page, cache, fetch, error, ui, reqs, due, gone>>
  BY DEF Elsewhere
<1>3. PICK items :
        /\ \/ \E id \in DOMAIN server.items, b \in BOOLEAN : items = Changed(server.items, id, b)
           \/ \E id \in DOMAIN server.items :
                page \in Inspecting /\ items = Without(server.items, {id})
           \/ \E id \in Id : page \notin {"settings", "status"} /\ items = Added(server.items, id)
        /\ server' = [v |-> server.v + 1, items |-> items,
                      last |-> Max({server.last} \cup DOMAIN items)]
  <2> DEFINE confirmed(id) == IF page = "recurring" THEN BOOLEAN ELSE {server.items[id].confirmed}
  <2>1. \A id \in DOMAIN server.items : confirmed(id) \subseteq BOOLEAN
    BY <1>1, ItemsTyped DEF Contents
  <2> DEFINE A == UNION {{Changed(server.items, id, b) : b \in confirmed(id)} :
                           id \in DOMAIN server.items}
             B == {Without(server.items, {id}) :
                     id \in IF page \in Inspecting THEN DOMAIN server.items ELSE {}}
             C == {Added(server.items, id) : id \in Comers}
  <2>2. PICK items \in A \cup B \cup C :
          server' = [v |-> server.v + 1, items |-> items,
                     last |-> Max({server.last} \cup DOMAIN items)]
    BY DEF Elsewhere
  <2>3. items \in A =>
          \E id \in DOMAIN server.items, b \in BOOLEAN : items = Changed(server.items, id, b)
    BY <2>1
  <2>4. items \in B =>
          \E id \in DOMAIN server.items :
            page \in Inspecting /\ items = Without(server.items, {id})
    OBVIOUS
  <2>5. items \in C =>
          \E id \in Id : page \notin {"settings", "status"} /\ items = Added(server.items, id)
    BY DEF Comers
  <2> HIDE DEF A, B, C
  <2> QED
    BY <2>2, <2>3, <2>4, <2>5
<1>4. items \in Items /\ (page = "settings" => DOMAIN items = {1})
  <2>1. ASSUME NEW id \in DOMAIN server.items, NEW b \in BOOLEAN,
               items = Changed(server.items, id, b)
        PROVE  items \in Items /\ DOMAIN items = DOMAIN server.items
    BY <1>1, <1>2, <2>1, ChangedTyped
  <2>2. ASSUME NEW id, items = Without(server.items, {id}) PROVE items \in Items
    BY <1>1, <2>2, WithoutTyped
  <2>3. ASSUME NEW id \in Id, items = Added(server.items, id) PROVE items \in Items
    BY <1>1, <1>2, <2>3, AddedTyped
  <2>4. page = "settings" => DOMAIN server.items = {1}
    BY DEF TInv, Loaded, OwnList
  <2> QED
    BY <1>3, <2>1, <2>2, <2>3, <2>4 DEF Inspecting
<1>5. DOMAIN items \subseteq Id
  BY <1>4, ItemsTyped
<1>6. OwnList(server)'
  BY <1>2, <1>3, <1>4, <1>5, ServerTyped
<1> QED
  BY <1>2, <1>6, RequestsStay, PastStays, FetchTyped, RestKeepsTypes

------------------------------------------------------------------------------
(* Answers *)

LEMMA RereadTyped ==
  ASSUME TInv, DInv, NEW r \in Requests, reqs[r] # Null, reqs[r].done # Null,
         reqs' = [reqs EXCEPT ![r] = Null], UNCHANGED <<page, server>>,
         NEW a \in Id \cup {ui.active}, Reread(r, a)
  PROVE  TInv'
<1>1. PICK u : u = [ui EXCEPT !.active = a]
  OBVIOUS
<1>2. u.url = ui.url /\ u.active = a /\ u.draft = ui.draft /\ u.filter = ui.filter
  BY <1>1 DEF DInv, OwnDraft, Shown
<1>3. Null \notin Id /\ New \notin Id
  BY ClientAssumption DEF Id, New
<1>4. Chosen(u)
  BY <1>2, <1>3 DEF TInv, Chosen
<1>5. Show(cache, error, u) /\ fetch' \in {fetch, Asked}
  BY <1>1 DEF Reread, Invalidate
<1>6. (cache # Null => OwnList(cache)) /\ error \in BOOLEAN
  BY DEF TInv, Loaded
<1>7. Requested(reqs[r])
  BY DEF TInv
<1>8. Past'
  BY <1>7 DEF Reread, TInv, Past, Requested
<1> QED
  BY <1>4, <1>5, <1>6, <1>8, RequestsEnd, ShowKeepsTypes

LEMMA ReviewAnswerTyped == ASSUME TInv, DInv, NEW r \in Requests, AnswerReview(r) PROVE TInv'
<1>1. /\ page = "review" /\ reqs[r] # Null /\ reqs[r].done # Null
      /\ reqs' = [reqs EXCEPT ![r] = Null] /\ UNCHANGED <<page, server>>
  BY DEF AnswerReview, Answers
<1>2. cache # Null /\ Requested(reqs[r])
  BY <1>1 DEF TInv, DInv, OwnRequest
<1>3. OwnList(cache) /\ DOMAIN cache.items \subseteq Id /\ cache.items \in Items
  BY <1>2, ListTyped DEF TInv, Loaded
<1>4. PICK next : next = NextReview(cache.items, reqs[r].id)
  OBVIOUS
<1>5. next \in Id \cup {Null}
  <2> DEFINE after == {i \in DOMAIN cache.items : i < reqs[r].id}
             before == {i \in DOMAIN cache.items : i > reqs[r].id}
  <2>1. after \subseteq Id /\ before \subseteq Id /\ before \subseteq Nat
    BY <1>3 DEF Id
  <2>2. next = IF reqs[r].id \notin DOMAIN cache.items THEN Newest(cache.items)
               ELSE IF after # {} THEN Max(after)
               ELSE IF before # {} THEN Min(before) ELSE Null
    BY <1>4 DEF NextReview
  <2> HIDE DEF after, before
  <2>3. Newest(cache.items) \in Id \cup {Null}
    BY <1>3, NewestListed DEF Newest
  <2>4. after # {} => Max(after) \in Id
    BY <2>1, NewestListed
  <2>5. before # {} => Min(before) \in Id
    BY <2>1, MinOfNaturals
  <2> QED
    BY <2>2, <2>3, <2>4, <2>5
<1>6. PICK u : u = [ui EXCEPT !.url = next, !.active = next]
  OBVIOUS
<1>7. u.url = next /\ u.active = next /\ u.draft = ui.draft /\ u.filter = ui.filter
  BY <1>6 DEF DInv, OwnDraft, Shown
<1>8. Null # New /\ New \notin Id
  BY ClientAssumption DEF Id, New
<1>9. Chosen(u)
  BY <1>1, <1>5, <1>7, <1>8 DEF TInv, Chosen, Inspecting
<1>10. PICK x : x = Without(cache.items, reqs[r].done.ids)
  OBVIOUS
<1>11. PICK c : c = [cache EXCEPT !.items = x]
  OBVIOUS
<1>12. c = WithoutCorrected(cache, reqs[r].done.ids)
  BY <1>10, <1>11 DEF WithoutCorrected
<1>13. x \in Items
  BY <1>3, <1>10, WithoutTyped
<1>14. OwnList(c)
  BY <1>1, <1>3, <1>11, <1>13 DEF OwnList, Lists
<1>15. /\ Show(c, FALSE, u) /\ fetch' \in {fetch, Asked}
       /\ due' = reqs[r].done.v /\ gone' = gone \cup reqs[r].done.ids
  BY <1>4, <1>6, <1>12 DEF AnswerReview, Invalidate
<1>16. Past'
  BY <1>1, <1>2, <1>15 DEF TInv, Past, Requested
<1> QED
  BY <1>1, <1>9, <1>14, <1>15, <1>16, RequestsEnd, ShowKeepsTypes

LEMMA SettingsAnswerTyped ==
  ASSUME TInv, DInv, NEW r \in Requests, AnswerSettings(r) PROVE TInv'
<1>1. /\ page = "settings" /\ reqs[r] # Null /\ reqs[r].done # Null
      /\ reqs' = [reqs EXCEPT ![r] = Null] /\ UNCHANGED <<page, server, fetch, gone>>
  BY DEF AnswerSettings, Answers
<1>2. 1 \in Id /\ 1 \in 0 .. MaxId /\ reqs[r].done.v \in 0 .. MaxVersion
  BY <1>1, ClientAssumption DEF TInv, Requested, Id
<1>3. PICK saved : saved = [rev |-> reqs[r].done.v, confirmed |-> FALSE]
  OBVIOUS
<1>4. PICK items : items = [id \in {1} |-> saved]
  OBVIOUS
<1>5. saved \in Contents /\ items \in [{1} -> Contents]
  BY <1>2, <1>3, <1>4 DEF Contents
<1>6. items \in Items /\ DOMAIN items = {1}
  BY <1>2, <1>5, ItemsOf
<1>7. /\ cache' = [v |-> reqs[r].done.v, last |-> 1, items |-> items]
      /\ ui' = [ui EXCEPT !.active = 1, !.draft = Seed(1)]
      /\ error' = FALSE /\ due' \in {due, reqs[r].done.v}
  BY <1>3, <1>4 DEF AnswerSettings
<1>8. OwnList(cache)' /\ cache'.items = items
  BY <1>2, <1>6, <1>7 DEF OwnList, Lists
<1>9. ui'.url = ui.url /\ ui'.active = 1 /\ ui'.draft = Seed(1) /\ ui'.filter = ui.filter
  BY <1>7 DEF DInv, OwnDraft, Shown
<1>10. Seed(1) \in Drafts
  BY <1>2, SeedTyped
<1>11. Chosen(ui)' /\ Fitting(cache, ui)'
  <2>1. page' \notin Inspecting /\ page' # "rules"
    BY <1>1 DEF Inspecting
  <2> QED
    BY <1>1, <1>2, <1>6, <1>8, <1>9, <1>10, <2>1 DEF TInv, Chosen, Fitting
<1>12. Past'
  BY <1>1, <1>2, <1>7 DEF TInv, Past
<1>13. Loaded'
  BY <1>1, <1>7, <1>8, FetchTyped DEF TInv, Loaded, OwnList
<1> QED
  BY <1>1, <1>11, <1>12, <1>13, RequestsEnd DEF TInv, RequestsTyped

LEMMA AnswerTyped == ASSUME TInv, DInv, NEW r \in Requests, Answer(r) PROVE TInv'
<1>1. CASE AnswerReview(r)
  BY <1>1, ReviewAnswerTyped
<1>2. CASE AnswerSettings(r)
  BY <1>2, SettingsAnswerTyped
<1>3. CASE AnswerTransaction(r) \/ AnswerSeries(r) \/ AnswerSync(r)
  BY <1>3, RereadTyped DEF AnswerTransaction, AnswerSeries, AnswerSync, Answers
<1>4. CASE AnswerRule(r) \/ AnswerExport(r)
  <2>1. /\ reqs[r] # Null /\ reqs[r].done # Null
        /\ reqs' = [reqs EXCEPT ![r] = Null] /\ UNCHANGED <<page, server>>
        /\ AnswerExport(r) => page = "export"
    BY <1>4 DEF AnswerRule, AnswerExport, Answers
  <2>2. Requested(reqs[r])
    BY <2>1 DEF TInv
  <2>3. reqs[r].id = New => Max(reqs[r].done.ids) \in Id
    BY <2>1, <2>2, NewestListed DEF Requested
  <2>4. AnswerExport(r) => reqs[r].id = New
    BY <2>1, <2>2 DEF Requested
  <2>5. \E a \in Id \cup {ui.active} : Reread(r, a)
    BY <1>4, <2>3, <2>4 DEF AnswerRule, AnswerExport
  <2> QED
    BY <2>1, <2>5, RereadTyped
<1> QED
  BY <1>1, <1>2, <1>3, <1>4 DEF Answer

LEMMA TypesInductive == TInv /\ DInv /\ [Next]_vars => TInv'
<1> SUFFICES ASSUME TInv, DInv, [Next]_vars PROVE TInv'
  OBVIOUS
<1>1. CASE User
  BY <1>1, UserTyped
<1>2. CASE Refetch \/ Read \/ Receive \/ FetchFails
  BY <1>2, FetchKeepsTypes
<1>3. CASE Elsewhere
  BY <1>3, ElsewhereTyped
<1>4. ASSUME NEW r \in Requests, Server(r) PROVE TInv'
  BY <1>4, AnyServed, ServeTyped
<1>5. ASSUME NEW r \in Requests, Answer(r) PROVE TInv'
  BY <1>5, AnswerTyped
<1>6. ASSUME NEW r \in Requests, Lose(r) PROVE TInv'
  <2>1. /\ reqs' = [reqs EXCEPT ![r] = Null]
        /\ UNCHANGED <<page, server, cache, fetch, error, ui, due, gone>>
    BY <1>6 DEF Lose
  <2>2. OwnList(server)'
    BY <2>1 DEF TInv, Loaded, OwnList
  <2> QED
    BY <2>1, <2>2, FetchTyped, PastStays, RequestsEnd, RestKeepsTypes
<1>7. CASE UNCHANGED vars
  BY <1>7 DEF vars, TInv, Loaded, OwnList, Fetched, Chosen, Fitting, Requested, Past
<1> QED
  BY <1>1, <1>2, <1>3, <1>4, <1>5, <1>6, <1>7 DEF Next

LEMMA TypesInitially == Init => TInv
<1> SUFFICES ASSUME Init PROVE TInv
  OBVIOUS
<1>1. page \in Pages /\ 1 \in Id /\ New \notin Id /\ Null # New /\ Null \notin Id
  BY ClientAssumption DEF Init, Id, New
<1>2. PICK ids : ids = InitialItems(page)
  OBVIOUS
<1>3. ids \subseteq Id /\ (page = "settings" => ids = {1})
  BY <1>1, <1>2 DEF InitialItems
<1>4. PICK items : items = [id \in ids |-> [rev |-> 0, confirmed |-> FALSE]]
  OBVIOUS
<1>5. items \in Items /\ DOMAIN items = ids
  <2>1. [rev |-> 0, confirmed |-> FALSE] \in Contents
    BY ClientAssumption DEF Contents
  <2>2. items \in [ids -> Contents]
    BY <1>4, <2>1
  <2> QED
    BY <1>3, <2>2, ItemsOf
<1>6. server = [v |-> 0, last |-> Max({0} \cup ids), items |-> items]
  BY <1>2, <1>4 DEF Init
<1>7. Max({0} \cup ids) \in 0 .. MaxId /\ 0 \in 0 .. MaxVersion
  BY <1>3, LastTyped, ClientAssumption
<1>8. OwnList(server)
  BY <1>3, <1>5, <1>6, <1>7 DEF OwnList, Lists
<1>9. /\ cache = Null /\ fetch = Asked /\ error = FALSE /\ due = 0 /\ gone = {}
      /\ \A r \in Requests : reqs[r] = Null
  BY DEF Init
<1>10. Loaded /\ Past
  BY <1>1, <1>7, <1>8, <1>9 DEF Loaded, Fetched, Asked, Past
<1>11. PICK url \in {Null} \cup (IF page \in Inspecting THEN Id ELSE {}) :
         ui = [url |-> IF page = "transactions" THEN Null ELSE url,
               active |-> IF page = "rules" THEN New ELSE url,
               draft |-> IF page \in {"rules", "settings"} THEN Seed(New) ELSE Null,
               filter |-> 0]
  BY DEF Init
<1>12. Chosen(ui) /\ Fitting(cache, ui)
  <2>1. CASE page = "rules"
    BY <1>1, <1>9, <1>11, <2>1, SeedTyped, ClientAssumption DEF Chosen, Fitting, Inspecting, Editing
  <2>2. CASE page # "rules"
    BY <1>1, <1>9, <1>11, <2>2, SeedTyped, ClientAssumption DEF Chosen, Fitting, Inspecting
  <2> QED
    BY <2>1, <2>2
<1> QED
  BY <1>9, <1>10, <1>12 DEF TInv

\* The parts of a page keep their types, and its panel shows an item of its list,
\* for any number of items, changes and requests (the effects of each page that
\* move the selection when the list changes).
THEOREM TypeCorrect == Spec => []TypeOK
BY TypesHold, DraftsInitially, DraftsInductive, TypesInitially, TypesInductive, PTL DEF Spec

------------------------------------------------------------------------------
(* What is typed stays. *)

\* The page stays on its item, and has nothing new of its list.
StaysOn ==
  /\ ui.draft # Null /\ ui.draft.typed /\ ui'.active = ui.active
  /\ Mounted(cache, error) /\ Mounted(cache', error')
  /\ page = "review" \/ cache.items = cache'.items

LEMMA ShowLeavesDraft ==
  ASSUME TInv, DInv, StaysOn, page' = page, NEW c, NEW e, NEW u, Show(c, e, u),
         u.draft = ui.draft
  PROVE  ui'.draft = ui.draft
<1>1. PICK now, place :
        /\ cache' = c /\ error' = e
        /\ ui' = [url |-> IF page = "review" /\ c # Null /\ now = Null THEN Null ELSE u.url,
                  active |-> now, draft |-> DraftAfter(c, e, now, u.draft, place),
                  filter |-> u.filter]
  BY DEF Show
<1>2. now = ui.active /\ ui'.draft = DraftAfter(c, e, now, ui.draft, place)
  BY <1>1 DEF StaysOn
<1>3. Mounted(c, e) /\ c # Null /\ cache # Null
  BY <1>1 DEF StaysOn, Mounted
<1>4. page = "review" \/ c.items = cache.items
  BY <1>1 DEF StaysOn
<1>5. ui.draft # Null /\ page \in Editing \cup {"settings"}
  BY DEF StaysOn, TInv, Fitting
<1>6. page \in Editing /\ now # New => ui.draft.of = now
  BY <1>2, <1>5 DEF DInv, OwnDraft
<1>7. page \in Inspecting => now # Null /\ now # New /\ now \in DOMAIN cache.items
  BY <1>2, <1>3, <1>5 DEF TInv, Fitting, Chosen, Inspecting
<1>8. CASE page = "rules"
  BY <1>2, <1>3, <1>4, <1>6, <1>8 DEF DraftAfter, RuleDraft, Editing, Inspecting
<1>9. CASE page = "settings"
  BY <1>2, <1>3, <1>4, <1>9 DEF DraftAfter, SettingsDraft, Inspecting
<1>10. CASE page = "review"
  BY <1>2, <1>3, <1>5, <1>6, <1>7, <1>10 DEF DraftAfter, ReviewDraft, Editing, Inspecting
<1>11. CASE page \in {"transactions", "recurring"}
  <2>1. SameItem(c.items, now, place) /\ ui.draft.of = now
    BY <1>3, <1>4, <1>6, <1>7, <1>11 DEF SameItem, Editing, Inspecting
  <2>2. ui'.draft \in {TransactionDraft(c.items, now, ui.draft, place),
                       SeriesDraft(c.items, now, ui.draft, place)}
    BY <1>2, <1>3, <1>11 DEF DraftAfter, Inspecting
  <2> QED
    BY <1>5, <1>7, <1>11, <2>1, <2>2 DEF TransactionDraft, SeriesDraft, Inspecting
<1> QED
  BY <1>5, <1>8, <1>9, <1>10, <1>11 DEF Editing, Inspecting

LEMMA TypingStays ==
  ASSUME TInv, DInv, Next, StaysOn, ~Select, ~StartNew, ~ChangeFilter,
         ~(\E r \in Requests : AnswerSettings(r))
  PROVE  ui'.draft = ui.draft
<1>1. CASE Type
  <2>1. ui' = [ui EXCEPT !.draft.typed = TRUE]
    BY <1>1 DEF Type, TypeReview, TypeTransaction, TypeRule, TypeSeries, TypeSettings, Typed
  <2>2. PICK d : d = [ui.draft EXCEPT !.typed = TRUE]
    OBVIOUS
  <2>3. ui' = [ui EXCEPT !.draft = d]
    BY <2>1, <2>2
  <2>4. ui'.draft = d
    BY <2>3 DEF DInv, OwnDraft, Shown
  <2>5. ui.draft \in Drafts /\ ui.draft.typed
    BY FormTyped DEF StaysOn
  <2>6. d = ui.draft
    BY <2>2, <2>5 DEF Drafts
  <2> QED
    BY <2>4, <2>6
<1>2. CASE User /\ ~Type
  BY <1>2 DEF User, SubmitFilter, Correct, SaveTransaction, CreateDraftRule, SaveRule, ChangeRule, SaveSeries,
    ConfirmSeries, DisableSeries, SaveSettings, CreateExport, SyncNow, Send
<1>3. CASE Refetch \/ Read \/ Elsewhere
  BY <1>3 DEF Refetch, Read, Elsewhere
<1>4. CASE Receive
  BY <1>4, ShowLeavesDraft DEF Receive
<1>5. CASE FetchFails
  BY <1>5, ShowLeavesDraft DEF FetchFails
<1>6. ASSUME NEW r \in Requests, Server(r) PROVE ui' = ui
  BY <1>6 DEF Server, ServeReview, ServeTransaction, ServeDraftRule, ServeNewRule, ServeRule,
    ServeApply, ServeSeries, ServeDisable, ServeSettings, ServeExport, ServeSync, Serve
<1>7. ASSUME NEW r \in Requests, Lose(r) PROVE ui' = ui
  BY <1>7 DEF Lose
<1>8. ASSUME NEW r \in Requests, AnswerReview(r) PROVE ui'.draft = ui.draft
  <2>1. PICK next : Show(WithoutCorrected(cache, reqs[r].done.ids), FALSE,
                         [ui EXCEPT !.url = next, !.active = next])
    BY <1>8 DEF AnswerReview
  <2>2. PICK u : u = [ui EXCEPT !.url = next, !.active = next]
    OBVIOUS
  <2>3. u.draft = ui.draft
    BY <2>2 DEF DInv, OwnDraft, Shown
  <2>4. page' = page
    BY <1>8 DEF AnswerReview, Answers
  <2>5. PICK c : c = WithoutCorrected(cache, reqs[r].done.ids)
    OBVIOUS
  <2>6. Show(c, FALSE, u)
    BY <2>1, <2>2, <2>5
  <2> QED
    BY <2>3, <2>4, <2>6, ShowLeavesDraft
<1>9. ASSUME NEW r \in Requests, NEW a, Reread(r, a), page' = page PROVE ui'.draft = ui.draft
  <2>1. PICK u : u = [ui EXCEPT !.active = a]
    OBVIOUS
  <2>2. u.draft = ui.draft
    BY <2>1 DEF DInv, OwnDraft, Shown
  <2>3. Show(cache, error, u)
    BY <1>9, <2>1 DEF Reread
  <2> QED
    BY <1>9, <2>2, <2>3, ShowLeavesDraft
<1>10. ASSUME NEW r \in Requests, Answer(r) PROVE ui'.draft = ui.draft
  BY <1>8, <1>9, <1>10 DEF Answer, AnswerTransaction, AnswerRule, AnswerSeries, AnswerExport,
    AnswerSync, Answers
<1> QED
  BY <1>1, <1>2, <1>3, <1>4, <1>5, <1>6, <1>7, <1>10 DEF Next

\* What is typed stays while the same item is shown, for any number of items,
\* changes and requests (the panel's key, the effects that seed the forms).
THEOREM TypingKept == Spec => KeepsTyping
<1>1. ASSUME TInv, DInv, [Next]_vars
      PROVE  [LET d == ui.draft
              IN /\ d # Null /\ d.typed /\ ui'.active = ui.active
                 /\ Mounted(cache, error) /\ Mounted(cache', error')
                 /\ page = "review" \/ cache.items = cache'.items
                 /\ ~Select /\ ~StartNew /\ ~ChangeFilter
                 /\ ~(\E r \in Requests : AnswerSettings(r))
                 => ui'.draft = d]_vars
  BY <1>1, TypingStays DEF StaysOn
<1> QED
  BY <1>1, DraftsInitially, DraftsInductive, TypesInitially, TypesInductive, PTL
  DEF Spec, KeepsTyping
=============================================================================
