------------------------------- MODULE Client -------------------------------
(***************************************************************************)
(* A page of the web client: the list the server has, the copy of it in    *)
(* the query cache, what the user selected and typed, and the requests     *)
(* under way.  Pages are loaded from the server one at a time, so one      *)
(* behaviour is the life of one page.  React runs effects before the next  *)
(* event: they are part of each step (Show).                               *)
(*                                                                         *)
(* External: the query cache of @tanstack/react-query, which joins a fetch *)
(* under way, cancels it when it is invalidated and has data, and keeps    *)
(* the identity of what a fetch brings back unchanged at the same place of *)
(* a list.                                                                 *)
(***************************************************************************)
EXTENDS Integers, FiniteSetsExt, Functions

CONSTANTS
  Pages,        \* pages to open
  Requests,     \* bound: requests at a time
  MaxId,        \* bound: items of the list
  MaxVersion,   \* bound: changes at the server
  MaxFilter,    \* bound: changes of the filter
  Null

Id == 1 .. MaxId
New == 0   \* the item that is not there yet: an empty rule, the form's defaults

Inspecting == {"review", "transactions", "recurring"}   \* pages with a panel for an item

ASSUME ClientAssumption ==
  /\ Pages \subseteq Inspecting \cup {"rules", "settings", "export", "status"}
  /\ MaxId \in Nat \ {0} /\ MaxVersion \in Nat /\ MaxFilter \in Nat
  /\ Null \notin Int

VARIABLES
  page,
  server,   \* what the page's query reads (of transactions what its filter finds), the
            \* last id, and a version each change counts up
  cache,    \* what it read last, or Null
  fetch,    \* open: a fetch is under way; read: what the server answered
  error,    \* the last fetch failed
  ui,       \* selection, the one in the URL where that is read again, what is typed,
            \* and the filter, counted up
  reqs,     \* mutations under way, or Null; of: the item their draft is of
  due,      \* history: version of the last answer that found the list loaded; less if
            \* the query that is shown has a fetch that was begun before
  gone      \* history: reviews that answers reported as corrected

vars == <<page, server, cache, fetch, error, ui, reqs, due, gone>>

\* rev: version of its last change; confirmed: of a recurring series
Items == UNION {[S -> [rev: 0 .. MaxVersion, confirmed: BOOLEAN]] : S \in SUBSET Id}

Asked == [open |-> TRUE, read |-> Null]
NotAsked == [open |-> FALSE, read |-> Null]
Seed(id) == [of |-> id, typed |-> FALSE]

InitialItems(p) ==
  CASE p \in {"settings", "status"} -> {1}
    [] p = "export" -> {}
    [] OTHER -> Id \ {MaxId}

Init ==
  /\ page \in Pages
  /\ server = [v |-> 0, last |-> Max({0} \cup InitialItems(page)),
               items |-> [id \in InitialItems(page) |-> [rev |-> 0, confirmed |-> FALSE]]]
  /\ cache = Null /\ fetch = Asked /\ error = FALSE
  /\ \E url \in {Null} \cup (IF page \in Inspecting THEN Id ELSE {}) :
       ui = [url |-> IF page = "transactions" THEN Null ELSE url,
             active |-> IF page = "rules" THEN New ELSE url,
             draft |-> IF page \in {"rules", "settings"} THEN Seed(New) ELSE Null,
             filter |-> 0]
  /\ reqs = [r \in Requests |-> Null]
  /\ due = 0 /\ gone = {}

------------------------------------------------------------------------------
(* Selection: what each page's effects leave selected, of the items and what *)
(* was selected before.  Reviews, transactions and rules stand in an order   *)
(* of their ids, the newest first except for rules; series and exports in    *)
(* one of dates, so any of them may be the first.                            *)

Newest(items) == IF DOMAIN items = {} THEN Null ELSE Max(DOMAIN items)

\* The URL wins.
ReviewSelection(items, u) ==
  IF u.url \in DOMAIN items THEN u.url
  ELSE IF u.active \in DOMAIN items THEN u.active ELSE Newest(items)

TransactionSelection(items, u) ==
  IF u.active \in DOMAIN items THEN u.active ELSE Newest(items)

\* preferredSeries: the first with warnings, which any of them may have, or not confirmed
Preferred(items) == IF DOMAIN items = {} THEN {Null} ELSE DOMAIN items

SeriesSelections(items, u) ==
  IF u.url \in DOMAIN items THEN {u.url}
  ELSE IF u.active \in DOMAIN items THEN {u.active} ELSE Preferred(items)

\* Variant: a rule the list lacks stays selected.
RuleSelectionKeepingRule(items, u) == u.active

\* A rule the list lacks gives way to the new one.
RuleSelection(items, u) == IF u.active \in DOMAIN items THEN u.active ELSE New

\* The run created last stays selected before the list has it.
ExportSelections(items, u) ==
  IF u.active # Null \/ DOMAIN items = {} THEN {u.active} ELSE DOMAIN items

Selections(items, u) ==
  CASE page = "review"       -> {ReviewSelection(items, u)}
    [] page = "transactions" -> {TransactionSelection(items, u)}
    [] page = "recurring"    -> SeriesSelections(items, u)
    [] page = "rules"        -> {RuleSelection(items, u)}
    [] page = "export"       -> ExportSelections(items, u)
    [] page = "settings"     -> {1}
    [] page = "status"       -> {Null}

------------------------------------------------------------------------------
(* Forms: does the draft d stay when the list becomes c, its error state e,  *)
(* and now is selected?  place says that an item unchanged in a changed list *)
(* is still at its place, and so the same to an effect.                      *)

\* A page whose query failed says so instead of the list.
Mounted(c, e) == c # Null /\ (e => page \notin {"review", "rules", "recurring"})

SameItem(c, now, place) ==
  cache # Null /\ now \in DOMAIN cache.items
    /\ c[now] = cache.items[now] /\ (c = cache.items \/ place)

\* The panel has the review's id as its key.
ReviewDraft(c, now, d) ==
  IF now = Null THEN Null ELSE IF d # Null /\ d.of = now THEN d ELSE Seed(now)

\* Variants: every fetch seeds the form; one of a transaction that left the list stays.
SeriesDraftAnew(c, now, d, place) == IF now = Null THEN Null ELSE Seed(now)
TransactionDraftOfLeaver(c, now, d, place) ==
  IF now = Null THEN Null
  ELSE IF d # Null /\ (d.of \notin DOMAIN c \/ (d.of = now /\ SameItem(c, now, place))) THEN d
  ELSE Seed(now)

\* The effects of the two inspectors seed the form when the item they are given
\* is another, or not the same as before.
TransactionDraft(c, now, d, place) ==
  IF now = Null THEN Null
  ELSE IF d # Null /\ d.of = now /\ SameItem(c, now, place) THEN d ELSE Seed(now)

SeriesDraft(c, now, d, place) ==
  IF now = Null THEN Null
  ELSE IF d # Null /\ d.of = now /\ SameItem(c, now, place) THEN d ELSE Seed(now)

\* The effect depends on the whole list; a new rule's draft stays.
RuleDraft(c, now, d) ==
  IF now = New \/ (d.of = now /\ cache # Null /\ c = cache.items) THEN d ELSE Seed(now)

SettingsDraft(c, d) == IF cache # Null /\ c = cache.items THEN d ELSE Seed(1)

DraftAfter(c, e, now, d, place) ==
  CASE page = "rules" -> IF c = Null THEN d ELSE RuleDraft(c.items, now, d)
    [] page = "settings" -> IF c = Null THEN d ELSE SettingsDraft(c.items, d)
    [] page \in Inspecting /\ ~Mounted(c, e) -> Null
    [] page = "review" /\ Mounted(c, e) -> ReviewDraft(c.items, now, d)
    [] page = "transactions" /\ Mounted(c, e) -> TransactionDraft(c.items, now, d, place)
    [] page = "recurring" /\ Mounted(c, e) -> SeriesDraft(c.items, now, d, place)
    [] OTHER -> Null

\* The cache becomes c, the error state e, selection and URL are set to those of u.
Show(c, e, u) ==
  \E now \in IF c = Null THEN {u.active} ELSE Selections(c.items, u), place \in BOOLEAN :
    /\ cache' = c
    /\ error' = e
    /\ ui' = [url |-> IF page = "review" /\ c # Null /\ now = Null THEN Null ELSE u.url,
              active |-> now, draft |-> DraftAfter(c, e, now, u.draft, place),
              filter |-> u.filter]

------------------------------------------------------------------------------
(* Fetches *)

\* The window gets the focus, or the status page polls; a fetch under way is joined.
Refetch ==
  /\ ~fetch.open
  /\ fetch' = Asked
  /\ UNCHANGED <<page, server, cache, error, ui, reqs, due, gone>>

\* Variant: a fetch under way is joined.
InvalidateJoining == fetch' = IF fetch.open THEN fetch ELSE Asked

\* invalidateQueries: a first fetch is joined.
Invalidate == fetch' = IF fetch.open /\ cache = Null THEN fetch ELSE Asked

\* The filter is submitted.
SubmitFilter ==
  /\ page = "transactions"
  /\ Invalidate
  /\ UNCHANGED <<page, server, cache, error, ui, reqs, due, gone>>

Read ==
  /\ fetch.open /\ fetch.read = Null
  /\ fetch' = [open |-> TRUE, read |-> server]
  /\ UNCHANGED <<page, server, cache, error, ui, reqs, due, gone>>

Receive ==
  /\ fetch.open /\ fetch.read # Null
  /\ fetch' = NotAsked
  /\ Show(fetch.read, FALSE, ui)
  /\ UNCHANGED <<page, server, reqs, due, gone>>

\* The last retry fails; the data there is stays.
FetchFails ==
  /\ fetch.open
  /\ fetch' = NotAsked
  /\ Show(cache, TRUE, ui)
  /\ UNCHANGED <<page, server, reqs, due, gone>>

\* The transactions ids at version v.
Found(ids, v) ==
  [id \in ids |->
     [rev |-> IF id \in DOMAIN server.items /\ server.items[id].rev <= v
              THEN server.items[id].rev ELSE v,
      confirmed |-> FALSE]]

\* Another query's list, or none, is shown: its objects are others, so the
\* inspector's effect seeds the form.
ShowOther(c) ==
  LET active == IF c = Null THEN ui.active ELSE TransactionSelection(c.items, ui)
  IN /\ cache' = c /\ error' = FALSE
     /\ ui' = [ui EXCEPT !.filter = @ + 1, !.active = active,
                         !.draft = IF c = Null \/ active = Null THEN Null ELSE Seed(active)]

\* A filter is part of the query's key, and finds transactions of its own: a query
\* still cached is shown at once as it was read then, and a fetch of it that was
\* left goes on and is joined.  What leaves the list between is left to the steps
\* after.
ChangeFilter ==
  /\ page = "transactions" /\ ui.filter < MaxFilter
  /\ \E ids \in SUBSET (1 .. server.last), v \in 0 .. server.v :
       LET earlier == [v |-> v, last |-> server.last, items |-> Found(ids, v)]
       IN \E shown, read \in {Null, earlier} :
            /\ ShowOther(shown)
            /\ server' = [server EXCEPT !.items = Found(ids, server.v)]
            /\ fetch' = [open |-> TRUE, read |-> read]
            /\ due' = IF read # Null /\ v < due THEN v ELSE due
  /\ UNCHANGED <<page, reqs, gone>>

------------------------------------------------------------------------------
(* The user *)

Listed(id) == Mounted(cache, error) /\ id \in DOMAIN cache.items

SelectReview(id) ==
  /\ page = "review" /\ Listed(id)
  /\ Show(cache, error, [ui EXCEPT !.url = id, !.active = id])
  /\ UNCHANGED <<page, server, fetch, reqs, due, gone>>

SelectTransaction(id) ==
  /\ page = "transactions" /\ Listed(id)
  /\ Show(cache, error, [ui EXCEPT !.active = id])
  /\ UNCHANGED <<page, server, fetch, reqs, due, gone>>

SelectSeries(id) ==
  /\ page = "recurring" /\ Listed(id)
  /\ Show(cache, error, [ui EXCEPT !.url = id, !.active = id])
  /\ UNCHANGED <<page, server, fetch, reqs, due, gone>>

SelectRule(id) ==
  /\ page = "rules" /\ Listed(id)
  /\ ui' = [ui EXCEPT !.active = id, !.draft = Seed(id)]
  /\ UNCHANGED <<page, server, cache, fetch, error, reqs, due, gone>>

SelectExport(id) ==
  /\ page = "export" /\ Listed(id)
  /\ ui' = [ui EXCEPT !.active = id]
  /\ UNCHANGED <<page, server, cache, fetch, error, reqs, due, gone>>

StartNew ==
  /\ page = "rules" /\ Mounted(cache, error)
  /\ ui' = [ui EXCEPT !.active = New, !.draft = Seed(New)]
  /\ UNCHANGED <<page, server, cache, fetch, error, reqs, due, gone>>

\* The form of a page is there.
Form(p) == page = p /\ (p = "settings" \/ Mounted(cache, error)) /\ ui.draft # Null

Typed ==
  /\ ui' = [ui EXCEPT !.draft.typed = TRUE]
  /\ UNCHANGED <<page, server, cache, fetch, error, reqs, due, gone>>

TypeReview == Form("review") /\ Typed
TypeTransaction == Form("transactions") /\ Typed
TypeRule == Form("rules") /\ Typed
TypeSeries == Form("recurring") /\ Typed
TypeSettings == Form("settings") /\ Typed

\* No request of these kinds is under way.
Idle(kinds) == \A r \in Requests : reqs[r] # Null => reqs[r].kind \notin kinds

Send(kind, id) ==
  /\ \E r \in Requests :
       /\ reqs[r] = Null
       /\ reqs' = [reqs EXCEPT ![r] =
            [kind |-> kind, id |-> id, done |-> Null,
             of |-> IF ui.draft = Null THEN Null ELSE ui.draft.of]]
  /\ UNCHANGED <<page, server, cache, fetch, error, ui, due, gone>>

\* Save, Exclude, Apply similar, Preview rule; Accept sends no draft.
Correct == Form("review") /\ Idle({"correct"}) /\ Send("correct", ui.active)

SaveTransaction == Form("transactions") /\ Idle({"save"}) /\ Send("save", ui.active)

\* The rule drafted from a transaction is created; each panel has a mutation of its own.
CreateDraftRule ==
  /\ Form("transactions")
  /\ \A r \in Requests : reqs[r] # Null /\ reqs[r].kind = "draft" => reqs[r].id # ui.active
  /\ Send("draft", ui.active)

\* Saving a rule is not disabled while a request is under way.
SaveRule == Form("rules") /\ Send("save", ui.active)

ChangeRule ==
  /\ Form("rules") /\ ui.active # New /\ Idle({"save", "toggle", "apply"})
  /\ Send("toggle", ui.active) \/ Send("apply", ui.active)

SaveSeries ==
  Form("recurring") /\ Idle({"save", "confirm", "disable"}) /\ Send("save", ui.active)

ConfirmSeries ==
  /\ Form("recurring") /\ ~cache.items[ui.active].confirmed
  /\ Idle({"save", "confirm", "disable"}) /\ Send("confirm", ui.active)

DisableSeries ==
  Form("recurring") /\ Idle({"save", "confirm", "disable"}) /\ Send("disable", ui.active)

SaveSettings == Form("settings") /\ Idle({"save"}) /\ Send("save", 1)

CreateExport == page = "export" /\ Idle({"create"}) /\ Send("create", New)

SyncNow == page = "status" /\ Idle({"sync"}) /\ Send("sync", 1)

------------------------------------------------------------------------------
(* The server; a request that fails is lost (Lose). *)

Changed(items, id, confirmed) ==
  [items EXCEPT ![id] = [rev |-> server.v + 1, confirmed |-> confirmed]]

Without(items, ids) == Restrict(items, DOMAIN items \ ids)

Added(items, id) ==
  [i \in DOMAIN items \cup {id} |->
     IF i = id THEN [rev |-> server.v + 1, confirmed |-> FALSE] ELSE items[i]]

\* A request of one of the kinds has come.
Asks(r, p, kinds) ==
  /\ page = p /\ reqs[r] # Null /\ reqs[r].done = Null /\ reqs[r].kind \in kinds
  /\ server.v < MaxVersion

\* The list becomes items, and ids are what the answer names.
Serve(r, items, ids) ==
  /\ server' = [v |-> server.v + 1, items |-> items, last |-> Max({server.last} \cup ids)]
  /\ reqs' = [reqs EXCEPT ![r].done = [v |-> server.v + 1, ids |-> ids]]
  /\ UNCHANGED <<page, cache, fetch, error, ui, due, gone>>

\* A correction may take similar reviews along.
ServeReview(r) ==
  /\ Asks(r, "review", {"correct"})
  /\ \E similar \in SUBSET DOMAIN server.items :
       Serve(r, Without(server.items, {reqs[r].id} \cup similar), {reqs[r].id} \cup similar)

\* The filter may find the changed transaction no more, or again.
ServeTransaction(r) ==
  /\ Asks(r, "transactions", {"save"})
  /\ \E items \in {Without(server.items, {reqs[r].id}), Added(server.items, reqs[r].id)} :
       Serve(r, items, {reqs[r].id})

ServeDraftRule(r) ==
  Asks(r, "transactions", {"draft"}) /\ Serve(r, server.items, {})

ServeNewRule(r) ==
  /\ Asks(r, "rules", {"save"}) /\ reqs[r].id = New
  /\ server.last < MaxId
  /\ Serve(r, Added(server.items, server.last + 1), {server.last + 1})

ServeRule(r) ==
  /\ Asks(r, "rules", {"save", "toggle"}) /\ reqs[r].id # New
  /\ Serve(r, Changed(server.items, reqs[r].id, FALSE), {reqs[r].id})

\* A backfill is queued.
ServeApply(r) ==
  Asks(r, "rules", {"apply"}) /\ Serve(r, server.items, {reqs[r].id})

\* What was disabled meanwhile is left as it is; the page takes that for success.
ServeSeries(r) ==
  /\ Asks(r, "recurring", {"save", "confirm"})
  /\ Serve(r, IF reqs[r].id \in DOMAIN server.items
              THEN Changed(server.items, reqs[r].id, TRUE) ELSE server.items, {reqs[r].id})

ServeDisable(r) ==
  /\ Asks(r, "recurring", {"disable"})
  /\ Serve(r, Without(server.items, {reqs[r].id}), {reqs[r].id})

ServeSettings(r) ==
  Asks(r, "settings", {"save"}) /\ Serve(r, Changed(server.items, 1, FALSE), {1})

ServeExport(r) ==
  /\ Asks(r, "export", {"create"})
  /\ server.last < MaxId
  /\ Serve(r, Added(server.items, server.last + 1), {server.last + 1})

ServeSync(r) ==
  Asks(r, "status", {"sync"}) /\ Serve(r, Changed(server.items, 1, FALSE), {1})

\* Items that may come to the list
Comers ==
  CASE page \in {"settings", "status"} -> {}
    [] page = "transactions" -> (Id \cap 1 .. server.last + 1) \ DOMAIN server.items
    [] OTHER -> Id \cap {server.last + 1}

\* Jobs and other pages; a filter may find any transaction that was changed.
Elsewhere ==
  LET items == server.items
      confirmed(id) == IF page = "recurring" THEN BOOLEAN ELSE {items[id].confirmed}
  IN /\ server.v < MaxVersion
     /\ \E new \in (UNION {{Changed(items, id, b) : b \in confirmed(id)} : id \in DOMAIN items})
               \cup {Without(items, {id}) :
                       id \in IF page \in Inspecting THEN DOMAIN items ELSE {}}
               \cup {Added(items, id) : id \in Comers} :
          server' = [v |-> server.v + 1, items |-> new,
                     last |-> Max({server.last} \cup DOMAIN new)]
     /\ UNCHANGED <<page, cache, fetch, error, ui, reqs, due, gone>>

------------------------------------------------------------------------------
(* Answers *)

\* nextReviewId
NextReview(items, id) ==
  LET after == {i \in DOMAIN items : i < id}
      before == {i \in DOMAIN items : i > id}
  IN IF id \notin DOMAIN items THEN Newest(items)
     ELSE IF after # {} THEN Max(after)
     ELSE IF before # {} THEN Min(before) ELSE Null

\* Variant: only the counts are set.
UncorrectedOnly(c, ids) == c

\* applyReviewResultToCache
WithoutCorrected(c, ids) == [c EXCEPT !.items = Without(@, ids)]

Answers(r, p) ==
  /\ page = p /\ reqs[r] # Null /\ reqs[r].done # Null
  /\ reqs' = [reqs EXCEPT ![r] = Null]
  /\ UNCHANGED <<page, server>>

AnswerReview(r) ==
  /\ Answers(r, "review")
  /\ LET done == reqs[r].done
         next == NextReview(cache.items, reqs[r].id)
     IN /\ Show(WithoutCorrected(cache, done.ids), FALSE, [ui EXCEPT !.url = next, !.active = next])
        /\ due' = done.v
        /\ gone' = gone \cup done.ids
  /\ Invalidate

\* The list is read again.
Reread(r, active) ==
  /\ Show(cache, error, [ui EXCEPT !.active = active])
  /\ due' = IF cache = Null THEN due ELSE reqs[r].done.v
  /\ Invalidate
  /\ UNCHANGED gone

AnswerTransaction(r) == Answers(r, "transactions") /\ Reread(r, ui.active)

\* A rule just made is selected.
AnswerRule(r) ==
  /\ Answers(r, "rules")
  /\ Reread(r, IF reqs[r].id = New THEN Max(reqs[r].done.ids) ELSE ui.active)

AnswerSeries(r) == Answers(r, "recurring") /\ Reread(r, ui.active)

AnswerExport(r) == Answers(r, "export") /\ Reread(r, Max(reqs[r].done.ids))

AnswerSync(r) == Answers(r, "status") /\ Reread(r, ui.active)

\* The answer is the data, and a fetch under way goes on.
AnswerSettings(r) ==
  /\ Answers(r, "settings")
  /\ LET done == reqs[r].done
         saved == [rev |-> done.v, confirmed |-> FALSE]
     IN /\ cache' = [v |-> done.v, last |-> 1, items |-> [id \in {1} |-> saved]]
        /\ ui' = [ui EXCEPT !.active = 1, !.draft = Seed(1)]
        /\ error' = FALSE
        /\ due' = IF fetch.open THEN due ELSE done.v
  /\ UNCHANGED <<fetch, gone>>

\* The request fails, or its answer is lost.
Lose(r) ==
  /\ reqs[r] # Null
  /\ reqs' = [reqs EXCEPT ![r] = Null]
  /\ UNCHANGED <<page, server, cache, fetch, error, ui, due, gone>>

------------------------------------------------------------------------------
Select ==
  \E id \in Id :
    SelectReview(id) \/ SelectTransaction(id) \/ SelectSeries(id) \/ SelectRule(id)
      \/ SelectExport(id)

Type == TypeReview \/ TypeTransaction \/ TypeRule \/ TypeSeries \/ TypeSettings

User ==
  \/ Select \/ StartNew \/ Type \/ ChangeFilter \/ SubmitFilter
  \/ Correct \/ SaveTransaction \/ CreateDraftRule \/ SaveRule \/ ChangeRule
  \/ SaveSeries \/ ConfirmSeries \/ DisableSeries
  \/ SaveSettings \/ CreateExport \/ SyncNow

Server(r) ==
  \/ ServeReview(r) \/ ServeTransaction(r) \/ ServeDraftRule(r)
  \/ ServeNewRule(r) \/ ServeRule(r) \/ ServeApply(r)
  \/ ServeSeries(r) \/ ServeDisable(r)
  \/ ServeSettings(r) \/ ServeExport(r) \/ ServeSync(r)

Answer(r) ==
  \/ AnswerReview(r) \/ AnswerTransaction(r) \/ AnswerRule(r) \/ AnswerSeries(r)
  \/ AnswerSettings(r) \/ AnswerExport(r) \/ AnswerSync(r)

Next ==
  \/ User
  \/ Refetch \/ Read \/ Receive \/ FetchFails
  \/ Elsewhere
  \/ \E r \in Requests : Server(r) \/ Answer(r) \/ Lose(r)

Spec == Init /\ [][Next]_vars

------------------------------------------------------------------------------
(* Properties *)

Lists == [v: 0 .. MaxVersion, last: 0 .. MaxId, items: Items]

\* The parts of a page have their types, and what is selected is in the list the
\* page shows: the inspector never shows an item that is not there; only a
\* created export may be selected before it is listed.
TypeOK ==
  /\ page \in Pages
  /\ server \in Lists /\ cache \in Lists \cup {Null}
  /\ fetch \in [open: BOOLEAN, read: Lists \cup {Null}]
  /\ error \in BOOLEAN
  /\ ui.url \in Id \cup {Null} /\ ui.active \in Id \cup {New, Null}
  /\ ui.draft \in {Null} \cup [of: Id \cup {New}, typed: BOOLEAN]
  /\ ui.filter \in 0 .. MaxFilter
  /\ cache # Null /\ page # "export" => ui.active \in DOMAIN cache.items \cup {New, Null}
  /\ \A r \in Requests : reqs[r] # Null => reqs[r].kind \in
       {"correct", "save", "draft", "toggle", "apply", "confirm", "disable", "create", "sync"}
  /\ due \in 0 .. MaxVersion /\ gone \subseteq Id

\* A request that changes an item carries what the user saw and typed for that
\* item, whatever fetch, answer or selection came in between; only the settings
\* form may be sent before its settings are there (ActiveReviewPanel,
\* TransactionInspector, RecurringInspector, RulesWorkspace, SettingsPanel).
SentForItsItem ==
  \A r \in Requests :
    reqs[r] # Null /\ reqs[r].kind \in {"correct", "save"} /\ reqs[r].id # New =>
      reqs[r].of = reqs[r].id \/ (page = "settings" /\ reqs[r].of = New)

\* Once a request is answered and the fetches that follow are done, the page
\* shows the server as the request left it or later, whatever fetch was under way
\* when the answer came, if the page had its list (invalidateFinanceWorkspaces).
\* Only a filter that the user comes back to may show what a fetch read that was
\* begun before he left: an answer cancels fetches of the query shown alone.
ShowsOwnChanges == cache # Null /\ ~fetch.open /\ ~error => cache.v >= due

\* A review that an answer reported as corrected is not offered again, not even
\* while the list is being read anew (applyReviewResultToCache).
CorrectedStayAway == page = "review" /\ cache # Null => gone \cap DOMAIN cache.items = {}

\* What is typed stays while the same item is shown: on the review page whatever
\* is fetched, answered or sent, on the others while nothing of the list changed
\* (the panel's key, the effects that seed the forms).  Only another filter of the
\* transactions and the answer to a save of the settings take what was typed.
KeepsTyping ==
  [][LET d == ui.draft
     IN /\ d # Null /\ d.typed /\ ui'.active = ui.active
        /\ Mounted(cache, error) /\ Mounted(cache', error')
        /\ page = "review" \/ cache.items = cache'.items
        /\ ~Select /\ ~StartNew /\ ~ChangeFilter
        /\ ~(\E r \in Requests : AnswerSettings(r))
        => ui'.draft = d]_vars
=============================================================================
