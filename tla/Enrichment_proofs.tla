------------------------- MODULE Enrichment_proofs --------------------------
(***************************************************************************)
(* Safety of Enrichment for every set of transactions, rules, corrections  *)
(* and processes.                                                          *)
(***************************************************************************)
EXTENDS Enrichment, TLAPS

-----------------------------------------------------------------------------
(* The inductive invariant: what a process in progress knows of the rows. *)

\* A correction in progress has a request and works on imported rows.
ReviewsKnown ==
  \A p \in Reviewer :
    /\ review[p].todo \subseteq Imported
    /\ review[p].pc # "idle" => review[p].request # Null
    /\ review[p].target # Null => review[p].target \in Imported
    /\ review[p].pc # "idle" => review[p].target # Null

\* A classify run works on imported rows.
ClassifyKnown == \A c \in Classifier : classify[c].queue \subseteq Imported

\* A backfill has read its rule, and locks only rows of its preview.
BackfillsKnown ==
  \A b \in Backfiller :
    /\ backfill[b].ids \subseteq Imported
    /\ backfill[b].pc \in {"idle", "preview"} => backfill[b].ids = {}
    /\ backfill[b].eligible \subseteq backfill[b].ids
    /\ backfill[b].want # Null => backfill[b].want \in backfill[b].eligible
    /\ backfill[b].want # Null => backfill[b].pc = "locking"
    /\ backfill[b].pc # "idle" => backfill[b].form # Null /\ backfill[b].rule # Null

IInv == TypeOK /\ ReviewsKnown /\ ClassifyKnown /\ BackfillsKnown /\ LocksHeld


-----------------------------------------------------------------------------
(* Type correctness, one lemma for each kind of action *)

\* An assignment to one element keeps the type of the function.
LEMMA ExceptType ==
  ASSUME NEW S, NEW T, NEW f \in [S -> T], NEW x, NEW y \in T
  PROVE  [f EXCEPT ![x] = y] \in [S -> T]
  OBVIOUS

LEMMA IdleTypes ==
  /\ IdleReview \in ReviewState
  /\ IdleClassify \in ClassifyState
  /\ IdleBackfill \in BackfillState
  BY DEF IdleReview, IdleClassify, IdleBackfill, ReviewState, ClassifyState,
         BackfillState

LEMMA InitType == Init => TypeOK
  BY IdleTypes DEF Init, TypeOK

LEMMA ReleaseType ==
  ASSUME TypeOK, NEW p PROVE Release(p) \in [Tx -> Locker \cup {Null}]
  BY DEF TypeOK, Release

LEMMA NormalizeType ==
  ASSUME TypeOK, NEW t \in Tx, Normalize(t) PROVE TypeOK'
<1> DEFINE x == [category |-> Unknown, merchant |-> Null, excluded |-> FALSE,
                 needsReview |-> TRUE, method |-> "uncategorized"]
<1>1. x \in Row
  BY EnrichmentAssumption DEF Row, Method
<1>2. row' \in [Tx -> Row \cup {Null}]
  BY <1>1 DEF TypeOK, Normalize
<1> QED
  BY <1>2 DEF TypeOK, Normalize

LEMMA AcceptType ==
  ASSUME TypeOK, NEW t \in Tx, Accept(t) PROVE TypeOK'
<1>1. row[t] \in Row
  BY DEF TypeOK, Accept, Imported
<1>2. [row[t] EXCEPT !.needsReview = FALSE] \in Row
  BY <1>1 DEF Row
<1>3. row' \in [Tx -> Row \cup {Null}]
  BY <1>2 DEF TypeOK, Accept
<1> QED
  BY <1>3 DEF TypeOK, Accept

LEMMA ReviewTypes ==
  ASSUME TypeOK, ReviewsKnown, LocksHeld, NEW p \in Reviewer
  PROVE  /\ \A t \in Tx, q \in Requests : BeginReview(p, t, q) => TypeOK'
         /\ ReadSimilar(p) => TypeOK'
         /\ \A t \in Tx : OverrideRow(p, t) => TypeOK'
         /\ CommitReview(p) => TypeOK'
         /\ AbortReview(p) => TypeOK'
<1>1. review[p] \in ReviewState
  BY DEF TypeOK
<1>2. ASSUME NEW t \in Tx, NEW q \in Requests, BeginReview(p, t, q)
      PROVE  TypeOK'
  <2> DEFINE x == [pc |-> IF q.applySimilar THEN "similar" ELSE "writing",
                   target |-> t, request |-> q, todo |-> {t}, alias |-> Null]
  <2>1. x \in ReviewState
    BY EnrichmentAssumption DEF ReviewState
  <2>2. review' \in [Reviewer -> ReviewState]
    BY <1>2, <2>1 DEF TypeOK, BeginReview
  <2> QED
    BY <1>2, <2>2 DEF TypeOK, BeginReview
<1>3. ASSUME ReadSimilar(p) PROVE TypeOK'
  <2> DEFINE x == [review[p] EXCEPT !.pc = "writing",
                     !.todo = @ \cup Similar(review[p].target)]
  <2>1. Similar(review[p].target) \subseteq Tx
    BY DEF Similar, Imported
  <2>2. x \in ReviewState
    BY <1>1, <2>1 DEF ReviewState
  <2>3. review' = [review EXCEPT ![p] = x]
    BY <1>3 DEF ReadSimilar
  <2>4. review' \in [Reviewer -> ReviewState]
    BY <2>2, <2>3, ExceptType DEF TypeOK
  <2> QED
    BY <1>3, <2>4 DEF TypeOK, ReadSimilar
<1>4. ASSUME NEW t \in Tx, OverrideRow(p, t) PROVE TypeOK'
  <2> DEFINE a == IF t = review[p].target THEN NewAlias(p) ELSE review[p].alias
             x == [review[p] EXCEPT !.todo = @ \ {t}, !.alias = a]
  <2>1. /\ review[p].request \in Request
        /\ review[p].target \in Tx
        /\ review[p].alias \in Alias \cup {Null}
    BY <1>1, <1>4 DEF OverrideRow, NextOverride, ReviewsKnown, ReviewState
  <2>2. review[p].request.merchant \in Merchant \cup {Null}
    BY <2>1 DEF Request
  <2>3. TextOf[review[p].target] \in Text
    BY <2>1, EnrichmentAssumption
  <2>4. a \in Alias \cup {Null}
    BY <2>1, <2>2, <2>3 DEF NewAlias, Alias
  <2>5. x \in ReviewState
    BY <1>1, <2>4 DEF ReviewState
  <2>6. review' = [review EXCEPT ![p] = x]
    BY <1>4 DEF OverrideRow
  <2>7. review' \in [Reviewer -> ReviewState]
    BY <2>5, <2>6, ExceptType DEF TypeOK
  <2>8. lock' \in [Tx -> Locker \cup {Null}]
    BY <1>4 DEF OverrideRow, TypeOK, Locker
  <2> QED
    BY <1>4, <2>7, <2>8 DEF TypeOK, OverrideRow
<1>5. ASSUME CommitReview(p) PROVE TypeOK'
  <2> DEFINE q == review[p].request
  <2>1. q \in Request /\ review[p].alias \in Alias \cup {Null}
    BY <1>1, <1>5 DEF CommitReview, ReviewsKnown, ReviewState
  <2>2. ASSUME NEW x \in Row PROVE ManualRow(q, x) \in Row
    BY <2>1, <2>2, EnrichmentAssumption
       DEF ManualRow, Request, Row, Method, Coalesce
  <2>3. \A o : UpsertOverride(o, q) \in ManualOverride
    BY <2>1 DEF UpsertOverride, Request, ManualOverride
  <2>4. \A t \in Tx : lock[t] = p => row[t] \in Row
    BY EnrichmentAssumption DEF LocksHeld, TypeOK, Locker
  <2>5. row' \in [Tx -> Row \cup {Null}]
    BY <1>5, <2>2, <2>4 DEF CommitReview, TypeOK
  <2>6. override' \in [Tx -> ManualOverride \cup {Null}]
    BY <1>5, <2>3 DEF CommitReview, TypeOK
  <2>7. q.category \in Category \cup {Null}
    BY <2>1 DEF Request
  <2>8. defaultCategory' \in [Merchant -> Category \cup {Null}]
    BY <1>5, <2>7 DEF CommitReview, TypeOK
  <2>9. aliases' \in Seq(Alias)
    BY <1>5, <2>1 DEF CommitReview, TypeOK
  <2>10. review' \in [Reviewer -> ReviewState]
    BY <1>5, IdleTypes DEF CommitReview, TypeOK
  <2>11. lock' \in [Tx -> Locker \cup {Null}]
    BY <1>5, ReleaseType DEF CommitReview
  <2> QED
    BY <1>5, <2>5, <2>6, <2>8, <2>9, <2>10, <2>11 DEF CommitReview, TypeOK
<1>6. ASSUME AbortReview(p) PROVE TypeOK'
  BY <1>6, IdleTypes, ReleaseType DEF AbortReview, TypeOK
<1> QED
  BY <1>2, <1>3, <1>4, <1>5, <1>6

LEMMA CandidateTypes ==
  ASSUME TypeOK, NEW t \in Tx
  PROVE  /\ RuleCandidates(t) \subseteq Candidate
         /\ AliasCandidates(t) \subseteq Candidate
         /\ HistoryCandidates(t) \subseteq Candidate
<1>1. RuleCandidates(t) \subseteq Candidate
  <2>1. ASSUME NEW r \in Rule, rules[r] # Null
        PROVE  [source |-> "rule", category |-> rules[r].category,
                merchant |-> rules[r].merchant] \in Candidate
    BY <2>1 DEF TypeOK, RuleForm, Candidate
  <2> QED
    BY <2>1 DEF RuleCandidates
<1>2. \A i \in DOMAIN aliases : aliases[i] \in Alias
  BY DEF TypeOK
<1>3. AliasCandidates(t) \subseteq Candidate
  <2>1. ASSUME NEW i \in DOMAIN aliases, defaultCategory[aliases[i].merchant] # Null
        PROVE  [source |-> "merchant_alias",
                category |-> defaultCategory[aliases[i].merchant],
                merchant |-> aliases[i].merchant] \in Candidate
    <3>1. aliases[i].merchant \in Merchant
      BY <1>2 DEF Alias
    <3>2. defaultCategory[aliases[i].merchant] \in Category
      BY <2>1, <3>1 DEF TypeOK
    <3> QED
      BY <3>1, <3>2 DEF Candidate
  <2> QED
    BY <2>1 DEF AliasCandidates
<1>4. \A u \in Imported : row[u] \in Row
  BY DEF TypeOK, Imported
<1>5. HistoryCandidates(t) \subseteq Candidate
  BY <1>4 DEF HistoryCandidates, Row, Candidate
<1> QED
  BY <1>1, <1>3, <1>5

LEMMA ClassifyTypes ==
  ASSUME TypeOK, ClassifyKnown, NEW c \in Classifier
  PROVE  /\ StartClassify(c) => TypeOK'
         /\ FindRule(c) => TypeOK'
         /\ FindMerchantAlias(c) => TypeOK'
         /\ FindHistory(c) => TypeOK'
         /\ WriteClassification(c) => TypeOK'
         /\ FailClassify(c) => TypeOK'
<1>1. classify[c] \in ClassifyState
  BY DEF TypeOK
<1> DEFINE Set(pc, found) ==
      [classify EXCEPT ![c] = [classify[c] EXCEPT !.pc = pc, !.found = found]]
<1>2. ASSUME NEW pc \in {"alias", "history", "write"},
             NEW found \in SUBSET Candidate
      PROVE  Set(pc, found) \in [Classifier -> ClassifyState]
  <2>1. [classify[c] EXCEPT !.pc = pc, !.found = found] \in ClassifyState
    BY <1>1 DEF ClassifyState
  <2> QED
    BY <2>1, ExceptType DEF TypeOK
<1>3. classify[c].found \in SUBSET Candidate
  BY <1>1 DEF ClassifyState
<1>4. ASSUME StartClassify(c) PROVE TypeOK'
  <2>1. [pc |-> "rule", queue |-> Pending, found |-> {}] \in ClassifyState
    BY DEF ClassifyState, Pending, Imported
  <2> QED
    BY <1>4, <2>1 DEF StartClassify, TypeOK
<1>5. ASSUME FindRule(c) PROVE TypeOK'
  <2>1. PICK t \in Tx : classify' = Set("alias", RuleCandidates(t))
    BY <1>5 DEF FindRule
  <2>2. classify' \in [Classifier -> ClassifyState]
    BY <1>2, <2>1, CandidateTypes
  <2> QED
    BY <1>5, <2>2 DEF FindRule, TypeOK
<1>6. ASSUME FindMerchantAlias(c) PROVE TypeOK'
  <2>1. PICK t \in Tx :
          classify' = Set("history", classify[c].found \cup AliasCandidates(t))
    BY <1>6 DEF FindMerchantAlias
  <2>2. classify' \in [Classifier -> ClassifyState]
    BY <1>2, <1>3, <2>1, CandidateTypes
  <2> QED
    BY <1>6, <2>2 DEF FindMerchantAlias, TypeOK
<1>7. ASSUME FindHistory(c) PROVE TypeOK'
  <2>1. PICK t \in Tx :
          \/ classify' = [classify EXCEPT ![c] = [classify[c] EXCEPT !.pc = "write"]]
          \/ \E h \in HistoryCandidates(t) :
               classify' = Set("write", classify[c].found \cup {h})
    BY <1>7 DEF FindHistory
  <2>2. [classify[c] EXCEPT !.pc = "write"] \in ClassifyState
    BY <1>1 DEF ClassifyState
  <2>3. \A h \in HistoryCandidates(t) :
          classify[c].found \cup {h} \in SUBSET Candidate
    BY <1>3, CandidateTypes
  <2>4. classify' \in [Classifier -> ClassifyState]
    <3>1. CASE classify' = [classify EXCEPT ![c] =
                              [classify[c] EXCEPT !.pc = "write"]]
      BY <2>2, <3>1, ExceptType DEF TypeOK
    <3>2. ASSUME NEW h \in HistoryCandidates(t),
                 classify' = Set("write", classify[c].found \cup {h})
          PROVE  classify' \in [Classifier -> ClassifyState]
      BY <1>2, <2>3, <3>2
    <3> QED
      BY <2>1, <3>1, <3>2
  <2> QED
    BY <1>7, <2>4 DEF FindHistory, TypeOK
<1>8. ASSUME WriteClassification(c) PROVE TypeOK'
  <2>1. PICK t \in Tx :
          /\ Last(t, classify[c].queue)
          /\ Advance(c, t)
          /\ \/ row' = row
             \/ \E k \in classify[c].found :
                  row' = [row EXCEPT ![t].category = k.category,
                                     ![t].merchant = k.merchant,
                                     ![t].needsReview = FALSE,
                                     ![t].method = k.source]
    BY <1>8 DEF WriteClassification
  <2>2. row[t] \in Row
    BY <2>1 DEF ClassifyKnown, TypeOK, Last, Imported
  <2>3. ASSUME NEW k \in Candidate
        PROVE  [row[t] EXCEPT !.category = k.category, !.merchant = k.merchant,
                              !.needsReview = FALSE, !.method = k.source] \in Row
    BY <2>2 DEF Row, Candidate, Method
  <2>4. row' \in [Tx -> Row \cup {Null}]
    <3>1. CASE row' = row
      BY <3>1 DEF TypeOK
    <3>2. ASSUME NEW k \in classify[c].found,
                 row' = [row EXCEPT ![t].category = k.category,
                                    ![t].merchant = k.merchant,
                                    ![t].needsReview = FALSE,
                                    ![t].method = k.source]
          PROVE  row' \in [Tx -> Row \cup {Null}]
      <4> DEFINE x == [row[t] EXCEPT !.category = k.category,
                         !.merchant = k.merchant, !.needsReview = FALSE,
                         !.method = k.source]
      <4>1. row' = [row EXCEPT ![t] = x]
        BY <3>2, <2>2 DEF TypeOK
      <4>2. x \in Row \cup {Null}
        BY <1>3, <2>3
      <4> QED
        BY <4>1, <4>2, ExceptType DEF TypeOK
    <3> QED
      BY <2>1, <3>1, <3>2
  <2>5. [pc |-> "rule", queue |-> classify[c].queue \ {t}, found |-> {}]
           \in ClassifyState
    BY <1>1 DEF ClassifyState
  <2>6. classify' \in [Classifier -> ClassifyState]
    BY <2>1, <2>5, IdleTypes DEF Advance, TypeOK
  <2> QED
    BY <1>8, <2>4, <2>6 DEF WriteClassification, TypeOK
<1>9. ASSUME FailClassify(c) PROVE TypeOK'
  BY <1>9, IdleTypes DEF FailClassify, TypeOK
<1> QED
  BY <1>4, <1>5, <1>6, <1>7, <1>8, <1>9

LEMMA RuleTypes ==
  ASSUME TypeOK
  PROVE  /\ \A e \in Editor, r \in Rule, f \in RuleForms :
              SaveRuleMerchant(e, r, f) => TypeOK'
         /\ \A e \in Editor : SaveRule(e) => TypeOK'
         /\ \A r \in Rule : SetRuleActive(r) => TypeOK'
         /\ \A r \in Rule : ApplyRule(r) => TypeOK'
<1>1. RuleForms \subseteq RuleForm
  BY EnrichmentAssumption
<1>2. ASSUME NEW e \in Editor, NEW r \in Rule, NEW f \in RuleForms,
             SaveRuleMerchant(e, r, f)
      PROVE  TypeOK'
  <2>1. f \in RuleForm /\ f.category \in Category
    BY <1>1 DEF RuleForm
  <2>2. defaultCategory' \in [Merchant -> Category \cup {Null}]
    BY <1>2, <2>1 DEF SaveRuleMerchant, TypeOK
  <2>3. edit' \in [Editor -> (Rule \X RuleForm) \cup {Null}]
    BY <1>2, <2>1 DEF SaveRuleMerchant, TypeOK
  <2> QED
    BY <1>2, <2>2, <2>3 DEF SaveRuleMerchant, TypeOK
<1>3. ASSUME NEW e \in Editor, SaveRule(e) PROVE TypeOK'
  <2>1. edit[e] \in Rule \X RuleForm
    BY <1>3 DEF SaveRule, TypeOK
  <2>2. rules' \in [Rule -> RuleForm \cup {Null}]
    BY <1>3, <2>1 DEF SaveRule, TypeOK
  <2> QED
    BY <1>3, <2>2 DEF SaveRule, TypeOK
<1>4. ASSUME NEW r \in Rule, SetRuleActive(r) PROVE TypeOK'
  <2>1. [rules[r] EXCEPT !.active = ~rules[r].active] \in RuleForm
    <3>1. rules[r] \in RuleForm
      BY <1>4 DEF SetRuleActive, TypeOK
    <3> QED
      BY <3>1 DEF RuleForm
  <2>2. rules' \in [Rule -> RuleForm \cup {Null}]
    BY <1>4, <2>1 DEF SetRuleActive, TypeOK
  <2> QED
    BY <1>4, <2>2 DEF SetRuleActive, TypeOK
<1>5. ASSUME NEW r \in Rule, ApplyRule(r) PROVE TypeOK'
  BY <1>5 DEF ApplyRule, TypeOK
<1> QED
  BY <1>2, <1>3, <1>4, <1>5

LEMMA BackfillTypes ==
  ASSUME TypeOK, BackfillsKnown, LocksHeld, NEW b \in Backfiller
  PROVE  /\ \A r \in Rule : StartBackfill(b, r) => TypeOK'
         /\ PreviewRule(b) => TypeOK'
         /\ BeginBackfillUpdate(b) => TypeOK'
         /\ LockBackfillRow(b) => TypeOK'
         /\ CommitBackfill(b) => TypeOK'
         /\ FailBackfill(b) => TypeOK'
<1>1. backfill[b] \in BackfillState
  BY DEF TypeOK
<1>2. ASSUME NEW r \in Rule, StartBackfill(b, r) PROVE TypeOK'
  <2>1. CASE rules[r] # Null /\ rules[r].active
    <3> DEFINE x == [IdleBackfill EXCEPT !.pc = "preview", !.rule = r,
                                         !.form = rules[r]]
    <3>1. rules[r] \in RuleForm
      BY <2>1 DEF TypeOK
    <3>2. x \in BackfillState
      BY <3>1, IdleTypes DEF BackfillState
    <3>3. backfill' \in [Backfiller -> BackfillState]
      BY <1>2, <2>1, <3>2 DEF StartBackfill, TypeOK
    <3> QED
      BY <1>2, <2>1, <3>3 DEF StartBackfill, TypeOK
  <2>2. CASE ~(rules[r] # Null /\ rules[r].active)
    BY <1>2, <2>2 DEF StartBackfill, TypeOK
  <2> QED
    BY <2>1, <2>2
<1>3. ASSUME PreviewRule(b) PROVE TypeOK'
  <2> DEFINE ids == WouldChange(backfill[b].form)
             x == [backfill[b] EXCEPT !.pc = "update", !.ids = ids]
  <2>1. x \in BackfillState
    BY <1>1 DEF BackfillState, WouldChange, Imported
  <2>2. \/ backfill' = [backfill EXCEPT ![b] = IdleBackfill]
        \/ backfill' = [backfill EXCEPT ![b] = x]
    BY <1>3 DEF PreviewRule
  <2>3. backfill' \in [Backfiller -> BackfillState]
    BY <2>1, <2>2, IdleTypes DEF TypeOK
  <2>4. jobs' \subseteq Rule
    BY <1>3 DEF PreviewRule, TypeOK
  <2> QED
    BY <1>3, <2>3, <2>4 DEF PreviewRule, TypeOK
<1>4. ASSUME BeginBackfillUpdate(b) PROVE TypeOK'
  <2> DEFINE eligible == {t \in backfill[b].ids : override[t] = Null}
  <2>1. PICK w \in Tx \cup {Null} :
          backfill' = [backfill EXCEPT ![b] =
            [backfill[b] EXCEPT !.pc = "locking", !.eligible = eligible, !.want = w]]
    BY <1>4 DEF BeginBackfillUpdate
  <2>2. [backfill[b] EXCEPT !.pc = "locking", !.eligible = eligible, !.want = w]
           \in BackfillState
    BY <1>1 DEF BackfillState
  <2>3. backfill' \in [Backfiller -> BackfillState]
    BY <2>1, <2>2, ExceptType DEF TypeOK
  <2> QED
    BY <1>4, <2>3 DEF BeginBackfillUpdate, TypeOK
<1>5. ASSUME LockBackfillRow(b) PROVE TypeOK'
  <2>1. PICK w \in Tx \cup {Null} :
          backfill' = [backfill EXCEPT ![b] = [backfill[b] EXCEPT !.want = w]]
    BY <1>5 DEF LockBackfillRow
  <2>2. [backfill[b] EXCEPT !.want = w] \in BackfillState
    BY <1>1 DEF BackfillState
  <2>3. backfill' \in [Backfiller -> BackfillState]
    BY <2>1, <2>2, ExceptType DEF TypeOK
  <2>4. lock' \in [Tx -> Locker \cup {Null}]
    BY <1>5 DEF LockBackfillRow, TypeOK, Locker
  <2> QED
    BY <1>5, <2>3, <2>4 DEF LockBackfillRow, TypeOK
<1>6. ASSUME CommitBackfill(b) PROVE TypeOK'
  <2> DEFINE f == backfill[b].form
  <2>1. f \in RuleForm
    BY <1>1, <1>6 DEF CommitBackfill, BackfillsKnown, BackfillState
  <2>2. ASSUME NEW x \in Row PROVE BackfilledRow(f, x) \in Row
    BY <2>1, <2>2 DEF BackfilledRow, RuleForm, Row, Method, Coalesce
  <2>3. \A t \in Tx : lock[t] = b => row[t] \in Row
    BY EnrichmentAssumption DEF LocksHeld, TypeOK, Locker
  <2>4. row' \in [Tx -> Row \cup {Null}]
    BY <1>6, <2>2, <2>3 DEF CommitBackfill, TypeOK
  <2>5. lock' \in [Tx -> Locker \cup {Null}]
    BY <1>6, ReleaseType DEF CommitBackfill
  <2>6. backfill' \in [Backfiller -> BackfillState]
    BY <1>6, IdleTypes DEF CommitBackfill, TypeOK
  <2> QED
    BY <1>6, <2>4, <2>5, <2>6 DEF CommitBackfill, TypeOK
<1>7. ASSUME FailBackfill(b) PROVE TypeOK'
  <2>1. lock' \in [Tx -> Locker \cup {Null}]
    BY <1>7, ReleaseType DEF FailBackfill
  <2>2. backfill' \in [Backfiller -> BackfillState]
    BY <1>7, IdleTypes DEF FailBackfill, TypeOK
  <2>3. jobs' \subseteq Rule
    BY <1>7 DEF FailBackfill, TypeOK
  <2> QED
    BY <1>7, <2>1, <2>2, <2>3 DEF FailBackfill, TypeOK
<1> QED
  BY <1>2, <1>3, <1>4, <1>5, <1>6, <1>7

LEMMA TypeStep ==
  ASSUME IInv, [Next]_vars PROVE TypeOK'
<1> USE DEF IInv
<1>1. CASE UNCHANGED vars
  BY <1>1 DEF vars, TypeOK
<1>2. CASE Next
  BY <1>2, NormalizeType, AcceptType, ReviewTypes, ClassifyTypes, RuleTypes,
     BackfillTypes
     DEF Next, ReviewStep, ClassifyStep, BackfillStep, BreakReviewDeadlock,
         BreakBackfillDeadlock
<1> QED
  BY <1>1, <1>2

-----------------------------------------------------------------------------
(* No operation removes a row. *)

LEMMA RowsStay ==
  ASSUME IInv, [Next]_vars PROVE Imported \subseteq Imported'
<1> USE DEF IInv
<1>0. Null \notin Row
  BY EnrichmentAssumption
<1> SUFFICES ASSUME NEW u \in Tx, row[u] \in Row PROVE row'[u] \in Row
  BY <1>0 DEF Imported, TypeOK
<1>1. ASSUME NEW t \in Tx, Normalize(t) PROVE row'[u] \in Row
  BY <1>1, EnrichmentAssumption DEF Normalize, TypeOK
<1>2. ASSUME NEW t \in Tx, Accept(t) PROVE row'[u] \in Row
  <2>1. [row[u] EXCEPT !.needsReview = FALSE] \in Row
    BY DEF Row
  <2> QED
    BY <1>2, <2>1 DEF Accept, TypeOK
<1>3. ASSUME NEW p \in Reviewer, CommitReview(p) PROVE row'[u] \in Row
  <2>1. review[p].request \in Request
    BY <1>3 DEF CommitReview, ReviewsKnown, TypeOK, ReviewState
  <2>2. ManualRow(review[p].request, row[u]) \in Row
    BY <2>1, EnrichmentAssumption
       DEF ManualRow, Request, Row, Method, Coalesce
  <2> QED
    BY <1>3, <2>2 DEF CommitReview
<1>4. ASSUME NEW c \in Classifier, WriteClassification(c) PROVE row'[u] \in Row
  <2>1. \A k \in classify[c].found : k \in Candidate
    BY DEF TypeOK, ClassifyState
  <2>2. ASSUME NEW k \in Candidate
        PROVE  [row[u] EXCEPT !.category = k.category, !.merchant = k.merchant,
                              !.needsReview = FALSE, !.method = k.source] \in Row
    BY <2>2 DEF Row, Candidate, Method
  <2>3. PICK t \in Tx :
          \/ row' = row
          \/ \E k \in classify[c].found :
               row' = [row EXCEPT ![t].category = k.category,
                                  ![t].merchant = k.merchant,
                                  ![t].needsReview = FALSE,
                                  ![t].method = k.source]
    BY <1>4 DEF WriteClassification
  <2>4. CASE row' = row
    BY <2>4
  <2>5. ASSUME NEW k \in classify[c].found,
               row' = [row EXCEPT ![t].category = k.category,
                                  ![t].merchant = k.merchant,
                                  ![t].needsReview = FALSE,
                                  ![t].method = k.source]
        PROVE  row'[u] \in Row
    <3>1. row'[u] = IF u = t
            THEN [row[u] EXCEPT !.category = k.category, !.merchant = k.merchant,
                                !.needsReview = FALSE, !.method = k.source]
            ELSE row[u]
      BY <2>5 DEF TypeOK
    <3> QED
      BY <2>1, <2>2, <3>1
  <2> QED
    BY <2>3, <2>4, <2>5
<1>5. ASSUME NEW b \in Backfiller, CommitBackfill(b) PROVE row'[u] \in Row
  <2>1. backfill[b].form \in RuleForm
    BY <1>5 DEF CommitBackfill, BackfillsKnown, TypeOK, BackfillState
  <2>2. BackfilledRow(backfill[b].form, row[u]) \in Row
    BY <2>1 DEF BackfilledRow, RuleForm, Row, Method, Coalesce
  <2> QED
    BY <1>5, <2>2 DEF CommitBackfill
<1>6. CASE UNCHANGED row
  BY <1>6
<1> QED
  BY <1>1, <1>2, <1>3, <1>4, <1>5, <1>6
     DEF Next, vars, ReviewStep, ClassifyStep, BackfillStep,
         BreakReviewDeadlock, BreakBackfillDeadlock, BeginReview, ReadSimilar,
         OverrideRow, AbortReview, StartClassify, FindRule, FindMerchantAlias,
         FindHistory, FailClassify, SaveRuleMerchant, SaveRule, SetRuleActive,
         ApplyRule, StartBackfill, PreviewRule, BeginBackfillUpdate,
         LockBackfillRow, FailBackfill

-----------------------------------------------------------------------------
(* The knowledge of a process changes only by its own steps. *)

LEMMA ReviewsKnownStep ==
  ASSUME IInv, [Next]_vars PROVE ReviewsKnown'
<1> USE DEF IInv
<1>1. Imported \subseteq Imported'
  BY RowsStay
<1>2. ASSUME NEW p \in Reviewer, NEW t \in Tx, NEW q \in Requests,
             BeginReview(p, t, q)
      PROVE  ReviewsKnown'
  <2>1. q # Null /\ t # Null
    BY EnrichmentAssumption
  <2> QED
    BY <1>1, <1>2, <2>1 DEF BeginReview, ReviewsKnown, TypeOK
<1>3. ASSUME NEW p \in Reviewer, ReadSimilar(p) PROVE ReviewsKnown'
  <2>1. review'[p] = [review[p] EXCEPT !.pc = "writing",
                        !.todo = @ \cup Similar(review[p].target)]
    BY <1>3 DEF ReadSimilar, TypeOK
  <2>2. \A x \in Reviewer \ {p} : review'[x] = review[x]
    BY <1>3 DEF ReadSimilar, TypeOK
  <2>3. Similar(review[p].target) \subseteq Imported
    BY DEF Similar
  <2>4. /\ review'[p].todo = review[p].todo \cup Similar(review[p].target)
        /\ review'[p].request = review[p].request
        /\ review'[p].target = review[p].target
        /\ review[p].pc # "idle"
    BY <1>3, <2>1 DEF ReadSimilar, TypeOK, ReviewState
  <2> QED
    BY <1>1, <2>2, <2>3, <2>4 DEF ReviewsKnown
<1>4. ASSUME NEW p \in Reviewer, NEW t \in Tx, OverrideRow(p, t)
      PROVE  ReviewsKnown'
  <2>1. PICK a : review'[p] = [review[p] EXCEPT !.todo = @ \ {t}, !.alias = a]
    BY <1>4 DEF OverrideRow, TypeOK
  <2>2. \A x \in Reviewer \ {p} : review'[x] = review[x]
    BY <1>4 DEF OverrideRow, TypeOK
  <2>3. /\ review'[p].todo = review[p].todo \ {t}
        /\ review'[p].request = review[p].request
        /\ review'[p].target = review[p].target
        /\ review'[p].pc = review[p].pc
    BY <2>1 DEF TypeOK, ReviewState
  <2> QED
    BY <1>1, <2>2, <2>3 DEF ReviewsKnown
<1>5. ASSUME NEW p \in Reviewer, CommitReview(p) \/ AbortReview(p)
      PROVE  ReviewsKnown'
  <2>1. review' = [review EXCEPT ![p] = IdleReview]
    BY <1>5 DEF CommitReview, AbortReview
  <2> QED
    BY <1>1, <2>1 DEF ReviewsKnown, TypeOK, IdleReview
<1>6. CASE UNCHANGED review
  BY <1>1, <1>6 DEF ReviewsKnown
<1> QED
  BY <1>2, <1>3, <1>4, <1>5, <1>6
     DEF Next, vars, ReviewStep, ClassifyStep, BackfillStep,
         BreakReviewDeadlock, BreakBackfillDeadlock, Normalize, Accept,
         StartClassify, FindRule, FindMerchantAlias, FindHistory,
         WriteClassification, FailClassify, SaveRuleMerchant, SaveRule,
         SetRuleActive, ApplyRule, StartBackfill, PreviewRule,
         BeginBackfillUpdate, LockBackfillRow, CommitBackfill, FailBackfill

\* A classify run takes up only rows without an override that await review, and
\* from then on its list only shrinks.
LEMMA ClassifyQueue ==
  ASSUME IInv, [Next]_vars, NEW c \in Classifier
  PROVE  \/ classify'[c].queue \subseteq classify[c].queue
         \/ classify'[c].queue = Pending
<1> USE DEF IInv
<1>1. ASSUME NEW d \in Classifier, StartClassify(d)
      PROVE  \/ classify'[c].queue = classify[c].queue
             \/ classify'[c].queue = Pending
  BY <1>1 DEF StartClassify, TypeOK
<1>2. ASSUME NEW d \in Classifier,
             FindRule(d) \/ FindMerchantAlias(d) \/ FindHistory(d)
      PROVE  classify'[c].queue = classify[c].queue
  <2>1. CASE c # d
    BY <1>2, <2>1 DEF FindRule, FindMerchantAlias, FindHistory, TypeOK
  <2>2. CASE c = d
    BY <1>2, <2>2 DEF FindRule, FindMerchantAlias, FindHistory, TypeOK,
                      ClassifyState
  <2> QED
    BY <2>1, <2>2
<1>3. ASSUME NEW d \in Classifier, WriteClassification(d)
      PROVE  classify'[c].queue \subseteq classify[c].queue
  <2>1. PICK t \in Tx : Advance(d, t)
    BY <1>3 DEF WriteClassification
  <2>2. CASE c # d
    BY <2>1, <2>2 DEF Advance, TypeOK
  <2>3. CASE c = d
    <3>1. \/ classify'[c] = IdleClassify
          \/ classify'[c] = [pc |-> "rule", queue |-> classify[c].queue \ {t},
                             found |-> {}]
      BY <2>1, <2>3 DEF Advance, TypeOK
    <3> QED
      BY <3>1 DEF IdleClassify
  <2> QED
    BY <2>2, <2>3
<1>4. ASSUME NEW d \in Classifier, FailClassify(d)
      PROVE  classify'[c].queue \subseteq classify[c].queue
  BY <1>4 DEF FailClassify, IdleClassify, TypeOK
<1>5. CASE UNCHANGED classify
  BY <1>5
<1> QED
  BY <1>1, <1>2, <1>3, <1>4, <1>5
     DEF Next, vars, ReviewStep, ClassifyStep, BackfillStep,
         BreakReviewDeadlock, BreakBackfillDeadlock, Normalize, Accept,
         BeginReview, ReadSimilar, OverrideRow, CommitReview, AbortReview,
         SaveRuleMerchant, SaveRule, SetRuleActive, ApplyRule, StartBackfill,
         PreviewRule, BeginBackfillUpdate, LockBackfillRow, CommitBackfill,
         FailBackfill

LEMMA ClassifyKnownStep ==
  ASSUME IInv, [Next]_vars PROVE ClassifyKnown'
  BY RowsStay, ClassifyQueue DEF IInv, ClassifyKnown, Pending

\* What one step may do to the state of a backfill, field by field.
BackfillStarts(b) ==
  /\ backfill[b].pc = "idle"
  /\ backfill'[b].pc = "preview"
  /\ backfill'[b].ids = {}
  /\ backfill'[b].eligible = {}
  /\ backfill'[b].want = Null
  /\ backfill'[b].form # Null
  /\ backfill'[b].rule # Null

BackfillKeepsRule(b) ==
  /\ backfill[b].pc # "idle"
  /\ backfill'[b].form = backfill[b].form
  /\ backfill'[b].rule = backfill[b].rule

BackfillPreviews(b) ==
  /\ BackfillKeepsRule(b)
  /\ backfill[b].pc = "preview"
  /\ backfill'[b].pc = "update"
  /\ backfill'[b].ids = WouldChange(backfill[b].form)
  /\ backfill'[b].eligible = backfill[b].eligible
  /\ backfill'[b].want = backfill[b].want

BackfillBegins(b) ==
  /\ BackfillKeepsRule(b)
  /\ backfill[b].pc = "update"
  /\ backfill'[b].pc = "locking"
  /\ backfill'[b].ids = backfill[b].ids
  /\ backfill'[b].eligible = {t \in backfill[b].ids : override[t] = Null}
  /\ ComesNext(backfill'[b].want, backfill'[b].eligible)

BackfillLocks(b) ==
  /\ BackfillKeepsRule(b)
  /\ backfill[b].want # Null
  /\ backfill'[b].pc = backfill[b].pc
  /\ backfill'[b].ids = backfill[b].ids
  /\ backfill'[b].eligible = backfill[b].eligible
  /\ backfill'[b].want # Null => backfill'[b].want \in backfill[b].eligible

BackfillMove(b) ==
  \/ backfill'[b] = backfill[b]
  \/ backfill'[b] = IdleBackfill
  \/ BackfillStarts(b)
  \/ BackfillPreviews(b)
  \/ BackfillBegins(b)
  \/ BackfillLocks(b)

LEMMA BackfillMoves ==
  ASSUME IInv, [Next]_vars, NEW b \in Backfiller
  PROVE  BackfillMove(b)
<1> USE DEF IInv
<1>t. backfill[b] \in BackfillState
  BY DEF TypeOK
<1>o. ASSUME NEW d \in Backfiller, d # b, NEW x,
             backfill' = [backfill EXCEPT ![d] = x]
      PROVE  backfill'[b] = backfill[b]
  BY <1>o DEF TypeOK
<1>s. ASSUME NEW x, backfill' = [backfill EXCEPT ![b] = x]
      PROVE  backfill'[b] = x
  BY <1>s DEF TypeOK
<1>1. ASSUME NEW d \in Backfiller, NEW r \in Rule, StartBackfill(d, r)
      PROVE  BackfillMove(b)
  <2> DEFINE x == [IdleBackfill EXCEPT !.pc = "preview", !.rule = r,
                                       !.form = rules[r]]
  <2>1. CASE backfill' = backfill
    BY <2>1 DEF BackfillMove
  <2>2. CASE /\ rules[r] # Null /\ backfill[d].pc = "idle"
             /\ backfill' = [backfill EXCEPT ![d] = x]
    <3>1. CASE d # b
      BY <2>2, <3>1, <1>o DEF BackfillMove
    <3>2. CASE d = b
      <4>1. backfill'[b] = x
        BY <2>2, <3>2, <1>s
      <4>2. r # Null
        BY EnrichmentAssumption
      <4>3. backfill'[b].rule = r /\ backfill'[b].form = rules[r]
        BY <4>1 DEF IdleBackfill
      <4>4. /\ backfill'[b].pc = "preview" /\ backfill'[b].ids = {}
            /\ backfill'[b].eligible = {} /\ backfill'[b].want = Null
        BY <4>1 DEF IdleBackfill
      <4> QED
        BY <2>2, <3>2, <4>2, <4>3, <4>4 DEF BackfillMove, BackfillStarts
    <3> QED
      BY <3>1, <3>2
  <2> QED
    BY <1>1, <2>1, <2>2 DEF StartBackfill
<1>2. ASSUME NEW d \in Backfiller, PreviewRule(d) PROVE BackfillMove(b)
  <2> DEFINE x == [backfill[d] EXCEPT !.pc = "update",
                                      !.ids = WouldChange(backfill[d].form)]
  <2>1. \/ backfill' = [backfill EXCEPT ![d] = IdleBackfill]
        \/ backfill' = [backfill EXCEPT ![d] = x]
    BY <1>2 DEF PreviewRule
  <2>2. CASE d # b
    BY <2>1, <2>2, <1>o DEF BackfillMove
  <2>3. CASE d = b /\ backfill' = [backfill EXCEPT ![d] = IdleBackfill]
    BY <2>3, <1>s DEF BackfillMove
  <2>4. CASE d = b /\ backfill' = [backfill EXCEPT ![d] = x]
    <3>1. backfill'[b] = x
      BY <2>4, <1>s
    <3> QED
      BY <1>2, <1>t, <2>4, <3>1
         DEF PreviewRule, BackfillMove, BackfillPreviews, BackfillKeepsRule,
             BackfillState
  <2> QED
    BY <2>1, <2>2, <2>3, <2>4
<1>3. ASSUME NEW d \in Backfiller, BeginBackfillUpdate(d) PROVE BackfillMove(b)
  <2> DEFINE S == {t \in backfill[d].ids : override[t] = Null}
             x(w) == [backfill[d] EXCEPT !.pc = "locking", !.eligible = S,
                                         !.want = w]
  <2>1. PICK w \in Tx \cup {Null} :
          /\ ComesNext(w, S)
          /\ backfill' = [backfill EXCEPT ![d] = x(w)]
    BY <1>3 DEF BeginBackfillUpdate
  <2>2. CASE d # b
    BY <2>1, <2>2, <1>o DEF BackfillMove
  <2>3. CASE d = b
    <3>1. backfill'[b] = x(w)
      BY <2>1, <2>3, <1>s
    <3>2. /\ backfill'[b].eligible = S /\ backfill'[b].want = w
          /\ backfill'[b].pc = "locking"
          /\ backfill'[b].ids = backfill[b].ids
          /\ backfill'[b].form = backfill[b].form
          /\ backfill'[b].rule = backfill[b].rule
      BY <1>t, <2>3, <3>1 DEF BackfillState
    <3>3. backfill[b].pc = "update"
      BY <1>3, <2>3 DEF BeginBackfillUpdate
    <3> HIDE DEF x
    <3> QED
      BY <2>1, <2>3, <3>2, <3>3
         DEF BackfillMove, BackfillBegins, BackfillKeepsRule
  <2> QED
    BY <2>2, <2>3
<1>4. ASSUME NEW d \in Backfiller, LockBackfillRow(d) PROVE BackfillMove(b)
  <2> DEFINE x(w) == [backfill[d] EXCEPT !.want = w]
  <2>1. PICK w \in Tx \cup {Null} :
          /\ w # Null => w \in backfill[d].eligible
          /\ backfill' = [backfill EXCEPT ![d] = x(w)]
    BY <1>4 DEF LockBackfillRow, ComesNext
  <2>2. CASE d # b
    BY <2>1, <2>2, <1>o DEF BackfillMove
  <2>3. CASE d = b
    <3>1. backfill'[b] = x(w)
      BY <2>1, <2>3, <1>s
    <3>2. /\ backfill'[b].want = w
          /\ backfill'[b].pc = backfill[b].pc
          /\ backfill'[b].ids = backfill[b].ids
          /\ backfill'[b].eligible = backfill[b].eligible
          /\ backfill'[b].form = backfill[b].form
          /\ backfill'[b].rule = backfill[b].rule
      BY <1>t, <2>3, <3>1 DEF BackfillState
    <3>3. backfill[b].want # Null
      BY <1>4, <2>3 DEF LockBackfillRow
    <3>4. backfill[b].pc # "idle"
      BY <3>3 DEF BackfillsKnown
    <3> HIDE DEF x
    <3> QED
      BY <2>1, <2>3, <3>2, <3>3, <3>4
         DEF BackfillMove, BackfillLocks, BackfillKeepsRule
  <2> QED
    BY <2>2, <2>3
<1>5. ASSUME NEW d \in Backfiller, CommitBackfill(d) \/ FailBackfill(d)
      PROVE  BackfillMove(b)
  <2>1. backfill' = [backfill EXCEPT ![d] = IdleBackfill]
    BY <1>5 DEF CommitBackfill, FailBackfill
  <2> QED
    BY <2>1, <1>o, <1>s DEF BackfillMove
<1>6. CASE UNCHANGED backfill
  BY <1>6 DEF BackfillMove
<1> QED
  BY <1>1, <1>2, <1>3, <1>4, <1>5, <1>6
     DEF Next, vars, ReviewStep, ClassifyStep, BackfillStep,
         BreakReviewDeadlock, BreakBackfillDeadlock, Normalize, Accept,
         BeginReview, ReadSimilar, OverrideRow, CommitReview, AbortReview,
         StartClassify, FindRule, FindMerchantAlias, FindHistory,
         WriteClassification, FailClassify, SaveRuleMerchant, SaveRule,
         SetRuleActive, ApplyRule

LEMMA BackfillsKnownStep ==
  ASSUME IInv, [Next]_vars PROVE BackfillsKnown'
<1> USE DEF IInv
<1>1. Imported \subseteq Imported'
  BY RowsStay
<1> SUFFICES ASSUME NEW b \in Backfiller
             PROVE  /\ backfill'[b].ids \subseteq Imported'
                    /\ backfill'[b].pc \in {"idle", "preview"} =>
                         backfill'[b].ids = {}
                    /\ backfill'[b].eligible \subseteq backfill'[b].ids
                    /\ backfill'[b].want # Null =>
                         backfill'[b].want \in backfill'[b].eligible
                    /\ backfill'[b].want # Null => backfill'[b].pc = "locking"
                    /\ backfill'[b].pc # "idle" =>
                         backfill'[b].form # Null /\ backfill'[b].rule # Null
  BY DEF BackfillsKnown
<1>2. CASE backfill'[b] = backfill[b]
  BY <1>1, <1>2 DEF BackfillsKnown
<1>3. CASE backfill'[b] = IdleBackfill
  BY <1>3 DEF IdleBackfill
<1>4. CASE BackfillStarts(b)
  BY <1>4 DEF BackfillStarts
<1>5. CASE BackfillPreviews(b)
  <2>1. WouldChange(backfill[b].form) \subseteq Imported
    BY DEF WouldChange
  <2>2. backfill[b].eligible = {} /\ backfill[b].want = Null
    BY <1>5 DEF BackfillPreviews, BackfillsKnown
  <2> QED
    BY <1>1, <1>5, <2>1, <2>2
       DEF BackfillPreviews, BackfillKeepsRule, BackfillsKnown
<1>6. CASE BackfillBegins(b)
  BY <1>1, <1>6 DEF BackfillBegins, BackfillKeepsRule, BackfillsKnown, ComesNext
<1>7. CASE BackfillLocks(b)
  BY <1>1, <1>7 DEF BackfillLocks, BackfillKeepsRule, BackfillsKnown
<1> QED
  BY <1>2, <1>3, <1>4, <1>5, <1>6, <1>7, BackfillMoves DEF BackfillMove

-----------------------------------------------------------------------------
(* Locks *)

\* What a step does to the state of a correction, field by field.
ReviewMove(p) ==
  \/ review'[p] = review[p]
  \/ review[p].pc = "idle"
  \/ /\ review[p].pc \in {"similar", "writing"}
     /\ review'[p].pc = "writing"
  \/ /\ review'[p] = IdleReview
     /\ lock' = Release(p)

LEMMA ReviewMoves ==
  ASSUME IInv, [Next]_vars, NEW p \in Reviewer
  PROVE  ReviewMove(p)
<1> USE DEF IInv
<1>t. review[p] \in ReviewState
  BY DEF TypeOK
<1>1. ASSUME NEW d \in Reviewer, NEW t \in Tx, NEW q \in Requests,
             BeginReview(d, t, q)
      PROVE  ReviewMove(p)
  BY <1>1 DEF BeginReview, ReviewMove, TypeOK
<1>2. ASSUME NEW d \in Reviewer, ReadSimilar(d) PROVE ReviewMove(p)
  <2>1. CASE d # p
    BY <1>2, <2>1 DEF ReadSimilar, ReviewMove, TypeOK
  <2>2. CASE d = p
    BY <1>2, <1>t, <2>2 DEF ReadSimilar, ReviewMove, TypeOK, ReviewState
  <2> QED
    BY <2>1, <2>2
<1>3. ASSUME NEW d \in Reviewer, NEW t \in Tx, OverrideRow(d, t)
      PROVE  ReviewMove(p)
  <2>1. CASE d # p
    BY <1>3, <2>1 DEF OverrideRow, ReviewMove, TypeOK
  <2>2. CASE d = p
    BY <1>3, <1>t, <2>2 DEF OverrideRow, NextOverride, ReviewMove, TypeOK,
                            ReviewState
  <2> QED
    BY <2>1, <2>2
<1>4. ASSUME NEW d \in Reviewer, CommitReview(d) \/ AbortReview(d)
      PROVE  ReviewMove(p)
  BY <1>4 DEF CommitReview, AbortReview, ReviewMove, TypeOK
<1>5. CASE UNCHANGED review
  BY <1>5 DEF ReviewMove
<1> QED
  BY <1>1, <1>2, <1>3, <1>4, <1>5
     DEF Next, vars, ReviewStep, ClassifyStep, BackfillStep,
         BreakReviewDeadlock, BreakBackfillDeadlock, Normalize, Accept,
         StartClassify, FindRule, FindMerchantAlias, FindHistory,
         WriteClassification, FailClassify, SaveRuleMerchant, SaveRule,
         SetRuleActive, ApplyRule, StartBackfill, PreviewRule,
         BeginBackfillUpdate, LockBackfillRow, CommitBackfill, FailBackfill

\* A lock changes hands only by being taken for a row at work or by the end of
\* its holder's transaction.
LockMove ==
  \/ UNCHANGED lock
  \/ \E p \in Reviewer, t \in Tx :
       /\ OverrideRow(p, t)
       /\ lock' = [lock EXCEPT ![t] = p]
  \/ \E b \in Backfiller :
       /\ LockBackfillRow(b)
       /\ lock' = [lock EXCEPT ![backfill[b].want] = b]
  \/ \E p \in Locker : lock' = Release(p)

LEMMA LockMoves ==
  ASSUME IInv, [Next]_vars PROVE LockMove
  BY DEF Next, vars, ReviewStep, ClassifyStep, BackfillStep,
         BreakReviewDeadlock, BreakBackfillDeadlock, Normalize, Accept,
         BeginReview, ReadSimilar, OverrideRow, CommitReview, AbortReview,
         StartClassify, FindRule, FindMerchantAlias, FindHistory,
         WriteClassification, FailClassify, SaveRuleMerchant, SaveRule,
         SetRuleActive, ApplyRule, StartBackfill, PreviewRule,
         BeginBackfillUpdate, LockBackfillRow, CommitBackfill, FailBackfill,
         LockMove, Locker

\* A backfill that ends gives its locks back.
LEMMA BackfillEnds ==
  ASSUME IInv, [Next]_vars, NEW b \in Backfiller,
         backfill'[b] # backfill[b], backfill'[b] = IdleBackfill
  PROVE  lock' = Release(b) \/ backfill[b].pc = "preview"
<1> USE DEF IInv
<1>o. ASSUME NEW d \in Backfiller, d # b, NEW x,
             backfill' = [backfill EXCEPT ![d] = x]
      PROVE  FALSE
  BY <1>o DEF TypeOK
<1>1. ASSUME NEW d \in Backfiller, NEW r \in Rule, StartBackfill(d, r)
      PROVE  FALSE
  <2>1. d = b /\ backfill'[b] = [IdleBackfill EXCEPT !.pc = "preview", !.rule = r,
                                                     !.form = rules[r]]
    BY <1>1, <1>o DEF StartBackfill, TypeOK
  <2>2. backfill'[b].pc = "preview"
    BY <2>1 DEF IdleBackfill
  <2>3. IdleBackfill.pc = "idle"
    BY DEF IdleBackfill
  <2> QED
    BY <2>2, <2>3
<1>2. ASSUME NEW d \in Backfiller, PreviewRule(d)
      PROVE  backfill[b].pc = "preview"
  BY <1>2, <1>o DEF PreviewRule
<1>3. ASSUME NEW d \in Backfiller, BeginBackfillUpdate(d) PROVE FALSE
  <2>1. PICK w : backfill' = [backfill EXCEPT ![d] =
                   [backfill[d] EXCEPT !.pc = "locking",
                      !.eligible = {t \in backfill[d].ids : override[t] = Null},
                      !.want = w]]
    BY <1>3 DEF BeginBackfillUpdate
  <2>2. d = b
    BY <2>1, <1>o
  <2>3. backfill'[b].pc = "locking"
    BY <2>1, <2>2 DEF TypeOK, BackfillState
  <2> QED
    BY <2>3 DEF IdleBackfill
<1>4. ASSUME NEW d \in Backfiller, LockBackfillRow(d) PROVE FALSE
  <2>1. PICK w : backfill' = [backfill EXCEPT ![d] =
                                [backfill[d] EXCEPT !.want = w]]
    BY <1>4 DEF LockBackfillRow
  <2>2. d = b
    BY <2>1, <1>o
  <2>3. backfill[b].pc = "locking"
    BY <1>4, <2>2 DEF LockBackfillRow, BackfillsKnown
  <2>4. backfill'[b].pc = "locking"
    BY <2>1, <2>2, <2>3 DEF TypeOK, BackfillState
  <2> QED
    BY <2>4 DEF IdleBackfill
<1>5. ASSUME NEW d \in Backfiller, CommitBackfill(d) \/ FailBackfill(d)
      PROVE  lock' = Release(b)
  BY <1>5, <1>o DEF CommitBackfill, FailBackfill
<1> QED
  BY <1>1, <1>2, <1>3, <1>4, <1>5
     DEF Next, vars, ReviewStep, ClassifyStep, BackfillStep,
         BreakReviewDeadlock, BreakBackfillDeadlock, Normalize, Accept,
         BeginReview, ReadSimilar, OverrideRow, CommitReview, AbortReview,
         StartClassify, FindRule, FindMerchantAlias, FindHistory,
         WriteClassification, FailClassify, SaveRuleMerchant, SaveRule,
         SetRuleActive, ApplyRule

LEMMA LocksHeldStep ==
  ASSUME IInv, [Next]_vars PROVE LocksHeld'
<1> USE DEF IInv
<1>1. Imported \subseteq Imported'
  BY RowsStay
<1> SUFFICES ASSUME NEW t \in Tx, lock'[t] # Null
             PROVE  /\ row'[t] # Null
                    /\ lock'[t] \in Reviewer => review'[lock'[t]].pc = "writing"
                    /\ lock'[t] \in Backfiller =>
                         /\ backfill'[lock'[t]].pc = "locking"
                         /\ t \in backfill'[lock'[t]].eligible
  BY DEF LocksHeld
<1>2. \/ lock[t] = lock'[t]
      \/ \E p \in Reviewer : OverrideRow(p, t) /\ lock'[t] = p
      \/ \E b \in Backfiller :
           LockBackfillRow(b) /\ backfill[b].want = t /\ lock'[t] = b
  BY LockMoves DEF LockMove, Release, TypeOK
<1>3. Reviewer \cap Backfiller = {}
  BY EnrichmentAssumption
<1>4. CASE lock[t] = lock'[t]
  <2>1. row[t] # Null
    BY <1>4 DEF LocksHeld
  <2>2. ASSUME NEW p \in Reviewer, lock[t] = p PROVE review'[p].pc = "writing"
    <3>1. review[p].pc = "writing"
      BY <1>4, <2>2 DEF LocksHeld
    <3>2. lock' # Release(p)
      BY <1>4, <2>2 DEF Release
    <3> QED
      BY <3>1, <3>2, ReviewMoves DEF ReviewMove
  <2>3. ASSUME NEW b \in Backfiller, lock[t] = b
        PROVE  backfill'[b].pc = "locking" /\ t \in backfill'[b].eligible
    <3>1. backfill[b].pc = "locking" /\ t \in backfill[b].eligible
      BY <1>4, <2>3 DEF LocksHeld
    <3>2. lock' # Release(b)
      BY <1>4, <2>3 DEF Release
    <3>3. backfill'[b] = IdleBackfill => backfill'[b] = backfill[b]
      BY <3>1, <3>2, BackfillEnds
    <3> QED
      BY <3>1, <3>3, BackfillMoves
         DEF BackfillMove, BackfillStarts, BackfillPreviews, BackfillBegins,
             BackfillLocks
  <2> QED
    BY <1>1, <1>4, <2>1, <2>2, <2>3 DEF Imported
<1>5. ASSUME NEW p \in Reviewer, OverrideRow(p, t), lock'[t] = p
      PROVE  row'[t] # Null /\ review'[p].pc = "writing"
  <2>1. t \in Imported
    BY <1>5 DEF OverrideRow, NextOverride, Last, ReviewsKnown
  <2>2. review[p].pc = "writing"
    BY <1>5 DEF OverrideRow, NextOverride
  <2>3. lock' # Release(p)
    BY <1>5, EnrichmentAssumption DEF Release, Locker
  <2> QED
    BY <1>1, <2>1, <2>2, <2>3, ReviewMoves DEF ReviewMove, Imported
<1>6. ASSUME NEW b \in Backfiller, LockBackfillRow(b), backfill[b].want = t,
             lock'[t] = b
      PROVE  /\ row'[t] # Null
             /\ backfill'[b].pc = "locking"
             /\ t \in backfill'[b].eligible
  <2>1. t \in backfill[b].eligible /\ backfill[b].pc = "locking"
    BY <1>6, EnrichmentAssumption DEF BackfillsKnown
  <2>2. t \in Imported
    BY <2>1 DEF BackfillsKnown
  <2>3. lock' # Release(b)
    BY <1>6, EnrichmentAssumption DEF Release, Locker
  <2>4. backfill'[b] = IdleBackfill => backfill'[b] = backfill[b]
    BY <2>1, <2>3, BackfillEnds
  <2>5. backfill'[b].pc = "locking" /\ t \in backfill'[b].eligible
    BY <2>1, <2>4, BackfillMoves
       DEF BackfillMove, BackfillStarts, BackfillPreviews, BackfillBegins,
           BackfillLocks
  <2> QED
    BY <1>1, <2>2, <2>5 DEF Imported
<1> QED
  BY <1>2, <1>3, <1>4, <1>5, <1>6

-----------------------------------------------------------------------------
(* The theorems *)

LEMMA InitIInv == Init => IInv
<1> SUFFICES ASSUME Init PROVE IInv
  OBVIOUS
<1>1. TypeOK
  BY InitType
<1>2. ReviewsKnown
  BY DEF Init, ReviewsKnown, IdleReview
<1>3. ClassifyKnown
  BY DEF Init, ClassifyKnown, IdleClassify
<1>4. BackfillsKnown
  BY DEF Init, BackfillsKnown, IdleBackfill
<1>5. LocksHeld
  BY DEF Init, LocksHeld
<1> QED
  BY <1>1, <1>2, <1>3, <1>4, <1>5 DEF IInv

LEMMA IInvStep == ASSUME IInv, [Next]_vars PROVE IInv'
  BY TypeStep, ReviewsKnownStep, ClassifyKnownStep, BackfillsKnownStep,
     LocksHeldStep DEF IInv

LEMMA Invariant == Spec => []IInv
  BY InitIInv, IInvStep, PTL DEF Spec

\* Every table and every process keeps its type; in particular no correction,
\* job or rollback ever leaves a transaction without a category.
THEOREM TypeCorrect == Spec => []TypeOK
  BY Invariant, PTL DEF IInv

\* No row lock outlives the transaction that took it.
THEOREM LocksAreHeld == Spec => []LocksHeld
  BY Invariant, PTL DEF IInv

-----------------------------------------------------------------------------
(* Rows and overrides *)

\* What a step does to the row and the override of one transaction.  Only a
\* classify run that has it in its list or a backfill that has locked it can
\* turn an existing row into one that is not manual.
Corrected(t) ==
  \E p \in Reviewer :
    /\ row[t] \in Row
    /\ row'[t] = ManualRow(review[p].request, row[t])
    /\ override'[t] = UpsertOverride(override[t], review[p].request)
    /\ review[p].request \in Request

Automated(t) ==
  /\ override'[t] = override[t]
  /\ row'[t] \in Row
  /\ row'[t].method # "manual_override"
  /\ \/ row[t] = Null
     \/ \E c \in Classifier : t \in classify[c].queue
     \/ \E b \in Backfiller : lock[t] = b

RowMove(t) ==
  \/ row'[t] = row[t] /\ override'[t] = override[t]
  \/ /\ row[t] \in Row
     /\ row'[t] = [row[t] EXCEPT !.needsReview = FALSE]
     /\ override'[t] = override[t]
  \/ Corrected(t)
  \/ Automated(t)

LEMMA RowMoves ==
  ASSUME IInv, [Next]_vars, NEW t \in Tx
  PROVE  RowMove(t)
<1> USE DEF IInv
<1>0. TypeOK'
  BY TypeStep
<1>1. ASSUME NEW u \in Tx, Normalize(u) PROVE RowMove(t)
  <2>1. CASE u # t
    BY <1>1, <2>1 DEF Normalize, RowMove, TypeOK
  <2>2. CASE u = t
    <3> DEFINE x == [category |-> Unknown, merchant |-> Null,
                     excluded |-> FALSE, needsReview |-> TRUE,
                     method |-> "uncategorized"]
    <3>0. row'[t] = x
      BY <1>1, <2>2 DEF Normalize, TypeOK
    <3>1. row'[t].method = "uncategorized"
      BY <3>0
    <3>2. row'[t] \in Row
      BY <3>0, EnrichmentAssumption DEF Row, Method
    <3> QED
      BY <1>1, <2>2, <3>1, <3>2 DEF Normalize, RowMove, Automated
  <2> QED
    BY <2>1, <2>2
<1>2. ASSUME NEW u \in Tx, Accept(u) PROVE RowMove(t)
  BY <1>2 DEF Accept, Imported, RowMove, TypeOK
<1>3. ASSUME NEW p \in Reviewer, CommitReview(p) PROVE RowMove(t)
  <2>1. review[p].request \in Request
    BY <1>3 DEF CommitReview, ReviewsKnown, TypeOK, ReviewState
  <2>2. lock[t] = p => row[t] \in Row
    BY EnrichmentAssumption DEF LocksHeld, TypeOK, Locker
  <2> QED
    BY <1>3, <2>1, <2>2 DEF CommitReview, RowMove, Corrected
<1>4. ASSUME NEW c \in Classifier, WriteClassification(c) PROVE RowMove(t)
  <2>0. override' = override
    BY <1>4 DEF WriteClassification
  <2>1. \A k \in classify[c].found : k \in Candidate
    BY DEF TypeOK, ClassifyState
  <2>2. PICK u \in Tx :
          /\ u \in classify[c].queue
          /\ \/ row' = row
             \/ \E k \in classify[c].found :
                  row' = [row EXCEPT ![u].category = k.category,
                                     ![u].merchant = k.merchant,
                                     ![u].needsReview = FALSE,
                                     ![u].method = k.source]
    BY <1>4 DEF WriteClassification, Last
  <2>3. CASE row' = row
    BY <2>0, <2>3 DEF RowMove
  <2>4. ASSUME NEW k \in classify[c].found,
               row' = [row EXCEPT ![u].category = k.category,
                                  ![u].merchant = k.merchant,
                                  ![u].needsReview = FALSE,
                                  ![u].method = k.source]
        PROVE  RowMove(t)
    <3>1. CASE t # u
      BY <2>0, <2>4, <3>1 DEF RowMove, TypeOK
    <3>2. CASE t = u
      <4>1. row[t] \in Row
        BY <2>2, <3>2 DEF ClassifyKnown, Imported, TypeOK
      <4>2. row'[t] = [row[t] EXCEPT !.category = k.category,
              !.merchant = k.merchant, !.needsReview = FALSE, !.method = k.source]
        BY <2>4, <3>2 DEF TypeOK
      <4>3. row'[t].method = k.source
        BY <4>1, <4>2 DEF Row
      <4>4. k.source # "manual_override"
        BY <2>1 DEF Candidate
      <4>5. row'[t] \in Row
        BY <4>1, <4>2, <2>1 DEF Row, Candidate, Method
      <4> QED
        BY <2>0, <2>2, <3>2, <4>3, <4>4, <4>5 DEF RowMove, Automated
    <3> QED
      BY <3>1, <3>2
  <2> QED
    BY <2>2, <2>3, <2>4
<1>5. ASSUME NEW b \in Backfiller, CommitBackfill(b) PROVE RowMove(t)
  <2>0. override' = override
    BY <1>5 DEF CommitBackfill
  <2>1. CASE lock[t] # b
    BY <1>5, <2>0, <2>1 DEF CommitBackfill, RowMove
  <2>2. CASE lock[t] = b
    <3>1. row'[t] = BackfilledRow(backfill[b].form, row[t])
      BY <1>5, <2>2 DEF CommitBackfill
    <3>2. row'[t].method = "rule"
      BY <3>1 DEF BackfilledRow
    <3>3. row[t] \in Row
      BY <2>2, EnrichmentAssumption DEF LocksHeld, TypeOK, Locker
    <3>4. row'[t] \in Row
      BY <3>3, <1>0, RowsStay DEF TypeOK, Imported
    <3> QED
      BY <2>0, <2>2, <3>2, <3>4 DEF RowMove, Automated
  <2> QED
    BY <2>1, <2>2
<1>6. CASE UNCHANGED <<row, override>>
  BY <1>6 DEF RowMove
<1> QED
  BY <1>1, <1>2, <1>3, <1>4, <1>5, <1>6
     DEF Next, vars, ReviewStep, ClassifyStep, BackfillStep,
         BreakReviewDeadlock, BreakBackfillDeadlock, BeginReview, ReadSimilar,
         OverrideRow, AbortReview, StartClassify, FindRule, FindMerchantAlias,
         FindHistory, FailClassify, SaveRuleMerchant, SaveRule, SetRuleActive,
         ApplyRule, StartBackfill, PreviewRule, BeginBackfillUpdate,
         LockBackfillRow, FailBackfill

\* The one place where a row and its override are written together.
LEMMA CorrectionPins ==
  ASSUME IInv, NEW t \in Tx, Corrected(t) PROVE Pinned(t)'
<1>1. PICK p \in Reviewer :
        /\ row[t] \in Row
        /\ row'[t] = ManualRow(review[p].request, row[t])
        /\ override'[t] = UpsertOverride(override[t], review[p].request)
        /\ review[p].request \in Request
  BY DEF Corrected
<1> DEFINE q == review[p].request
<1>2. /\ q.category \in Category \cup {Null} /\ q.merchant \in Merchant \cup {Null}
      /\ q.excluded \in BOOLEAN
  BY <1>1 DEF Request
<1>3. override'[t] \in ManualOverride
  BY <1>1, <1>2 DEF UpsertOverride, ManualOverride
<1>4. row'[t] # Null
  <2>1. row'[t] \in Row
    BY <1>1, EnrichmentAssumption
       DEF ManualRow, Request, Row, Method, Coalesce
  <2> QED
    BY <2>1, EnrichmentAssumption
<1>5. override'[t] # Null
  BY <1>3, EnrichmentAssumption
<1>6. row'[t].method = "manual_override" /\ ~row'[t].needsReview
  BY <1>1 DEF ManualRow
<1>7. Agrees(row'[t], override'[t])
  BY <1>1 DEF Agrees, ManualRow, UpsertOverride, Coalesce
<1> QED
  BY <1>4, <1>5, <1>6, <1>7 DEF Pinned

LEMMA PinnedStep ==
  ASSUME IInv, [Next]_vars, NEW t \in Tx, Pinned(t), ~Automated(t)
  PROVE  Pinned(t)'
<1>1. CASE row'[t] = row[t] /\ override'[t] = override[t]
  BY <1>1 DEF Pinned, Agrees
<1>2. CASE /\ row[t] \in Row
           /\ row'[t] = [row[t] EXCEPT !.needsReview = FALSE]
           /\ override'[t] = override[t]
  <2>1. row'[t] \in Row /\ row'[t].method = row[t].method
        /\ row'[t].needsReview = FALSE /\ row'[t].category = row[t].category
        /\ row'[t].merchant = row[t].merchant
        /\ row'[t].excluded = row[t].excluded
    BY <1>2 DEF Row
  <2>2. Null \notin Row
    BY EnrichmentAssumption
  <2> QED
    BY <1>2, <2>1, <2>2 DEF Pinned, Agrees
<1>3. CASE Corrected(t)
  BY <1>3, CorrectionPins
<1> QED
  BY <1>1, <1>2, <1>3, RowMoves DEF RowMove

LEMMA ManualRowsStep ==
  ASSUME IInv, ManualRowsMatchOverrides, [Next]_vars
  PROVE  ManualRowsMatchOverrides'
<1> SUFFICES ASSUME NEW t \in Tx, row'[t] # Null,
                    row'[t].method = "manual_override"
             PROVE  Pinned(t)'
  BY DEF ManualRowsMatchOverrides
<1>1. ~Automated(t)
  BY DEF Automated
<1>2. CASE Pinned(t)
  BY <1>1, <1>2, PinnedStep
<1>3. CASE ~Pinned(t)
  <2>1. row[t] # Null => row[t].method # "manual_override"
    BY <1>3 DEF ManualRowsMatchOverrides
  <2>2. ~(row'[t] = row[t])
    BY <2>1
  <2>3. ~(row[t] \in Row /\ row'[t] = [row[t] EXCEPT !.needsReview = FALSE])
    BY <2>1, EnrichmentAssumption DEF Row
  <2> QED
    BY <1>1, <2>2, <2>3, RowMoves, CorrectionPins DEF RowMove
<1> QED
  BY <1>2, <1>3

\* Rows and overrides never drift apart.
THEOREM RowsMatchOverrides == Spec => []ManualRowsMatchOverrides
<1>1. Init => ManualRowsMatchOverrides
  BY DEF Init, ManualRowsMatchOverrides
<1> QED
  BY <1>1, Invariant, ManualRowsStep, PTL DEF Spec

\* A list of transactions taken from now on leaves an overridden one out.
LEMMA OutOfReachStep ==
  ASSUME IInv, [Next]_vars, NEW t \in Tx, override[t] # Null, OutOfReach(t)
  PROVE  OutOfReach(t)'
<1>1. ASSUME NEW c \in Classifier PROVE t \notin classify'[c].queue
  BY ClassifyQueue DEF OutOfReach, Pending
<1>2. ASSUME NEW b \in Backfiller PROVE t \notin backfill'[b].ids
  BY BackfillMoves
     DEF OutOfReach, BackfillMove, BackfillStarts, BackfillPreviews,
         BackfillBegins, BackfillLocks, WouldChange, IdleBackfill
<1> QED
  BY <1>1, <1>2 DEF OutOfReach

\* Once no run in progress has the transaction in its list, a correction
\* stands against every later rule, classify run and backfill.
THEOREM SettledStands == Spec => SettledOverrideStands
<1>1. ASSUME IInv, [Next]_vars
      PROVE  \A t \in Tx :
               Pinned(t) /\ OutOfReach(t) => (Pinned(t) /\ OutOfReach(t))'
  <2> SUFFICES ASSUME NEW t \in Tx, Pinned(t), OutOfReach(t)
               PROVE  Pinned(t)' /\ OutOfReach(t)'
    OBVIOUS
  <2>1. override[t] # Null /\ row[t] # Null
    BY DEF Pinned
  <2>2. ASSUME NEW b \in Backfiller PROVE lock[t] # b
    <3>1. b # Null
      BY EnrichmentAssumption DEF Locker
    <3>2. lock[t] = b => t \in backfill[b].eligible
      BY <1>1, <3>1 DEF IInv, LocksHeld
    <3> QED
      BY <1>1, <3>2 DEF IInv, BackfillsKnown, OutOfReach
  <2>3. ~Automated(t)
    BY <2>1, <2>2 DEF Automated, OutOfReach
  <2> QED
    BY <1>1, <2>1, <2>3, PinnedStep, OutOfReachStep
<1> QED
  BY <1>1, Invariant, PTL DEF Spec, SettledOverrideStands

-----------------------------------------------------------------------------
(* Aliases *)

\* A correction in progress is the only one of its merchant.
MerchantAlone ==
  \A p, r \in Reviewer :
    /\ review[p].pc # "idle" /\ review[r].pc # "idle"
    /\ review[p].request.merchant = review[r].request.merchant
    /\ review[p].request.merchant # Null
    => p = r

\* a may be added by a correction in state x.
MayAdd(a, x, there) ==
  /\ x.pc # "idle"
  /\ a.merchant = x.request.merchant /\ a.merchant # Null
  /\ \A i \in DOMAIN there : there[i] # a

\* The alias a correction is about to add is its merchant's, and is not there yet.
AliasesNew ==
  \A p \in Reviewer :
    review[p].alias # Null => MayAdd(review[p].alias, review[p], aliases)

AInv == AliasesUnique /\ MerchantAlone /\ AliasesNew

\* A correction that goes on with its request or ends, and adds nothing yet.
LEMMA AliasesRest ==
  ASSUME IInv, AInv, NEW p \in Reviewer, NEW x,
         review' = [review EXCEPT ![p] = x], aliases' = aliases,
         x.pc # "idle" => review[p].pc # "idle" /\ x.request = review[p].request,
         x.alias # Null => MayAdd(x.alias, x, aliases)
  PROVE  AInv'
<1>1. \A r \in Reviewer : review'[r] = IF r = p THEN x ELSE review[r]
  BY DEF IInv, TypeOK
<1>2. AliasesUnique'
  BY DEF AInv, AliasesUnique
<1>3. MerchantAlone'
  BY <1>1 DEF AInv, MerchantAlone
<1>4. AliasesNew'
  BY <1>1 DEF AInv, AliasesNew
<1> QED
  BY <1>2, <1>3, <1>4 DEF AInv

\* A correction begins when no other one is at its merchant.
LEMMA AliasesBegin ==
  ASSUME IInv, AInv, NEW p \in Reviewer, NEW t \in Tx, NEW q \in Requests,
         BeginReview(p, t, q)
  PROVE  AInv'
<1> DEFINE y == [pc |-> IF q.applySimilar THEN "similar" ELSE "writing",
                 target |-> t, request |-> q, todo |-> {t}, alias |-> Null]
<1>1. PICK x : /\ review' = [review EXCEPT ![p] = x]
               /\ x.request = q /\ x.alias = Null
  <2>1. review' = [review EXCEPT ![p] = y]
    BY DEF BeginReview
  <2>2. y.request = q /\ y.alias = Null
    OBVIOUS
  <2> HIDE DEF y
  <2> QED
    BY <2>1, <2>2
<1>2. \A r \in Reviewer : review'[r] = IF r = p THEN x ELSE review[r]
  BY <1>1 DEF IInv, TypeOK
<1>3. aliases' = aliases
  BY DEF BeginReview
<1>4. \A r \in Reviewer :
        review[r].pc # "idle" /\ q.merchant # Null => review[r].request.merchant # q.merchant
  BY DEF BeginReview, MerchantLocked
<1>5. AliasesUnique'
  BY <1>3 DEF AInv, AliasesUnique
<1>6. MerchantAlone'
  BY <1>1, <1>2, <1>4 DEF AInv, MerchantAlone
<1>7. AliasesNew'
  BY <1>1, <1>2, <1>3 DEF AInv, AliasesNew
<1> QED
  BY <1>5, <1>6, <1>7 DEF AInv

\* The alias of a correction is looked up among those that are there.
LEMMA AliasesOverride ==
  ASSUME IInv, AInv, NEW p \in Reviewer, NEW t \in Tx, OverrideRow(p, t)
  PROVE  AInv'
<1> DEFINE a == IF t = review[p].target THEN NewAlias(p) ELSE review[p].alias
           x == [review[p] EXCEPT !.todo = @ \ {t}, !.alias = a]
<1>1. review[p] \in ReviewState /\ review[p].pc # "idle"
  BY DEF IInv, TypeOK, OverrideRow, NextOverride
<1>2. x.pc = review[p].pc /\ x.request = review[p].request /\ x.alias = a
  BY <1>1 DEF ReviewState
<1>3. NewAlias(p) # Null => MayAdd(NewAlias(p), review[p], aliases)
  BY <1>1 DEF NewAlias, MayAdd
<1>4. a # Null => MayAdd(a, review[p], aliases)
  BY <1>3 DEF AInv, AliasesNew
<1>5. x.alias # Null => MayAdd(x.alias, x, aliases)
  BY <1>2, <1>4 DEF MayAdd
<1>6. review' = [review EXCEPT ![p] = x] /\ aliases' = aliases
  BY DEF OverrideRow
<1> HIDE DEF x
<1> QED
  BY <1>1, <1>2, <1>5, <1>6, AliasesRest

\* What a commit adds was not there, and no other correction is about to add it.
LEMMA AliasesCommit ==
  ASSUME IInv, AInv, NEW p \in Reviewer, CommitReview(p)
  PROVE  AInv'
<1>1. IdleReview.pc = "idle" /\ IdleReview.alias = Null
  BY DEF IdleReview
<1>2. review' = [review EXCEPT ![p] = IdleReview]
  BY DEF CommitReview
<1>3. CASE review[p].alias = Null
  <2>1. aliases' = aliases
    BY <1>3 DEF CommitReview
  <2> QED
    BY <1>1, <1>2, <2>1, AliasesRest
<1>4. CASE review[p].alias # Null
  <2> DEFINE a == review[p].alias
  <2>1. aliases \in Seq(Alias) /\ a \in Alias /\ MayAdd(a, review[p], aliases)
    BY <1>4 DEF IInv, TypeOK, ReviewState, AInv, AliasesNew
  <2>2. aliases' = Append(aliases, a)
    BY <1>4 DEF CommitReview
  <2>3. /\ DOMAIN aliases' = DOMAIN aliases \cup {Len(aliases) + 1}
        /\ Len(aliases) + 1 \notin DOMAIN aliases
        /\ aliases'[Len(aliases) + 1] = a
        /\ \A i \in DOMAIN aliases : aliases'[i] = aliases[i]
    BY <2>1, <2>2
  <2>4. \A r \in Reviewer : review'[r] = IF r = p THEN IdleReview ELSE review[r]
    BY <1>2 DEF IInv, TypeOK
  <2>5. AliasesUnique'
    BY <2>1, <2>3 DEF AInv, AliasesUnique, MayAdd
  <2>6. MerchantAlone'
    BY <1>1, <2>4 DEF AInv, MerchantAlone
  <2>7. ASSUME NEW r \in Reviewer, review'[r].alias # Null
        PROVE  MayAdd(review'[r].alias, review'[r], aliases')
    <3>1. r # p /\ review'[r] = review[r]
      BY <1>1, <2>4, <2>7
    <3>2. MayAdd(review[r].alias, review[r], aliases)
      BY <2>7, <3>1 DEF AInv, AliasesNew
    <3>3. review[r].alias # a
      BY <2>1, <3>1, <3>2 DEF AInv, MerchantAlone, MayAdd
    <3> QED
      BY <2>3, <3>1, <3>2, <3>3 DEF MayAdd
  <2> QED
    BY <2>5, <2>6, <2>7 DEF AInv, AliasesNew
<1> QED
  BY <1>3, <1>4

LEMMA AliasesStep == ASSUME IInv, AInv, [Next]_vars PROVE AInv'
<1>1. ASSUME UNCHANGED <<aliases, review>> PROVE AInv'
  BY <1>1 DEF AInv, AliasesUnique, MerchantAlone, AliasesNew
<1>2. ASSUME NEW p \in Reviewer, NEW t \in Tx, NEW q \in Requests, BeginReview(p, t, q)
      PROVE  AInv'
  BY <1>2, AliasesBegin
<1>3. ASSUME NEW p \in Reviewer, ReadSimilar(p) PROVE AInv'
  <2> DEFINE x == [review[p] EXCEPT !.pc = "writing",
                     !.todo = @ \cup Similar(review[p].target)]
  <2>1. review[p] \in ReviewState
    BY DEF IInv, TypeOK
  <2>2. /\ x.pc = "writing" /\ x.request = review[p].request /\ x.alias = review[p].alias
        /\ review[p].pc # "idle"
    BY <1>3, <2>1 DEF ReviewState, ReadSimilar
  <2>3. x.alias # Null => MayAdd(x.alias, x, aliases)
    BY <2>2 DEF AInv, AliasesNew, MayAdd
  <2>4. review' = [review EXCEPT ![p] = x] /\ aliases' = aliases
    BY <1>3 DEF ReadSimilar
  <2> HIDE DEF x
  <2> QED
    BY <2>2, <2>3, <2>4, AliasesRest
<1>4. ASSUME NEW p \in Reviewer, NEW t \in Tx, OverrideRow(p, t) PROVE AInv'
  BY <1>4, AliasesOverride
<1>5. ASSUME NEW p \in Reviewer, CommitReview(p) PROVE AInv'
  BY <1>5, AliasesCommit
<1>6. ASSUME NEW p \in Reviewer, AbortReview(p) PROVE AInv'
  BY <1>6, AliasesRest DEF AbortReview, IdleReview
<1>7. CASE UNCHANGED vars
  BY <1>1, <1>7 DEF vars
<1>8. CASE \E t \in Tx : Normalize(t) \/ Accept(t)
  BY <1>1, <1>8 DEF Normalize, Accept
<1>9. CASE \E c \in Classifier : StartClassify(c) \/ ClassifyStep(c) \/ FailClassify(c)
  BY <1>1, <1>9 DEF StartClassify, ClassifyStep, FindRule, FindMerchantAlias, FindHistory,
                    WriteClassification, FailClassify
<1>10. CASE \/ \E e \in Editor :
                 \/ \E r \in Rule, f \in RuleForms : SaveRuleMerchant(e, r, f)
                 \/ SaveRule(e)
            \/ \E r \in Rule : SetRuleActive(r) \/ ApplyRule(r)
  BY <1>1, <1>10 DEF SaveRuleMerchant, SaveRule, SetRuleActive, ApplyRule
<1>11. CASE \E b \in Backfiller :
              \/ \E r \in Rule : StartBackfill(b, r)
              \/ BackfillStep(b) \/ FailBackfill(b)
  BY <1>1, <1>11 DEF StartBackfill, BackfillStep, PreviewRule, BeginBackfillUpdate,
                     LockBackfillRow, CommitBackfill, BreakBackfillDeadlock, FailBackfill
<1> QED
  BY <1>2, <1>3, <1>4, <1>5, <1>6, <1>7, <1>8, <1>9, <1>10, <1>11 DEF Next, ReviewStep, BreakReviewDeadlock

\* However many corrections create the same alias at the same time, it is added
\* once: they wait for each other at the merchant (upsertMerchantAlias).
THEOREM AliasesOnce == Spec => []AliasesUnique
<1>1. Init => AInv
  BY DEF Init, IdleReview, AInv, AliasesUnique, MerchantAlone, AliasesNew
<1> QED
  BY <1>1, Invariant, AliasesStep, PTL DEF Spec, AInv
=============================================================================
