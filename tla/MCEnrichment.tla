---------------------------- MODULE MCEnrichment ----------------------------
(* Small instances of Enrichment for TLC. *)
EXTENDS Enrichment

CONSTANTS shop,               \* the text of every transaction
          groceries, rent,    \* categories
          m1                  \* merchant

SameText == [t \in Tx |-> shop]
MCCovers == [x \in Text |-> {x}]

\* A rule the classifier knows, and one of an operator it does not.
ContainsRule == [active |-> TRUE, live |-> TRUE, matches |-> Text,
                 category |-> rent, merchant |-> Null, excludes |-> FALSE]
RegexRule == [active |-> TRUE, live |-> FALSE, matches |-> Text,
              category |-> groceries, merchant |-> Null, excludes |-> FALSE]

OneRule  == {ContainsRule}
OtherRule == {RegexRule}

Change(similar, alias) ==
  [kind |-> "change", category |-> groceries, merchant |-> m1,
   excluded |-> FALSE, applySimilar |-> similar, createAlias |-> alias]
QuickExclude ==
  [kind |-> "exclude", category |-> Null, merchant |-> Null,
   excluded |-> TRUE, applySimilar |-> TRUE, createAlias |-> FALSE]
Edit ==
  [kind |-> "edit", category |-> rent, merchant |-> Null,
   excluded |-> FALSE, applySimilar |-> FALSE, createAlias |-> FALSE]

\* Both change every similar row.  The second names no merchant, so that the
\* two wait for each other's rows only.
BulkRequests == {Change(TRUE, TRUE), QuickExclude}
ExcludeOrEdit == {QuickExclude, Edit}
MixedRequests == {Change(FALSE, TRUE), QuickExclude, Edit}

\* The bulk corrections start when the rows are imported and a rule is saved.
ImportedInit ==
  /\ row = [t \in Tx |->
       [category |-> Unknown, merchant |-> Null, excluded |-> FALSE,
        needsReview |-> TRUE, method |-> "uncategorized"]]
  /\ rules \in [Rule -> RuleForms]
  /\ override = [t \in Tx |-> Null]
  /\ lock = [t \in Tx |-> Null]
  /\ defaultCategory = [m \in Merchant |-> Null]
  /\ aliases = <<>>
  /\ jobs = {}
  /\ review = [p \in Reviewer |-> IdleReview]
  /\ classify = [c \in Classifier |-> IdleClassify]
  /\ backfill = [b \in Backfiller |-> IdleBackfill]
  /\ edit = [e \in Editor |-> Null]

ImportedSpec == ImportedInit /\ [][Next]_vars /\ Fairness
=============================================================================
