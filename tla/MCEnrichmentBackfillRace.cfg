\* A correction committed while a backfill is under way.
SPECIFICATION Spec
CONSTANTS
  Null = Null
  shop = shop
  Unknown = Unknown
  groceries = groceries
  rent = rent
  m1 = m1
  Text = {shop}
  Category = {Unknown, groceries, rent}
  Merchant = {m1}
  TextOf <- SameText
  Covers <- MCCovers
  Tx = {1, 2}
  Rule = {1}
  RuleForms <- OneRule
  Requests <- MixedRequests
  Reviewer = {p1}
  Classifier = {}
  Backfiller = {b1}
  Editor = {e1}
PROPERTY BackfillSparesOverrides
