\* Two bulk corrections and a backfill: any two may wait for each other's rows.
SPECIFICATION ImportedSpec
CONSTANTS
  Null = Null
  shop = shop
  Unknown = Unknown
  groceries = groceries
  rent = rent
  m1 = m1
  Text = {shop}
  Category = {Unknown, groceries, rent}
  Merchant = {m1}
  TextOf <- SameText
  Covers <- MCCovers
  Tx = {1, 2}
  Rule = {1}
  RuleForms <- OtherRule
  Requests <- BulkRequests
  Reviewer = {p1, p2}
  Classifier = {}
  Backfiller = {b1}
  Editor = {}
INVARIANT AliasesUnique
PROPERTY ReviewsEnd
