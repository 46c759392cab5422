\* A correction, a classify run and a backfill at a time.
SPECIFICATION Spec
CONSTANTS
  Null = Null
  shop = shop
  Unknown = Unknown
  groceries = groceries
  rent = rent
  m1 = m1
  Text = {shop}
  Category = {Unknown, groceries, rent}
  Merchant = {m1}
  TextOf <- SameText
  Covers <- MCCovers
  Tx = {1, 2}
  Rule = {1}
  RuleForms <- OneRule
  Requests <- ExcludeOrEdit
  Reviewer = {p1}
  Classifier = {c1}
  Backfiller = {b1}
  Editor = {e1}
INVARIANTS TypeOK LocksHeld ManualRowsMatchOverrides
PROPERTY SettledOverrideStands
