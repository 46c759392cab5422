\* Every page, two requests at a time, changes by jobs and other pages.
SPECIFICATION Spec
CONSTANTS
  r1 = r1
  r2 = r2
  Null = Null
  Pages <- MCPages
  Requests <- MCRequests
  MaxId = 3
  MaxVersion = 2
  MaxFilter = 1
INVARIANTS
  TypeOK
  SentForItsItem
  ShowsOwnChanges
  CorrectedStayAway
PROPERTY KeepsTyping
SYMMETRY Symmetry
\* Nothing changes at the server once there were MaxVersion changes.
CHECK_DEADLOCK FALSE
