\* Two tabs of one browser, and a restart of the server.
SPECIFICATION Spec
CONSTANTS
  t1 = t1
  t2 = t2
  Null = Null
  Tabs = {t1, t2}
  ProfileAllowed = TRUE
  MaxSessions = 2
  MaxNumber = 3
  MaxUses = 2
  MaxRestarts = 1
INVARIANTS
  TypeOK
  LoginsEndSignedIn
  SampleIsOwn
PROPERTY SessionsKeep
SYMMETRY Symmetry
\* Sessions, numbers, mutations and restarts are bounded.
CHECK_DEADLOCK FALSE
