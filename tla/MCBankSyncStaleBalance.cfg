\* Two syncs at a time that both fetch bookings of one day.
SPECIFICATION Spec
CONSTANTS
  Null = Null
  Bookings = 3
  Version = {0}
  HasId = {1, 2, 3}
  HasBalance = {1, 2, 3}
  Day <- MCDay
  PageSize = 1
  MaxPages = 2
  Resets = FALSE
  Syncer = {s1, s2}
  MaxRuns = 2
INVARIANT BalanceIsCurrent
\* No run begins once there are MaxRuns.
CHECK_DEADLOCK FALSE
