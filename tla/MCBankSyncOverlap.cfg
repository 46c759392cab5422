\* Two syncs at a time, the bank revising bookings and voiding cursors.
SPECIFICATION FairSpec
CONSTANTS
  Null = Null
  Bookings = 3
  Version = {0, 1}
  HasId = {1, 2}
  HasBalance = {1, 3}
  Day <- MCDay
  PageSize = 1
  MaxPages = 2
  Resets = TRUE
  Syncer = {s1, s2}
  MaxRuns = 2
INVARIANTS TypeOK ImportsAreWhole NewCountsAddUp
PROPERTIES ImportsWithoutGap SyncsEnd
\* No run begins once there are MaxRuns.
CHECK_DEADLOCK FALSE
