\* Attempts that pg-boss has given up go on beside their successors.
SPECIFICATION FairSpec
CONSTANTS
  u1 = u1
  u2 = u2
  a1 = a1
  a2 = a2
  Requester = {u1, u2}
  Attempt = {a1, a2}
  MaxRuns = 2
  MaxDeliveries = 3
  Outlives = TRUE
INVARIANTS TypeOK DoneJobsHaveFiles
PROPERTY JobsEnd
\* No run is requested once there are MaxRuns.
CHECK_DEADLOCK FALSE
