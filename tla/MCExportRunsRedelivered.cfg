\* Stops, errors and redeliveries, one attempt at a time for each job.
SPECIFICATION Spec
CONSTANTS
  u1 = u1
  u2 = u2
  a1 = a1
  a2 = a2
  Requester = {u1, u2}
  Attempt = {a1, a2}
  MaxRuns = 3
  MaxDeliveries = 3
  Outlives = FALSE
SYMMETRY Symmetry
PROPERTY ExportsKeepToTheirLife
\* No run is requested once there are MaxRuns.
CHECK_DEADLOCK FALSE
