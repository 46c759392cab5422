\* Two detections and a disabling request at a time.
SPECIFICATION FairSpec
CONSTANTS
  Null = Null
  Tx = {1, 2}
  MonthOf <- Months
  Name = {"rent"}
  Month = {1, 2}
  Category = {"Rent"}
  Detector = {d1, d2}
  Disabler = {u1}
  MaxSeries = 2
INVARIANT TypeOK
PROPERTIES DisableFreesRows DisabledSeriesRest ConfirmationsStand WorkEnds
