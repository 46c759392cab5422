\* The tables change in every way; no updates.
SPECIFICATION Spec
CONSTANTS
  Null = Null
  Category = {"Unknown", "Rent"}
  OutsideForecast = {"Unknown"}
  Unknown = "Unknown"
  DaysInMonth = 3
  Limit <- MCLimit
  Bookings = 4
  AmountOf <- MCMoreAmounts
  DayOf <- MCMoreDays
  Opening = 5000
  Series = {1, 2}
  Corrections <- MCCorrections
  RuleForms <- MCFewRules
  Terms = {}
  SettingsForms = {}
  Updater = {}
  Detector = {1}
  u1 = u1
  u2 = u2
  LastDay = 4
  MaxChanges = 4
INVARIANTS SpendingIsForecast PagesAgreeOnSpending RecurringPagesAgree
\* No change is made once there were MaxChanges.
CHECK_DEADLOCK FALSE
