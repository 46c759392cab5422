\* Two updates at a time, while the tables change and a month ends.
SPECIFICATION ConfirmedSpec
CONSTANTS
  Null = Null
  Category = {"Unknown", "Rent"}
  OutsideForecast = {"Unknown"}
  Unknown = "Unknown"
  DaysInMonth = 3
  Limit <- MCLimit
  Bookings = 3
  AmountOf <- MCAmount
  DayOf <- MCDay
  Opening = 5000
  Series = {1, 2}
  Corrections <- MCCorrections
  RuleForms <- MCRules
  Terms <- MCTerms
  SettingsForms <- MCSettings
  Updater = {u1, u2}
  Detector = {}
  u1 = u1
  u2 = u2
  LastDay = 7
  MaxChanges = 8
INVARIANTS TypeOK SettledForecastIsCurrent SettledPagesAgree SettledNoteIsTrue
SYMMETRY Symmetry
PROPERTY PastForecastsRest
