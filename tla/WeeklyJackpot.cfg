SPECIFICATION WeeklySpec
CONSTANTS
  MaxEpochs = 2
  Dailies = {d1}
  Weeklies = {w1}
  DailyFee = 20
  WeeklyFee = 10
  MaxEntries = 1
  MaxVisitors = 1
  MaxFailures = 1
INVARIANTS
  JackpotIsBacked
PROPERTIES
  WeekliesSettle
  EpochsReturn
CHECK_DEADLOCK FALSE
