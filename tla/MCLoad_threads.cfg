SPECIFICATION LoadSpec
CONSTANTS
  Configs <- SmallConfigs
  NotANumber = NotANumber
  DefaultTimes = 2
  Workers = {v, w}
  Exclusive = FALSE
  MaxRounds = 2
  Show = Show
  MaxTaken = 4
  MaxSync = 1
INVARIANTS LoggedMeansHandled
CHECK_DEADLOCK FALSE
