SPECIFICATION LoadSpec
CONSTANTS
  Configs <- SmallConfigs
  NotANumber = NotANumber
  DefaultTimes = 2
  Workers = {w}
  Exclusive = TRUE
  MaxRounds = 3
  Show = Show
  MaxTaken = 6
  MaxSync = 4
INVARIANTS AllBackIsLogged LoggedOnce CounterCovers EndsAgree ShownOnce
PROPERTIES RoundIsLogged
CHECK_DEADLOCK FALSE
