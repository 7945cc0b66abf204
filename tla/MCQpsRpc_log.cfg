SPECIFICATION Spec
CONSTANTS
  Configs <- AsyncConfigs
  NotANumber = NotANumber
  DefaultTimes = 2
  Workers = {w}
  Exclusive = TRUE
  MaxRounds = 2
PROPERTIES LogMeansAllBack
CHECK_DEADLOCK FALSE
