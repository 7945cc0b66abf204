SPECIFICATION Spec
CONSTANTS
  MaxCalls = 4
INVARIANTS CreateComesFirst QueryIsTrue
CHECK_DEADLOCK FALSE
