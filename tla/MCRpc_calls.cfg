SPECIFICATION FairSpec
CONSTANTS
  a = a
  b = b
  Actors = {a, b}
  App = a
  Console = console
  Uses <- AllUses
  Interfaces <- AllInterfaces
  Skewed <- AllSkewed
  MaxSize = 1
  MaxCalls = 2
INVARIANTS TypeOK WaiterHasWaker TaskEndsOnce PostSilent CallbackInFrame
PROPERTIES RemoteCallSpec CallsReturn
CHECK_DEADLOCK FALSE
