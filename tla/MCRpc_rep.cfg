SPECIFICATION Spec
CONSTANTS
  a = a
  b = b
  Actors = {a, b}
  App = a
  Console = console
  Uses <- ReadmeUses
  Interfaces <- ReadmeInterfaces
  Skewed = {}
  MaxSize = 2
  MaxCalls = 2
INVARIANTS SyncRepFilled
CHECK_DEADLOCK FALSE
