SPECIFICATION Spec
CONSTANTS
  Fields = {number, text, state}
  Plain = {number}
  Assigned = {state}
  MaxCalls = 3
CHECK_DEADLOCK FALSE
INVARIANTS HeardIsOwn
PROPERTIES RepIsTransferred
