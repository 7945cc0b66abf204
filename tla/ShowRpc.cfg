SPECIFICATION Spec
CONSTANTS
  Shows = {s1, s2}
  MaxTaken = 2
INVARIANTS ShownIsCounted
