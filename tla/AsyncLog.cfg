SPECIFICATION FairSpec
CONSTANTS
  Blocking = {a}
  Overrunning = {b}
  Workers = {w1, w2}
  Dtor = Dtor
  MaxItems = 2
  MaxPosts = 2
INVARIANTS LogInv DrainedAtExit
PROPERTIES LogQueueSpec PostEnds DestroyEnds
CHECK_DEADLOCK FALSE
