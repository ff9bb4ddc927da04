SPECIFICATION FairSpec
CONSTANT MaxPosts = 2
INVARIANTS
  SubmittedOnce
  OpenedHasArrived
PROPERTIES
  LoginEnds
CHECK_DEADLOCK FALSE
