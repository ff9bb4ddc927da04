SPECIFICATION FairSpec
CONSTANTS
  w1 = w1
  None = None
  Paths = {1, 2}
  Watchers = {w1}
  WatcherOf <- OneDirectory
  Barred = {1}
  Refusable = {2}
  Stable = 2
  MaxSize = 2
  MaxFailures = 1
  MaxCrashes = 1
INVARIANTS
  FaultsExplainDuplicates
  NothingLost
PROPERTIES
  FinishedIsSettledForGood
