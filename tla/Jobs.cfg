CONSTANTS
  Groups = 3
  MaxProcs = 4
  Sizes = {1, 2}
  Timeouts = {0, 1}
  MAX_JOBS = 2
SPECIFICATION FairSpec
CHECK_DEADLOCK FALSE
INVARIANTS JobsInv NothingLeftStopped
PROPERTY TimeoutEnds
