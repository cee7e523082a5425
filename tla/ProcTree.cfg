CONSTANTS
  NPROC = 4
  MaxPid = 4
  KillPids = {0, 1, 3}
SPECIFICATION FairSpec
CHECK_DEADLOCK FALSE
INVARIANTS ProcInv NoMissedExit
PROPERTY InitReaps
