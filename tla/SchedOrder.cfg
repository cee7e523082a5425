CONSTANTS
  NPROC = 3
  NCPU = 1
  Policies = {"FIFO", "MLFQ", "RR"}
  MaxPri = 1
  mlfq_slice <- SmallSlice
  BoostInterval = 2
  TickMod = 2
SPECIFICATION FairSpec
PROPERTIES PicksFirst GivesWay NoStarvation
