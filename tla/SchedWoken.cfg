CONSTANTS
  NPROC = 2
  NCPU = 1
  Policies = {"MLFQ"}
  MaxPri = 1
  mlfq_slice <- SmallSlice
  BoostInterval = 2
  TickMod = 2
SPECIFICATION Spec
PROPERTIES WokenIsUnqueued
