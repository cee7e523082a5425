CONSTANTS
  NPROC = 2
  NCPU = 2
  Policies = {"FIFO", "MLFQ", "RR"}
  MaxPri = 1
  mlfq_slice <- SmallSlice
  BoostInterval = 2
  TickMod = 4
SPECIFICATION Spec
INVARIANTS IInv SliceBound
