CONSTANTS
  Thread = {t1, t2}
  Block = {b1, b2, b3, b4}
  Val = {0, 1}
  LOGBLOCKS = 4
  MAXOPBLOCKS = 2
  OpBlocks = 1
  MaxOps = 5
SPECIFICATION Spec
SYMMETRY Symmetric
INVARIANTS LogInv NoPanic
PROPERTY ImplementsAtomicDisk
