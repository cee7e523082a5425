SPECIFICATION Spec
CONSTANTS
  Thread = {t1, t2, t3}
  Block = {k1, k2, k3}
  Home = {k1, k2}
  Val = {v1, v2}
  NBUF = 2
  NUM = 4
  None = None
SYMMETRY Sym
INVARIANTS DiskInv WaitsForCause
PROPERTY ImplementsBlockStore
