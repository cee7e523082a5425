SPECIFICATION Spec
CONSTANTS
    Proc = {p0, p1, p2}
    Initproc = p0
    NPAGES = 26
    PGSIZE = 2
    PTES = 2
    USERSTACK = 1
    Images <- MCImages
    Initcode <- MCInitcode
    Deltas <- MCDeltas
    UserVal = {1}
    MaxArgs = 1
    MaxOthers = 2
SYMMETRY Sym
INVARIANTS MemInv NoPanic
PROPERTY ImplementsAddrSpace
