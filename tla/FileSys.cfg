CONSTANTS
    Proc = {p1, p2}
    None = None
    Name = {"a", "x"}
    Files = {"x"}
    NINODES = 4
    NINODE = 3
    NDEV = 2
    NBLOCKS = 6
    NDIRECT = 2
    NINDIRECT = 1
    DPB = 2
    NLINK_MAX = 2
    NFILE = 2
    NOFILE = 2
    Calls <- MCCalls
    MaxIO = 3
    MaxCalls = 4
SYMMETRY Sym
SPECIFICATION Spec
INVARIANTS DiskConsistent TablesConsistent
PROPERTY InUseStays
