SPECIFICATION FairSpec
CONSTANTS
    Proc = {p1, p2}
    Readers = {p1, p2}
    INPUT_BUF_SIZE = 2
    IDX = 4
    Key = {"a", "cr", "eof", "erase", "kill", "procdump", "nul"}
    BATCH = 2
    RXFIFO = 1
    MaxRead = 2
    MaxWrite = 3
    MaxWork = 4
CHECK_DEADLOCK FALSE
INVARIANT ConsoleInv
PROPERTIES BatchesWhole ImplementsLineInput CallsEnd
