CONSTANTS
  Readers = {r1}
  Writers = {w1, w2}
  Byte = {a, b}
  PIPESIZE = 2
  WORD = 4
  Requests <- MCRequests
  Mortal = {r1, w1}
  None = None
SPECIFICATION FairSpec
CHECK_DEADLOCK FALSE
INVARIANT PipeInv
PROPERTIES ImplementsByteStream ReadEnds
