SPECIFICATION Spec
CONSTANTS
  None = None
  NullValue = Null
  Pending = Pending
  NumThreads = 2
  Left <- LeftRel
  Right <- RightRel
  LeftCol = 0
  RightCol = 1
  BuildLeft = FALSE
  OutputAttrs <- Attrs
  GrainSize = 2
  CrcOf <- Crc
  RowsPerPartition = 2
  RangeSize = 2
  FlushAt = 2
  Capacity = 1
INVARIANTS
  ProbeTypeOK
  GrainsDisjoint
  RowsFromPairs
PROPERTIES
  DeliversJoin
  JoinReturns
