SPECIFICATION FairSpec
CONSTANTS
  None = None
  Null = Null
  t1 = t1  t2 = t2  t3 = t3
  a = a  b = b
  Thread <- Threads
  Partition <- Partitions
  BuildRows = 6
  Key = {a, b}
  KeyOf <- KeyColumn
  PartOf <- KeyPartition
  RangeSize = 2
  FlushAt = 2
  Capacity = 2
INVARIANTS
  TypeOK
  CellReserved
  RowsInOnePlace
PROPERTIES
  CollectEnds
