SPECIFICATION FairSpec
CONSTANTS
  None = None
  t1 = t1  t2 = t2  t3 = t3
  p1 = p1  p2 = p2  p3 = p3
  x1 = x1  x2 = x2  x3 = x3  x4 = x4  x5 = x5
  k1 = k1  k2 = k2  k3 = k3  k4 = k4
  Thread <- Threads
  Partition <- Partitions
  Tuple <- Tuples
  Key <- Keys
  KeyOf <- TupleKeys
  PartOf <- Slabs
  HashOf <- Hashes
  BloomHash1 <- MixHash1
  BloomHash2 <- MixHash2
  DirSize <- DirectorySize
  BloomBits <- BloomBitCount
INVARIANTS
  TypeOK
  ExclusiveWrites
  StoredInSlotRegion
  FindExact
PROPERTIES
  BuildEnds
