SPECIFICATION Spec
CONSTANTS
  Keys <- MCKeys
  HashOf <- MCHashOf
  Hash1 <- MCHash1
  Hash2 <- MCHash2
  NeighborhoodSize = 3
  MaxBits = 6
  MinCapacity = 2
  MaxKicks = 3
  MaxBuildKicks = 4
  Expected = {1, 4}
  MaxPerKey = 2
  Empty = Empty
INVARIANTS
  FindsLatest
  KeepsAll
  PairsWhereFindLooks
PROPERTIES
  HopscotchReturns
