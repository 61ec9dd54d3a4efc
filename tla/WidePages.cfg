SPECIFICATION Spec
CONSTANTS
  Null = Null
  PageSize = 24
  BitsPerByte = 2
  ValueSizes = {8}
  Writers = {"inserter"}
  MaxRows = 8
INVARIANTS
  InserterKeepsFormat
