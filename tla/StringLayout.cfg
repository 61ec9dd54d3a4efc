SPECIFICATION Spec
CONSTANTS
  Null = Null
  Nul = Nul
  PageSize = 12
  BitsPerByte = 1
  PageIds = 6
  Writers = {"inserter"}
  Sizes = {0, 1, 5}
  MaxRows = 4
  MaxStrings = 2
INVARIANTS
  CharsWhereDocumented
