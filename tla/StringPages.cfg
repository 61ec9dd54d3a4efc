SPECIFICATION Spec
CONSTANTS
  Null = Null
  Nul = Nul
  PageSize = 12
  BitsPerByte = 1
  PageIds = 6
  Writers = {"inserter", "to_columnar"}
  Sizes = {0, 1, 5, 6, 9}
  MaxRows = 10
  MaxStrings = 3
INVARIANTS
  TypeOK
  MarkersReserved
  CopyRoundTrip
  RoundTrip
