SPECIFICATION Spec
CONSTANTS
  Null = Null
  PageSize = 24
  BitsPerByte = 2
  ValueSizes = {4, 8}
  Writers = {"inserter", "to_columnar"}
  MaxRows = 11
INVARIANTS
  TypeOK
  RoundTrip
  ViewSound
