SPECIFICATION Spec
CONSTANTS
  Null = Null
  None = None
  BitsPerByte = 2
  IntBits = 2
  IntValues <- Integers2Bit
  IntLiterals <- Literals
  StrValues = {1}
  StrLiterals = {1}
  Patterns = {{0}}
  MaxRows = 3
  MaxCalls = 2
INVARIANTS
  TypeOK
  FilterAgrees
  ReturnsSelection
