SPECIFICATION Spec
CONSTANTS
  None = None
  Char <- Characters
  Escapes = {"backslash", "quote"}
  MaxText = 5
  Texts <- ShortTexts
  Tables <- SmallTables
INVARIANTS
  TypeOK
  ChunkingInvisible
  ReadsWhatWasWritten
