SPECIFICATION QuerySpec
CONSTANTS
  Null = Null
  NoMapping = NoMapping
  Inputs <- MCInputs
  Plans <- MCPlans
  Values <- MCValues
  ChunkSize = 2
  OutputChunk = 2
  TableIds = 2
  ColIds = 2
  PageIds = 2
INVARIANTS
  ColumnsAligned
  MemorySafe
  AnswerDelivered
PROPERTIES
  DeliversAnswer
