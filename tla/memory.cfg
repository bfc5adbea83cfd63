SPECIFICATION MemorySpec
CONSTANTS
  Lines <- Thirteen
  Words <- WordsOfKinds
  MaxChunks = 3
  MinTokens = 3
  TargetTokens = 3
  MaxTokens = 3
  MaxItems = 2
  MaxDesigns = 2
  PathCap = 2
  Paths = {3}
  KMax = 2
  MaxDurable = 2
  MaxSaid = 4
  MaxRestarts = 1
INVARIANTS ScansAsStructured ChunksCover RowsInOrder ShieldedOutlive SaidIsKnown
CHECK_DEADLOCK FALSE
