SPECIFICATION LibSpec
CONSTANTS
  MAXCCALLS = 4
  LUA_MAXCAPTURES = 2
  MaxErrors = 1
  Chars <- MCChars
  Calls <- MCCalls
  W = 4
  NBM = 2
  MaxLoops = 4
  Sums <- MCSums
  TabCalls <- MCTabCalls
  MaxResults = 6
  Sorts <- MCSorts
  RANLIMIT = 4
  IMBALANCE = 1
  Rnds = {1, 2}
  Dumps <- MCDumps
  MaxPiece = 2
  ByteMax = 4
  LUAI_MAXSHORTLEN = 1
  Names = {"mem", "a", "b", "c", "d"}
  MEMERRMSG = "mem"
  Literals = {"a", "b"}
  Hash <- MCHash
  STRCACHE_M = 2
  MINSTRTABSIZE = 4
  MaxTable = 16
  Pieces <- MCPieces
  Areas = {0, 1, 3, 8, 14}
  LUAL_BUFFERSIZE = 2
  MaxText = 6
  Reserved = 2
  Objects <- MCObjects
  MaxRef = 6
  Finalizable = {1, 2}
  MaxFinalizers = 2
INVARIANTS NumbersExact RangesExact SortSafe LoadSound SearchAgrees DepthCounted StringsSound AuxSound FinalizersInOrder
PROPERTY CallsEnd
CHECK_DEADLOCK FALSE
