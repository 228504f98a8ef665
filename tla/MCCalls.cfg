SPECIFICATION Spec
CONSTANTS
  Main = Main
  co = co
  other = other
  Coroutines = {co, other}
  LUAI_MAXCCALLS = 5
  EXTRACCALLS = 2
  MAXFRAMES = 5
  EXTRAFRAMES = 1
  MaxActs = 14
  Programs <- MCPrograms
INVARIANTS CountersExact ContinuationReady HandlerAlive OverflowHandled
PROPERTY ImplementsThreads
