SPECIFICATION Spec
CONSTANTS
  reg = reg
  m = m
  u = u
  main = main
  num = num
  nil = nil
  Tables <- MCTables
  Udatas = {u}
  Strings = {}
  Protos = {}
  CClosures = {}
  LClosures = {}
  Coroutines = {}
  MainThread = main
  Registry = reg
  UpVals = {}
  Num = num
  Nil = nil
  WeakMode <- MCWeakMode
  HasGC = {m}
  Writes <- MCWrites
  Metas <- MCMetas
  Vals <- MCVals
  BaseMetas = {}
  Locals = {}
  Assigned = {}
  GCSWEEPMAX = 1
  Exposed = {u}
  MaxStack <- MCMaxStack
  Joins = {}
  FullKinds = {TRUE, FALSE}
  MaxFrames = 4
VIEW View
INVARIANTS TypeOK NoDanglingRef HeapSound PropagateHasGray PendingFinalizersCounted
PROPERTIES OnlyGarbageFinalized EmergencyFreesGarbage
