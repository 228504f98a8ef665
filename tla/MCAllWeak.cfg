SPECIFICATION Spec
CONSTANTS
  reg = reg
  w = w
  x = x
  main = main
  num = num
  nil = nil
  Tables <- BothTables
  Udatas = {}
  Strings = {}
  Protos = {}
  CClosures = {}
  LClosures = {}
  Coroutines = {}
  MainThread = main
  Registry = reg
  UpVals = {}
  Num = num
  Nil = nil
  WeakMode <- BothModes
  HasGC = {}
  Writes <- BothWrites
  Metas <- BothMetas
  Vals = {}
  BaseMetas = {}
  Locals = {}
  Assigned = {}
  GCSWEEPMAX = 5
  Exposed = {}
  MaxStack <- MCMaxStack
  Joins = {}
  FullKinds = {}
  MaxFrames = 1
INVARIANT GrayRevisited
