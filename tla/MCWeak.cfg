SPECIFICATION Spec
CONSTANTS
  reg = reg
  w = w
  x = x
  y = y
  v = v
  z = z
  s = s
  main = main
  num = num
  nil = nil
  Tables <- MCTables
  Udatas = {}
  Strings = {s}
  Protos = {}
  CClosures = {}
  LClosures = {}
  Coroutines = {}
  MainThread = main
  Registry = reg
  UpVals = {}
  Num = num
  Nil = nil
  WeakMode <- MCModes
  HasGC = {z}
  Writes <- MCWrites
  Metas <- MCMetas
  Vals = {}
  BaseMetas = {x}
  Locals = {}
  Assigned = {}
  GCSWEEPMAX = 3
  Exposed = {}
  MaxStack <- MCMaxStack
  Joins = {}
  FullKinds = {TRUE}
  MaxFrames = 1
CONSTRAINT OneKind
VIEW View
PROPERTIES WeakEntriesKept EmergencyFreesGarbage WeakValuesCleared
