SPECIFICATION Spec
CONSTANTS
  reg = reg
  f = f
  g = g
  p = p
  c = c
  cell1 = cell1
  cell2 = cell2
  co = co
  main = main
  num = num
  nil = nil
  Tables = {reg}
  Udatas = {}
  Strings = {}
  Protos = {p}
  CClosures = {c}
  LClosures = {f, g}
  Coroutines = {}
  MainThread = main
  Registry = reg
  UpVals = {cell1, cell2}
  Num = num
  Nil = nil
  WeakMode <- MCModes
  HasGC = {}
  Writes = {}
  Metas = {}
  Vals <- MCVals
  BaseMetas = {}
  Locals = {f, g}
  Assigned = {f, g}
  GCSWEEPMAX = 5
  Exposed = {}
  MaxStack <- MCMaxStack
  Joins <- MCJoins
  FullKinds = {}
  MaxFrames = 1
VIEW View
SYMMETRY Symmetric
INVARIANTS NoDanglingRef RefcountExact
