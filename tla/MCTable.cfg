SPECIFICATION Spec
CONSTANTS
  index = index
  object = object
  float = float
  v = v
  w = w
  Nil = Nil
  NoKey = NoKey
  KeySet <- MCKeys
  Hash <- MCHash
  Storable <- MCStorable
  Integral <- MCIntegral
  Floats = {float}
  ValueSet = {v, w, Nil}
  Pow2Hashed = {1, 2, index}
  Collectable = {object}
  Events = {index}
  WeakEntries = {object}
  RawKeys = {index, 1}
  PowersOf2 = {1, 2, 4, 8}
  MAXASIZE = 8
  LUA_MAXINTEGER = 3
  ArraySizes = {0}
  HashSizes = {3}
  MaxList = 2
INVARIANTS TypeOK FreePositions NodesSound LengthIsBorder TMCacheSound
  NextFindsKey
PROPERTY ImplementsMap
VIEW MCView
