SPECIFICATION Spec
CONSTANTS
  MAXINDEXRK = 3
  LFIELDS_PER_FLUSH = 2
  STACKSIZE = 60
  Jobs <- MCJobs
INVARIANTS OutputAgrees CompilerSound
PROPERTIES FunctionsCloseUpvalues Terminates
CHECK_DEADLOCK FALSE
