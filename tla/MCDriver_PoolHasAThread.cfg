CONSTANTS
  FileCount = 1
  ThreadCount = 1
  Signals = {2}
  NDEBUG = FALSE
SPECIFICATION Spec
INVARIANT PoolHasAThread
