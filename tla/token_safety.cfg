SPECIFICATION Spec
CONSTANTS
  Threads = {w1, w2}
  Main = main
  Nobody = nobody
  MaxToken = 3
  MaxSecret = 3
  MaxSessions = 2
  Legacy = 1
  Config = 1
  DirSyncFails = FALSE
SYMMETRY Workers
INVARIANTS RetiredStaysRetired ShownTokenNotNewer
PROPERTY KeepsPromise
CHECK_DEADLOCK FALSE
