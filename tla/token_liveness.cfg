SPECIFICATION FairSpec
CONSTANTS
  Threads = {w1, w2}
  Main = main
  Nobody = nobody
  MaxToken = 2
  MaxSecret = 2
  MaxSessions = 1
  Legacy = 1
  Config = 1
  DirSyncFails = TRUE
PROPERTY RequestsAnswered
CHECK_DEADLOCK FALSE
