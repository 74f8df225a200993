SPECIFICATION FairPoolSpec
CONSTANTS
  Conns = {c1, c2, c3, c4, c5}
  NoConn = NoConn
  Slots = 3
  Backlog = 2
INVARIANT SlotsAccounted
PROPERTY PoolRecovers
