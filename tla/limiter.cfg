SPECIFICATION Spec
CONSTANTS
  Workers = {w1, w2}
  Addresses = {a1, a2, a3}
  NoAddress = nobody
  MaxFailed = 2
  MaxRecords = 2
  Window = 1
  BanDuration = 2
  MaxTime = 3
  MaxCount = 3
SYMMETRY Same
INVARIANTS TableBounded GuessBudget
PROPERTY BanEndsOnlyFor
