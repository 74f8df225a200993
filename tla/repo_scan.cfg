SPECIFICATION FairSpec
CONSTANTS
  Files = {f1, f2}
  Blobs = {b1, b2, b3}
  Size = 2
  PipeSize = 1
  History = TRUE
CHECK_DEADLOCK FALSE
INVARIANTS TypeOK CleanMeansScanned AlarmForCause ChildReaped
PROPERTY ScanEnds
