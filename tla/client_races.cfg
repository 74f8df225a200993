SPECIFICATION Spec
CONSTANTS
  Tools = {t1, t2, t3}
  Disturbed = FALSE
  MaxVersions = 3
SYMMETRY SameTools
INVARIANTS TypeOK NothingLost PanicErases
