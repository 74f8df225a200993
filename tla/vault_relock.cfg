SPECIFICATION Spec
CONSTANTS
  Careful = FALSE
  Tidies = TRUE
  Fragile = {}
  MaxRotations = 0
INVARIANT DurablyKept
