SPECIFICATION TotpSpec
CONSTANTS
  Verifiers = {w1, w2}
  Codes <- ThreeCodes
  Step = 2
  Hold = 8
  Lag = 3
  LastTime = 14
SYMMETRY Same
INVARIANT NoReplay
PROPERTY RefusedForCause
