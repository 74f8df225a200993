SPECIFICATION Spec
CONSTANTS
  Servers <- Chosen
  MaxRuns = 2
  TimerFalls = FALSE
INVARIANTS TypeOK AccessKept NothingOpened HardenedOrRestored RemediatedOrRestored
