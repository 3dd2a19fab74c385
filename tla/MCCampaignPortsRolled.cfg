\* A night the game rolled into is lost and tried again.
CHECK_DEADLOCK FALSE
SPECIFICATION PortsSpec
CONSTANTS
  Nights <- FourAndFive
  MaxAttempts = 2
  MaxRuns = 2
  Signals = FALSE
  VenueMoves = FALSE
PROPERTY RetryGoesThroughTheTitle
