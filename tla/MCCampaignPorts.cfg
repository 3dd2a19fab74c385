\* The last four nights, two attempts of each and two runs, interrupted anywhere.
CHECK_DEADLOCK FALSE
SPECIFICATION PortsSpec
CONSTANTS
  Nights <- FourToSeven
  MaxAttempts = 2
  MaxRuns = 2
  Signals = TRUE
  VenueMoves = FALSE
INVARIANT PlaysTheTarget
INVARIANT ExecutionsOwned
INVARIANT NoNightLeftBehind
