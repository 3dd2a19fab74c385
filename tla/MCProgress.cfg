\* Each part on its own; a night or a loop that is over stops.
CHECK_DEADLOCK FALSE
SPECIFICATION ProgressSpec
CONSTANTS
  MOVES = 2
  MISSES = 2
  LURES = 2
PROPERTY WrongsAnswered
PROPERTY NothingStaysOpen
PROPERTY InescapableComes
