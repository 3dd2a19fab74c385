\* Each player of a night, and the app they read, on its own.
\* A night that is over, an aborted shell and an app at its bounds stop.
CHECK_DEADLOCK FALSE
SPECIFICATION RunnersSpec
CONSTANTS
  \* FNaF 4's loop, in units of two seconds: a quick door, a listened one and
  \* a held one; a closet shut at once and one held
  FRESH = 6
  BED_EVERY = 17
  CLOSET_EVERY = 10
  DoorTimes = {3, 4, 8}
  ClosetTimes = {3, 6}
  \* FNaF 3's systems: four exits outlast three of reboot
  EXITS = 4
  REBOOT = 3
  RAISES = 2
  SLIPS = 3
  FAULTS = 2
  \* its track: the second lure breaks audio, as on AI 5 to 7
  MOVES = 3
  MISSES = 2
  LURES = 2
  \* the Companion app
  Uses <- AppUses
  Names <- RegionNames
  TRACE_MAX_FRAMES = 2
  MaxSessions = 2
  MaxTraces = 1
INVARIANT TraceKept
PROPERTY BedroomSwept
PROPERTY BeliefFollowsTheGame
PROPERTY PressesAsMeant
PROPERTY SessionsKeptApart
