\* Safety, refinement and liveness: kills and failed calls anywhere, a restorer beside two windows.
SPECIFICATION PromptSpec
CONSTANTS
  stay = stay
  bright = bright
  zen = zen
  Windows = {w1, w2}
  Restorers = {x}
  Recorded <- MCRecorded
  Quiet <- MCQuiet
  Dnd = zen
  Values = {0, 1}
  Ours <- MCOurs
  DndOff = 0
  DndSlow = FALSE
  MaxFaults = 3
  NoRecord = NoRecord
  Free = Free
  NoFlight = NoFlight
INVARIANT NothingLost
PROPERTY CleanExitMeansRestored
PROPERTY EscrowSpec
PROPERTY SettingsComeBack
