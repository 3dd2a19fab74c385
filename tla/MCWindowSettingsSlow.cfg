\* A zen_mode that changes after set_dnd has returned.
SPECIFICATION Spec
CONSTANTS
  stay = stay
  bright = bright
  zen = zen
  Windows = {w1}
  Restorers = {x}
  Recorded <- MCRecorded
  Quiet <- MCQuiet
  Dnd = zen
  Values = {0, 1}
  Ours <- MCOurs
  DndOff = 0
  DndSlow = TRUE
  MaxFaults = 0
  NoRecord = NoRecord
  Free = Free
  NoFlight = NoFlight
INVARIANT NothingLost
