\* Each core, on its own; a night that ended stays so.
SPECIFICATION CoresSpec
CONSTANTS
  \* the first game: one hour, four units of power
  Active = {"bonnie", "foxy"}
  Controls = {"leftDoor", "leftLight", "rightLight", "monitor"}
  Views = {3, 99}
  POWER = 4
  HOURS = 1
  CLICK = 1
  ANIM = 2
  FLIP = 1
  STAGE3 = 1
  STAGE4 = 1
  BLACK = 1
  FORCE = 1
  BANG = 1
  \* the fourth
  AwakeFirst = {"bonnie", "chica"}
  AwakeLater = {"bonnie", "chica"}
  LATE = 1
  Stations = {"leftDoor", "bed"}
  Forced = {0}
  LAST_HOUR = 1
  WALK = 1
  TURN = 2
  GOTYOU = 2
  KILL = 2
  ARM = 3
  METER = 4
  FUSES = {2, 3}
  FIXED = 3
  DWELL = 1
  LONG = 2
  IDLE = 1
  WATCH = 1
  STARE = 1
  BED = 3
  CHECK = 2
  HALL = 2
  STILL = 1
  \* the second: ticks, the animations shorter than an encounter's grace
  Units = {"withfreddy", "toyfreddy", "toybonnie", "mangle"}
  MON_UP = 2
  MON_DOWN = 3
  MASK_ON = 2
  MASK_OFF = 2
  GRACE = 3
  BLACKOUT = 4
  FADE = 3
  STREAK = 2
  ATTACK = 3
INVARIANT DoorRules
INVARIANT BedroomRules
PROPERTY MovesInTheirOrder
PROPERTY OfficeRules
