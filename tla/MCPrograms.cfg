\* Each program of a night, on its own.
\* A closed window, a done job and a campaign's last attempt stop.
CHECK_DEADLOCK FALSE
SPECIFICATION ProgramsSpec
CONSTANTS
  \* the window, in minutes; the job, in tens of seconds
  Queues <- LongLastOrFirst
  EndAt = 38
  LOCK_WAIT = 10
  CHILD_WAIT = 2
  STOP_GRACE = 5
  TERM_GRACE = 1
  NIGHT_RECOVERY = 5
  RESTORE_BUDGET = 2
  Clocks <- AllClocks
  Jump = 7
  Cancels = TRUE
  Night = 50
  Paces <- HalfPaces
  Signals = TRUE
  \* the executor: two attempts, pieces of two lines, one cycle gate
  Owners <- ReleaseOwners
  Arms <- ArmModes
  Lines = 2
  Gates = 1
  MaxExecutions = 2
INVARIANT WindowClosesInTime
INVARIANT JobReportsWhatHappened
INVARIANT AttemptInOrder
PROPERTY NoJobPastTheStop
PROPERTY HaltStands
