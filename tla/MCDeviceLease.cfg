\* Kills anywhere in two chains of launches.
\* Every process runs once and the system stops when all are gone.
CHECK_DEADLOCK FALSE
SPECIFICATION Spec
CONSTANTS
  window = window
  queue = queue
  night = night
  setup = setup
  shell = shell
  agent = agent
  command = command
  Procs <- MCProcs
  Leasing <- MCLeasing
  Launcher <- MCLauncher
  Ancestors <- MCAncestors
  MaxKills = 3
  Host = Host
  Free = Free
  NoPid = NoPid
  Blank = Blank
INVARIANT BorrowedFromHolder
INVARIANT FamilyAdmitted
INVARIANT OneProgramUnlessKilled
