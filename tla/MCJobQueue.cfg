\* Safety and refinement: every order of two runners, kills, signals and holds.
SPECIFICATION Spec
CONSTANTS
  n1 = n1
  n2 = n2
  s1 = s1
  s2 = s2
  key = key
  NoKey = NoKey
  Jobs <- MCJobs
  Nights <- MCNights
  KeyOf <- MCKeyOf
  Runners = {w, a}
  Windows = {w}
  MaxFaults = 2
  NoJob = NoJob
  Free = Free
INVARIANT ClaimIsExclusive
INVARIANT NightPlayedOnce
INVARIANT WaitingNightUntouched
PROPERTY LedgerSpec
