\* Liveness: what is claimed is released, what waits is served.
SPECIFICATION FairSpec
CONSTANTS
  n1 = n1
  s1 = s1
  NoKey = NoKey
  Jobs <- MCJobs
  Nights = {n1}
  KeyOf <- MCKeyOf
  Runners = {w, a}
  Windows = {w}
  MaxFaults = 2
  NoJob = NoJob
  Free = Free
PROPERTY NeverStuckRunning
PROPERTY Served
