\* Two nights, two attempts, run three times on one machine.
\* A finished campaign stops: there is no run left to make.
CHECK_DEADLOCK FALSE
SPECIFICATION FairSpec
CONSTANTS
  Nights <- MCNights
  MaxAttempts = 2
  MaxRuns = 3
INVARIANT ProvenOnEvidence
INVARIANT BudgetKept
INVARIANT TwoInvalidHold
PROPERTY VerdictsStand
PROPERTY ChainSpec
PROPERTY RunEnds
