\* Two threads that retire an object and others, under fair scheduling.
SPECIFICATION FairSpec
CONSTANTS
  x1 = x1
  N = 2
  Object = {x1}
  UpdateThreshold = 1
  NumSteps = 2
  MaxDepth = 1
  MaxEpoch = 4
  MaxClearEpoch = 1
INVARIANTS RetireWaits EpochInv
PROPERTIES EpochDiscipline EpochAdvances
