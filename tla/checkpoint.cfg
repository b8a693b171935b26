SPECIFICATION Spec
CONSTANTS
  NRanks = 3
  Config = {c1, c2}
  SAMPS = 5
  CHPT_STEPS = 2
  MaxRuns = 3
INVARIANTS
  SamplesCountedOnce
  CheckpointsAgree
  StatComplete
PROPERTY AllLeave
CHECK_DEADLOCK FALSE
