SPECIFICATION Spec
CONSTANTS
  NRanks = 2
  Energies <- MCEnergies
  ConfigMin = 0
  ConfigMax = 4
  BinWidth = 2
  ModFactorStart = 4
  ModFactorFinal = 1
  IterationFactor = 2
  FirstCut = 2
  CutStep = 2
  MaxNumf = 3
  MaxJobs = 2
  NoFile = NoFile
INVARIANTS
  SameWindow
  NotAboveWindow
  FactorOfLevel
  DensityOfEachBin
  CutNeverRaised
CHECK_DEADLOCK FALSE
