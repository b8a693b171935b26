SPECIFICATION Spec
CONSTANTS
  NRanks = 2
  NBins = 2
  NMoves = 2
  Unit = 2
  ModFactorInit = 2
  ModFactorFinal = 1
  IterationFactor = 2
  FlatNum = 1
  FlatDen = 2
  ProductionBinSamps = 1
  ReportEvery = 2
  ECut = 1
  ECutStep = 0
  CounterMod = 4
  GlobalUpdate = FALSE
  MaxSweeps = 4
INVARIANT CountersHoldASweep
