SPECIFICATION Spec
CONSTANTS
  NRanks = 2
  NBins = 2
  NMoves = 1
  Unit = 2
  ModFactorInit = 2
  ModFactorFinal = 1
  IterationFactor = 2
  FlatNum = 1
  FlatDen = 2
  ProductionBinSamps = 1
  ReportEvery = 2
  ECut = 1
  ECutStep = 0
  CounterMod = 65536
  GlobalUpdate = TRUE
  MaxSweeps = 4
INVARIANTS
  RanksInStep
  VisitsCountOnce
  SamplesAtMostVisits
PROPERTIES
  CollectivesReturn
  LevelVisitsEveryBin
