SPECIFICATION Spec
CONSTANTS
  NRanks = 2
  RanksPerNode = 2
  GpusPerNode = 1
  None = None
  Broken = Broken
  Misread = Misread
  Absent = Absent
  WrongType = WrongType
  own = own
  other = other
  Jobs <- MCJobs
  RandRuns <- MCRandRuns
  Questions = 4
INVARIANTS
  TypeOK
  OnlyKnownOverruns
  SoundJobsStart
  SameStart
  VoxelsRecoverAtoms
PROPERTIES
  AnswersOwnQuestions
  AllStartOrNone
CHECK_DEADLOCK FALSE
