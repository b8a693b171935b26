SPECIFICATION Spec
CONSTANTS
  NRanks = 4
  Length = 6
  Calls = 2
INVARIANTS
  EveryContributionOnce
  ExpectedSegment
PROPERTIES
  IsCollective
  AllReturn
