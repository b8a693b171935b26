SPECIFICATION Spec
CONSTANTS
  NRanks = 4
  Config <- MCConfig
  Bonds <- MCBonds
  T <- MCT
  DropI = 1
  Samples = 1
INVARIANTS
  TypeOK
  WalkerConsistent
  AttemptsCountMeetings
PROPERTIES
  ExchangesAreAtomic
  AllFinish
