SPECIFICATION Spec
CONSTANTS
  NRanks = 2
  Config <- MCConfig
  Bonds <- MCBonds
  T <- MCT
  DropI = 1
  Samples = 5
INVARIANTS
  AwaitedMessageFirst
  ChannelsBounded
