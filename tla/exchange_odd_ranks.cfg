SPECIFICATION Spec
CONSTANTS
  NRanks = 3
  Config <- MCConfig
  Bonds <- MCBonds
  T <- MCT
  DropI = 1
  Samples = 1
INVARIANT EveryProposalHasAPartner
