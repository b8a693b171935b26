SPECIFICATION Spec
CONSTANTS
  NSites = 5
  NE = 3
  Nneighbors = 4
  inputPos <- MCinputPos
  Shell <- MCShell
  J <- MCJ
  NT <- MCNT
  WLD1min = 8
  BinWidth = 4
  D1BINS = 2
  LowSlots = 2
INVARIANT SampleBelongsToBin
