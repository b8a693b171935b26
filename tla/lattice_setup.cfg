SPECIFICATION Spec
CONSTANTS
  N = 3
  Axis <- MCAxis
  SH = 2
  NE = 2
  Files <- MCFiles
  MaxNeighbors = 5
INVARIANTS
  TablesOfFile
  NeighboursMutual
PROPERTY CompleteFilesEnd
