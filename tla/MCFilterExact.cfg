CONSTANTS
  Parts = {"filter"}
  Versions = {4, 6}
  MAXBITS = 3
  COUNTBITS = 2
  MaxActive = 4
  Pfxs <- MCPfxs
  Other <- MCOther
  Users <- MCUsers
  MaxStored = 4
  Filters <- MCFilters
  Elems <- MCElems
  W = 2
  MaxFilters = 3
  Records <- MCRecords
  Ases = {1}
  Windows = {0, 1}
  Threshold = 1
  MaxIntervals = 3
  BdPaths <- MCBdPaths
  Peers = {1, 3}
  ID_MAX = 2
  MaxPaths = 3
  W4 = 3
  HALF = 2
  Nets <- MCNets
  Words <- MCWords
  MaxWords = 6
  Interest <- MCInterest
  PfxElems <- MCPfxElems
  Thresholds = {1, 2}
  PfxIntervals = 2
SPECIFICATION Spec
INVARIANT PassingElemsAreAsked
CHECK_DEADLOCK FALSE
