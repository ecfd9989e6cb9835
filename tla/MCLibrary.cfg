CONSTANTS
  Parts <- MCParts
  Halves <- MCHalves
  MaxComms = 2
  Members <- MCMembers
  MaxBuckets = 3
  Sigs <- MCSigs
  PEER_IDS = 3
  MaxIds = 8
  Records <- MCRecords
  Passes <- MCPasses
  Waits = {0, 2, 3, 5}
  WAITS = 4
  MaxNow = 6
  MaxIntervals = 3
  Calls <- MCCalls
  Now = 100
  TIMES = 128
  MaxCalls = 3
  CmdWindows <- MCCmdWindows
  CMD_CNT = 2
  GapLimits = {0, 1}
  RecordTimes = {0, 1, 2, 4}
  MaxGot = 3
SPECIFICATION Spec
INVARIANTS
  MatchIsRight
  SetsAreRight
  IdsNamePeers
  ElemsAreTheRecords
  IntervalsArePaced
  SetupIsTheUsers
  OutputIsComplete
CHECK_DEADLOCK FALSE
