SPECIFICATION Spec
CONSTANTS
  Plugins <- MCPlugins
  Lengths <- MCLengths
  Rotations = {0, 2}
  MetaRotations <- MCMetaRotations
  Number = 3
  Times = {1, 2, 4, 9}
  MaxRecords = 3
INVARIANTS
  RecordsInTheirInterval
  FilesAreKept
  NoFailureNoLoss
  RotatesOnTime
PROPERTIES
  IntervalsAbut
CHECK_DEADLOCK FALSE
