CONSTANTS
  s1 = s1
  s2 = s2
  EntryTimes = {6, 7, 8}
  MaxItems = 3
  MaxTotal = 3
  Files <- MCFiles
  Dumps <- MCDumps
  time_intervals <- MCIntervals
  FOREVER = 0
  rib_period = 3
  max_readers = 3
SPECIFICATION MCSpec
INVARIANTS
  ReadersAreSorted
  EntriesAreDelivered
  PositionsAreRight
  RibPeriodIsKept
CHECK_DEADLOCK FALSE
