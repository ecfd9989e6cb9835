CONSTANTS
  s1 = s1
  s2 = s2
  Files <- MCFiles
  Dumps <- MCDumps
  time_intervals <- MCIntervals
  FOREVER = 0
  rib_period = 0
  max_readers = 2
  MinWait = 30
  MaxWait = 150
SPECIFICATION Spec
INVARIANTS
  StreamIsOrdered
PROPERTIES
  UsesManagers
  KeepsItsPromise
  EndsWhenComplete
  CallReturns
CHECK_DEADLOCK FALSE
