CONSTANTS
  s1 = s1
  s2 = s2
  Sources = {s1, s2}
  Times = {0, 1, 2}
  Spans = {0, 2}
  MaxQueue = 4
  max_readers = 3
SPECIFICATION Spec
INVARIANTS
  QueueIsSorted
  NoFileQueuedTwice
PROPERTIES
  CutIsSafe
CHECK_DEADLOCK FALSE
