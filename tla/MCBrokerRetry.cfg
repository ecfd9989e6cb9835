CONSTANTS
  Interfaces = {"broker"}
  FileTimes = {2, 6}
  FOREVER = 0
  Margin = 2
  Word = 16
  MaxNow = 3
  MaxRows = 2
  time_intervals <- MCIntervals
  TimeSpan = 1
  max_readers = 200
  Files <- MCFiles
  UrlRoom = 4
  CommonUrl = 1
  MaxTime = 2
  MaxTrouble = 2
  Frequency <- MCFrequency
  HeaderLen = 2
  Bytes = {1, 2}
  MaxPoll = 4
SPECIFICATION Spec
PROPERTIES
  BrokerQueryAlwaysReturns
