CONSTANTS
  N = 2
  MaxRetries = 3
SPECIFICATION Spec
INVARIANTS
  ReadsOnlyOpenDumps
  NoUseAfterFree
PROPERTIES
  OpensDumps
  OpeningEnds
