SPECIFICATION FairSpec
CONSTANTS
  k1 = k1
  k2 = k2
  t1 = t1
  Keywords <- MCKeywords
  Kinds <- MCKinds
  Empty = Empty
  Plain = Plain
  NoKey = NoKey
  FilterSweeps = 2
  Windows = 2
  MaxWindows = 3
  MaxLines = 2
  MaxFaults = 1
INVARIANTS TypeOK NewsOnce SuppressedBriefly
PROPERTIES ForgetsOnlyAfterQuiet CatchesUp StopEnds
CHECK_DEADLOCK FALSE
