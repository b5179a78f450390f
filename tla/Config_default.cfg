SPECIFICATION Spec
CONSTANTS
  a = a
  b = b
  h = h
  Recipients = {a, b}
  NoNumber = NoNumber
  Times <- TimesUsed
  Hosts = {h}
  Includes <- IncludedFiles
  Files <- LongFiles
  MaxLoads = 2
INVARIANTS SweepTimeDefault
CHECK_DEADLOCK FALSE
