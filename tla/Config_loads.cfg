SPECIFICATION FairSpec
CONSTANTS
  a = a
  b = b
  h = h
  Recipients = {a, b}
  NoNumber = NoNumber
  Times <- TimesUsed
  Hosts = {h}
  Includes <- IncludedFiles
  Files <- AllFiles
  MaxLoads = 3
INVARIANTS TypeOK NobodyForgotten NobodyElse
PROPERTIES LoadsEnd
CHECK_DEADLOCK FALSE
