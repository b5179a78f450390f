SPECIFICATION FairSpec
CONSTANTS
  Files = {f}
  NoFile = NoFile
  NewPaths = {f}
  Runs = {r1}
  Checks = {c1}
  FirstMonth = 4
  LastMonth = 4
  Strays = {}
  MaxLines = 2
  MaxReloads = 1
  MaxFaults = 0
  MaxEvents = 1
  MaxMails = 0
  MaxWatchers = 2
  SerialChecks = TRUE
PROPERTIES ReloadAlwaysReturns
CHECK_DEADLOCK FALSE
