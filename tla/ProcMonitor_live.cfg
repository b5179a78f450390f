SPECIFICATION LiveSpec
CONSTANTS
  Files = {f}
  NoFile = NoFile
  NewPaths = {f}
  Runs = {r1}
  Checks = {c1, c2}
  FirstMonth = 4
  LastMonth = 5
  Strays = {}
  MaxLines = 2
  MaxReloads = 1
  MaxFaults = 2
  MaxEvents = 1
  MaxMails = 0
  MaxWatchers = 4
  SerialChecks = FALSE
PROPERTIES ReloadReturns MonitorRecovers CatchesUp
CHECK_DEADLOCK FALSE
