SPECIFICATION Spec
CONSTANTS
  Files = {f}
  NoFile = NoFile
  NewPaths = {f, NoFile}
  Runs = {r1, r2}
  Checks = {c1, c2}
  FirstMonth = 4
  LastMonth = 5
  Strays = {"Ma"}
  MaxLines = 2
  MaxReloads = 2
  MaxFaults = 1
  MaxEvents = 1
  MaxMails = 2
  MaxWatchers = 2
  SerialChecks = TRUE
SYMMETRY Symmetry
INVARIANTS TypeOK SingleMonitor WatchIsCurrent OneConfigPerCheck MailedOnce
PROPERTIES SupervisedSpec LastAdvances
CHECK_DEADLOCK FALSE
