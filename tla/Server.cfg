SPECIFICATION FairSpec
CONSTANTS
  Modules <- MCModules
  Order <- MCOrder
  Confs <- MCConfs
  ChanCap = 1
  Checks = {c}
  SigCap = 1
INVARIANTS TypeOK
PROPERTIES NoDoubleStart SysSupervised ModulesComeBack SignalledEditRead SendersServed
CHECK_DEADLOCK FALSE
