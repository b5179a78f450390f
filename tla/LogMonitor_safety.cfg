SPECIFICATION Spec
CONSTANTS
  a = a
  b = b
  k1 = k1
  k2 = k2
  f1 = f1
  f2 = f2
  Services = {a, b}
  Keys = {k1, k2}
  Files = {f1, f2}
  ShortKeys = {k2}
  Missing = {f2}
  Confs <- AllConfs
  Nodes = {n1, n2, n3}
  MaxReloads = 2
  MaxFaults = 1
SYMMETRY Symmetry
INVARIANTS TypeOK NoOrphan SyncedWhenIdle
PROPERTY SupervisedSpec
CHECK_DEADLOCK FALSE
