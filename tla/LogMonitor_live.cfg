SPECIFICATION FairSpec
CONSTANTS
  a = a
  b = b
  k1 = k1
  k2 = k2
  f1 = f1
  f2 = f2
  Services = {a, b}
  Keys = {k1, k2}
  Files = {f1, f2}
  ShortKeys = {}
  Missing = {}
  Confs <- FewConfs
  Nodes = {n1, n2, n3}
  MaxReloads = 2
  MaxFaults = 0
INVARIANTS NoPanic
PROPERTIES ReloadTakesEffect
CHECK_DEADLOCK FALSE
