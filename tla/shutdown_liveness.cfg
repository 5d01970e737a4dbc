SPECIFICATION FairSpec
PROPERTIES
  CtrlCReachesTheTable
  TeardownsEnd
CONSTANTS
  t1 = t1
  t2 = t2
  c1 = c1
  c2 = c2
  c3 = c3
  g1 = g1
  g2 = g2
  Threads = {t1, t2}
  Contexts = {c1, c2}
  Asking = {c1}
  Guards = {g1, g2}
  ParentOf <- MCParentOf
  NoOne = NoOne
  MaxContexts = 2
  MaxGuards = 1
  MaxSignals = 1
CHECK_DEADLOCK FALSE
