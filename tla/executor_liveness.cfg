SPECIFICATION FairSpec
CONSTANTS
  a = a
  b = b
  c = c
  exclusive = exclusive
  reentrant = reentrant
  Waitables = {b, c}
  GuardConditions = {b}
  Fallible = {c}
  Destroyable = {c}
  Groups = {exclusive, reentrant}
  MutuallyExclusive = {exclusive}
  GroupOf <- MCGroupOf
  Workers = {w1, w2}
  Self = Self
  NoJob = NoJob
  QueueDepth = 1
PROPERTIES
  ShutdownEndsSpin
  QueuedIsHandled
CHECK_DEADLOCK FALSE
