SPECIFICATION FairSpec
CONSTANTS
  a = a
  b = b
  c = c
  exclusive = exclusive
  reentrant = reentrant
  Waitables = {a, b}
  GuardConditions = {}
  Fallible = {}
  Destroyable = {b}
  Groups = {exclusive, reentrant}
  MutuallyExclusive = {exclusive}
  GroupOf <- MCGroupOf
  Workers = {w1, w2}
  Self = Self
  NoJob = NoJob
  QueueDepth = 1
INVARIANT DestroyedIsDropped
CHECK_DEADLOCK FALSE
