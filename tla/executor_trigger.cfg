SPECIFICATION FairSpec
CONSTANTS
  a = a
  b = b
  c = c
  exclusive = exclusive
  reentrant = reentrant
  Waitables = {a, b}
  GuardConditions = {b}
  Fallible = {}
  Destroyable = {}
  Groups = {exclusive, reentrant}
  MutuallyExclusive = {exclusive}
  GroupOf <- MCGroupOf
  Workers = {w1, w2}
  Self = Self
  NoJob = NoJob
  QueueDepth = 1
PROPERTY TriggersAreHandled
CHECK_DEADLOCK FALSE
