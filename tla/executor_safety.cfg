SPECIFICATION Spec
CONSTANTS
  a = a
  b = b
  c = c
  exclusive = exclusive
  reentrant = reentrant
  Waitables = {a, b, c}
  GuardConditions = {b}
  Fallible = {a}
  Destroyable = {a}
  Groups = {exclusive, reentrant}
  MutuallyExclusive = {exclusive}
  GroupOf <- MCGroupOf
  Workers = {w1, w2}
  Self = Self
  NoJob = NoJob
  QueueDepth = 1
INVARIANTS
  TypeOK
  MutualExclusion
  NoLostWakeup
  BusyGroupsAreNotWaitedOn
  ReturnsAfterCallbacks
PROPERTIES
  KeepsLiveRegistrations
CHECK_DEADLOCK FALSE
SYMMETRY WorkerSymmetry
