SPECIFICATION FairSpec
INVARIANTS
  FinalizedOnce
  ChildrenGoFirst
  ClockOutlivesTimers
  TreeIsSound
PROPERTY TeardownsEnd
CONSTANTS
  ctx = ctx
  node = node
  gc = gc
  pub = pub
  tm = tm
  clk = clk
  t1 = t1
  t2 = t2
  Handles = {ctx, node, gc, pub, tm, clk}
  ParentOf <- MCParentOf
  ClockOf <- MCClockOf
  Threads = {t1, t2}
  Null = Null
  Serialized = TRUE
CHECK_DEADLOCK FALSE
