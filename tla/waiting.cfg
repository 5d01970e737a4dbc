SPECIFICATION FairSpec
INVARIANTS
  TypeOK
  ReportedTriggersAreHandled
PROPERTIES
  TimersFireWhenDue
  BoundedSpinsReturn
CONSTANTS
  t = t
  g = g
  c = c
  Timers = {t}
  Guards = {g}
  Clients = {c}
  Registry <- MCRegistry
  GroupOf <- MCGroupOf
  Period <- MCPeriod
  Steered = {t}
  Timeouts <- MCTimeouts
  NestedTimeouts <- MCNestedTimeouts
  MaxDepth = 2
  Unbounded = Unbounded
  Null = Null
CHECK_DEADLOCK FALSE
