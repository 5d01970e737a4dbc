SPECIFICATION Spec
INVARIANTS
  LastEventTellsTheState
PROPERTIES
  ImplementsMachine
  EventsChain
CONSTANTS
  w1 = w1
  w2 = w2
  Attempters = {w1, w2}
  Grouped = {w1, w2}
  NoEvent = NoEvent
