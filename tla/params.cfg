SPECIFICATION Spec
INVARIANTS
  DescriptorsHold
  AllOrNothing
  ListingMatchesStore
  EventsAreCurrent
  ClockFollowsUnlessVetoed
PROPERTY ReadOnlyStays
CONSTANTS
  sim = sim
  gain = gain
  yes = yes
  no = no
  large = large
  unset = unset
  veto = veto
  app = app
  service = service
  Names = {sim, gain}
  Values = {yes, no, large, unset}
  UseSimTime = sim
  On = yes
  Off = no
  DefaultOf <- MCDefaultOf
  DescriptorsOf <- MCDescriptorsOf
  Undeclarable = {gain}
  Threads = {app, service}
  Owner = app
  Batches <- MCBatches
  Vetoes = {veto}
  Refuses <- MCRefuses
  FollowClock = FollowClock
  NoValue = NoValue
  Lost = Lost
