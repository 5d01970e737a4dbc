SPECIFICATION FairSpec
INVARIANTS
  AnswersItsCall
  CallbacksRunOnce
PROPERTIES
  AssignedOnce
  
CONSTANTS
  k1 = k1
  k2 = k2
  c1 = c1
  main = main
  other = other
  s1 = s1
  s2 = s2
  Calls = {k1, k2}
  Clients = {c1}
  ClientOf <- MCClientOf
  Threads = {main, other}
  CallerOf <- MCCallerOf
  Spinner = main
  Servers = {s1, s2}
  Reentrant = TRUE
  MaxCallbacks <- MCMaxCallbacks
  NoCall = NoCall
  Forever = Forever
  NoResponse = NoResponse
  NotYet = NotYet
  Failed = Failed
CHECK_DEADLOCK FALSE
