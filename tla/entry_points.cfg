SPECIFICATION Spec
INVARIANTS
  ResourcesComeBack
  ErrorsAreOnesOwn
  MessagesAreNotMixed
  OverridesAreSeen
CONSTANTS
  main = main
  worker = worker
  Threads = {main, worker}
  Does <- MCDoes
  None = None
