SPECIFICATION FairSpec
CONSTANTS
  c1 = c1
  c2 = c2
  Callers = {c1, c2}
  Permits = 2
  Seeds = {old, new}
  MaxRequests = 3
  MaxDaemons = 3
  ComputeTimeout = 2
  ReadyTimeout = 5
  StartMinutes = 1
INVARIANTS
  TypeOK
  AnswersOwnRequest
  InStep
  OneDaemon
  RightSeed
PROPERTIES
  EveryComputationEnds
