SPECIFICATION FairSpec
CONSTANTS
  a = a
  b = b
  sent = sent
  silent = silent
  Slots = {a, b}
  MySlot = a
  Locations = {sent, silent}
  FinderOf <- MCFinderOf
  ReceiverOf <- MCReceiverOf
  Silent = {silent}
  MaxLinks = 2
  MaxRestarts = 1
INVARIANTS
  TypeOK
  OnlyWhatHappened
  NeverBehindSave
  KeptGoalsHold
  LagIsSwept
PROPERTIES
  NeverGoesBack
  ChecksCatchUp
  CountsReachPages
\* Every check made and every goal reached: the session is over.
CHECK_DEADLOCK FALSE
