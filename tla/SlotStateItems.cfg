SPECIFICATION FairSpec
CONSTANTS
  a = a
  b = b
  sent = sent
  silent = silent
  Slots = {a, b}
  MySlot = a
  Locations = {sent, silent}
  FinderOf <- MCFinderOf
  ReceiverOf <- MCReceiverOf
  Silent = {silent}
  MaxLinks = 2
  MaxRestarts = 1
INVARIANTS
  NoItemTwice
