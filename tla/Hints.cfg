SPECIFICATION Spec
CONSTANTS
  a = a
  b = b
  across = across
  own = own
  page = page
  Slots = {a, b}
  MySlot = b
  Hint = {across, own}
  ReceiverOf <- MCReceiverOf
  FinderOf <- MCFinderOf
  MadeAs <- MCMadeAs
  Quiet = {b}
  Pages = {page}
  Asked = {10}
  MaxInbox = 3
  MaxSaves = 2
  MaxLinks = 2
  MaxRestarts = 1
INVARIANTS
  TypeOK
  AnnouncedOnce
  OnlyRealHints
  HintsExact
  PaidHintsCount
CHECK_DEADLOCK FALSE
