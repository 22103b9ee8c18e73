SPECIFICATION Spec
CONSTANTS
  a = a
  b = b
  across = across
  own = own
  page = page
  Slots = {a, b}
  MySlot = b
  Hint = {across, own}
  ReceiverOf <- MCReceiverOf
  FinderOf <- MCFinderOf
  MadeAs <- MCMadeAs
  Quiet = {b}
  Pages = {page}
  Asked = {30, 40}
  MaxInbox = 3
  MaxSaves = 2
  MaxLinks = 1
  MaxRestarts = 0
INVARIANTS
  EditedHintExact
CHECK_DEADLOCK FALSE
