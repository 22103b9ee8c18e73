SPECIFICATION Spec
CONSTANTS
  bridgeSlot = bridgeSlot
  slot = slot
  other = other
  alice = alice
  bob = bob
  carol = carol
  tracker = tracker
  Slots = {bridgeSlot, slot}
  MySlot = bridgeSlot
  Clients = {alice, bob, tracker}
  SlotOf <- MCSlotOf
  BaseTags <- MCBaseTags
  Tag <- MCTag
  DeathLinkers = {alice, bob}
  PartTexts = {"tags"}
  GameStatuses = {20, 30}
  MaxInbox = 3
  MaxAttach = 2
INVARIANTS
  TypeOK
  CountMatchesTags
  DeathLinkLive
  PublishedIsCurrent
  NobodyWhileDown
  DeathLinkExact
  NeverOvercounts
