SPECIFICATION FairSpec
CONSTANTS
  bridgeSlot = bridgeSlot
  slot = slot
  other = other
  alice = alice
  bob = bob
  carol = carol
  tracker = tracker
  Slots = {bridgeSlot, slot, other}
  MySlot = bridgeSlot
  Clients = {alice, bob, carol, tracker}
  SlotOf <- PairsSlotOf
  BaseTags <- PairsBaseTags
  Tag <- MCTag
  DeathLinkers = {}
  PartTexts = {"tags", "neither"}
  GameStatuses = {20, 30}
  MaxInbox = 2
  MaxAttach = 2
INVARIANTS
  PresenceExact
  NoGhostSlot
PROPERTIES
  QuietSlotReleased
