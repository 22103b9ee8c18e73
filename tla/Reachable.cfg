SPECIFICATION Spec
CONSTANTS
  s1 = s1
  s2 = s2
  Slots = {s1, s2}
  Pages = {page}
  MaxProgress = 2
  MaxFailures = 1
INVARIANTS
  TypeOK
  OneComputationEach
  QueueInOrder
  MarksWhatWasComputed
PROPERTIES
  CacheNeverGoesBack
SYMMETRY SlotSymmetry
