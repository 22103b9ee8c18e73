SPECIFICATION FairSpec
CONSTANTS
  s1 = s1
  s2 = s2
  Slots = {s1, s2}
  Pages = {}
  MaxProgress = 2
  MaxFailures = 1
INVARIANTS
  ShownAsMarked
PROPERTIES
  FigureCatchesUp
  KeepsPromise
