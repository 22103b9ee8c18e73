SPECIFICATION FairSpec
CONSTANTS
  s1 = s1
  s2 = s2
  Slots = {s1}
  Pages = {page}
  MaxProgress = 2
  MaxFailures = 0
PROPERTIES
  FigureCatchesUp
