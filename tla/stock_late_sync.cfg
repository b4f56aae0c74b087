\* AutoStock: violated: a sync that listed before the result became unknown
SPECIFICATION Spec
CONSTANTS
  Addresses = {a1, a2}
  Target = 2
  BatchSize = 2
  Interval = 2
  Retry = 1
  Overlap = TRUE
  ByHand = {}
  MaxCrashes = 0
SYMMETRY Symmetry
PROPERTIES
  NothingGeneratedWhileUnknown
