\* AutoStock: failures, restarts, hand-made batches; no sync beside a generation
SPECIFICATION Spec
CONSTANTS
  Addresses = {a1, a2, a3, a4}
  Target = 3
  BatchSize = 2
  Interval = 2
  Retry = 1
  Overlap = FALSE
  ByHand = {"one", "batch"}
  MaxCrashes = 2
SYMMETRY Symmetry
PROPERTIES
  NothingGeneratedWhileUnknown
  NeverAsksBeyondTarget
