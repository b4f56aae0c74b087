\* AutoStock: the pace of the background job, and that it reaches its target
SPECIFICATION FairSpec
CONSTANTS
  Addresses = {a1, a2, a3}
  Target = 2
  BatchSize = 2
  Interval = 2
  Retry = 1
  Overlap = TRUE
  ByHand = {}
  MaxCrashes = 1
PROPERTIES
  OneBatchAnHour
  NeverStuckSilently
