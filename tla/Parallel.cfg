SPECIFICATION SpecParallel
CONSTANTS
  Workers = 4
  Sizes = {0, 2, 3, 4, 5}
  Threshold = 3
  None = None
  Reduction = TRUE
  Counts = {1, 2, 3, 4, 5, 7, 9}
  Serials = {2, 3}
  Kinds = {"add", "subtract"}
  Paths = {"device", "host"}
  Word = 64
  WarpSize = 2
  MaxThreads = 2
  MaxBlocks <- TwoLayers
  IntWord = 64
  Boxes <- SomeBoxes
  Builds = {"cuda", "host"}
  HasDevice = {TRUE, FALSE}
  LoopThreshold = 4
  Teams = 2
CHECK_DEADLOCK FALSE
INVARIANTS FailuresReported KernelsVisitOnce ReductionsAreSerial
PROPERTY CallsEnd
