SPECIFICATION SpecMemory
CONSTANTS
  Handles = {h1, h2}
  Spaces = {"host", "gpu"}
  MaxCapacity = 4
  MaxObjects = 3
  None = None
  Careful = TRUE
  Roots = {"r1", "r2"}
  Nodes = {"n1", "n2", "n3", "n4"}
  Null = Null
  KeepsSources = TRUE
  Arrays = {a1, a2}
  Views = {v1, v2}
  Leaves = {1, 2, 3, 4, 5, 6}
  Values = {0, 1}
  Width = 1
  Lengths = {1, 2}
  ArrayMemories = {"Host", "GPU"}
  LeafMemories = {"Host", "GPU"}
  ReferenceMemories = {"Host"}
  CopiesToNew = FALSE
  MaxOps = 5
SYMMETRY Interchangeable
VIEW Seen
CHECK_DEADLOCK FALSE
INVARIANTS StorageIsSound ReleasesAreComplete TransfersAreSound
PROPERTIES ActsLikeSequences TransfersActLikeValues
