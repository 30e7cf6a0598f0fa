SPECIFICATION SpecContainers
CONSTANTS
  m1 = m1
  m2 = m2
  x = x
  y = y
  host = host
  pinned = pinned
  Maps = {m1, m2}
  Keys <- FewKeys
  Values = {x, y}
  Hash <- IntHash
  Iters = {i}
  MemTypes = {host, pinned}
  Default = host
  None = None
  MaxBuckets = 4
  MaxSize = 6
VIEW View
CHECK_DEADLOCK FALSE
INVARIANTS MapsListElements HeldReachesKey SteadyLayout AlgorithmsAgree
PROPERTY SteadyActsAsKeyed
