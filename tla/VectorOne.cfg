\* One vector, two iterators: positions, reallocation, loops.
CONSTANTS
  v1 = v1
  v2 = v2
  i1 = i1
  i2 = i2
  c1 = c1
  c2 = c2
  c3 = c3
  c4 = c4
  c5 = c5
  c6 = c6
  c7 = c7
  a1 = a1
  a2 = a2
  a3 = a3
  a4 = a4
  a5 = a5
  None = None
  Vectors = {v1}
  Iters = {i1, i2}
  Chains = {c1, c2, c3, c4, c5, c6, c7}
  Buffers = {a1, a2, a3, a4, a5}
  Elements <- SevenElements
  MemTypes = {host}
  Default = host
  host = host
  unified = unified
  MaxSize = 4
SPECIFICATION Spec
INVARIANTS WellFormed HeldIteratorsFollow
PROPERTIES ReturnsItsPlace LoopsReachGoal
VIEW View
