\* Two host threads whose pointers to one block use different streams.
CONSTANTS
  t1 = t1
  t2 = t2
  h1 = h1
  h2 = h2
  h3 = h3
  b1 = b1
  b2 = b2
  s1 = s1
  s2 = s2
  Threads = {t1, t2}
  Device = {}
  Handles = {h1, h2, h3}
  Unique = {}
  OwnerOf <- MCOwnerOf
  Blocks = {b1, b2}
  Streams = {s1, s2}
  DefaultStream = s1
  Locks = {1}
  LockOf <- OneLock
  MaxOps = 3
  None = None
SPECIFICATION Spec
INVARIANT FinalCount
