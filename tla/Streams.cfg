SPECIFICATION SpecStreams
CONSTANTS
  r1 = r1
  r2 = r2
  r3 = r3
  Wrappers = {w1, w2}
  Raws = {r1, r2, r3}
  Given = {r1}
  Events = {e}
  EventFlags = {"DisableTiming"}
  MaxWork = 2
  MaxRecords = 2
  MaxQueue = 2
  Managed = TRUE
  None = None
CHECK_DEADLOCK FALSE
INVARIANTS TypeOK OwnersHaveStreams OrderKept
PROPERTY WorkAndStreamsEnd
