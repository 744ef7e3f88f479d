CONSTANTS
  m1 = m1
  m2 = m2
  s1 = s1
  s2 = s2
  Md5s = {m1, m2}
  FileSize <- MCFileSize
  BigHeaders = {}
  MaxSize = 2
  PurgeSize = 1
  Streams = {s1, s2}
  MaxFetches = 2
  MaxStops = 2
  MaxWire = 1
SPECIFICATION CacheSpec
SYMMETRY MCStreamsAlike
INVARIANTS CachedIsOnDisk SchedulerKnows
PROPERTY AddsEndWithinLimit
CHECK_DEADLOCK FALSE
