CONSTANTS
  Indexes <- MCIndexes
  Failures = {"write", "open"}
  MaxBeats = 1
SPECIFICATION LiveSpec
INVARIANTS OrderHolds RemoteIsWhole KeyIsOfSource
PROPERTY RunEnds
CHECK_DEADLOCK FALSE
