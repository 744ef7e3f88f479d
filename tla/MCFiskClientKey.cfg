CONSTANTS
  Indexes <- MCIndexes
  Failures = {}
  MaxBeats = 0
SPECIFICATION Spec
INVARIANT KeyTellsSources
CHECK_DEADLOCK FALSE
