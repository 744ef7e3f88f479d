CONSTANTS
  Checks <- MCChecks
  MaxCrashes = 2
  MaxFailures = 1
  MaxPublishes = 1
SPECIFICATION FairSpec
INVARIANTS OneScheduler RunsFromWhole
PROPERTIES ComesBack ChecksEnd
CHECK_DEADLOCK FALSE
