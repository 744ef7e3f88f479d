CONSTANTS
  e1 = e1
  e2 = e2
  Envs = {e1, e2}
  MaxChanges = 1
  MaxCuts = 1
  MaxFailures = 1
  MaxChains = 2
SPECIFICATION MCSpec
INVARIANTS EnvsAreWhole QuietMeansSynced
PROPERTY Converges
CHECK_DEADLOCK FALSE
