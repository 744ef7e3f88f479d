CONSTANTS
  j1 = j1
  j2 = j2
  j3 = j3
  m1 = m1
  m2 = m2
  Jobs = {j1, j2, j3}
  Md5s = {m1, m2}
  Md5 <- MCMd5
  Slots = 1
  MaxVmDeaths = 1
SPECIFICATION Spec
INVARIANTS NoIdleSlot QueueMatchesJobs ReportsBalance
  OrphansAreCancelled NothingStuck
PROPERTY OvercommitOnlyByHangup
SYMMETRY Alike
CHECK_DEADLOCK FALSE
