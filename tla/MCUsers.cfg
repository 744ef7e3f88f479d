CONSTANTS
  r1 = r1
  r2 = r2
  s1 = s1
  u1 = u1
  u2 = u2
  Requests = {r1, r2}
  Syncs = {s1}
  Names = {u1, u2}
  Nobody = Nobody
  Nothing = Nothing
  Absent = Absent
  Torn = Torn
  MaxChanges = 1
  Callers <- MCCallers
  Keys <- MCKeys
  Values <- MCValues
SPECIFICATION FairSpec
INVARIANTS OneAtATime FileIsWhole PendingIsInHand RepliesAreKept
PROPERTIES StoreSpec CallsAreAnswered
CHECK_DEADLOCK FALSE
