CONSTANTS
  b1 = b1
  b2 = b2
  b3 = b3
  k1 = k1
  k2 = k2
  c1 = c1
  c2 = c2
  e1 = e1
  e2 = e2
  Conns = {b1, b2, b3}
  Keys = {k1, k2}
  Key <- MCKey
  Slots <- MCSlots
  Loads = {0, 50}
  Clients = {c1, c2}
  Envs = {e1, e2}
  Env <- MCEnv
  Accepts <- MCAccepts
  Links <- MCLinks
  NoConn = NoConn
SPECIFICATION Spec
INVARIANTS CountsExact OnlyLiveBuilders PendingHasUploader
PROPERTIES LostOnlyByNamesake FreeSlotFirst
SYMMETRY Alike
CHECK_DEADLOCK FALSE
