CONSTANTS
  c1 = c1
  c2 = c2
  c3 = c3
  e1 = e1
  e2 = e2
  e3 = e3
  Clients = {c1, c2, c3}
  Envs = {e1, e2, e3}
  EnvOf <- MCEnvOf
  Size <- MCSize
  MaxSize = 3
  MaxRestarts = 1
SPECIFICATION Spec
INVARIANTS StoredIsWhole OneUploader
PROPERTY UploadSurvives
SYMMETRY Alike
CHECK_DEADLOCK FALSE
