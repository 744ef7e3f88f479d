CONSTANTS
  c1 = c1
  c2 = c2
  Clients = {c1, c2}
  CppCount = 1
  CompileCount = 1
  UploadFinishers = {c2}
  MaxStops = 0
SPECIFICATION Spec
INVARIANT SlotKeptForUpload
