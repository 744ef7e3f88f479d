CONSTANTS
  Ids = {c1, c2, c3, c4, c5}
  Count = 2
SPECIFICATION SlotsSpec
INVARIANT SlotsInv
PROPERTY LineSpec
