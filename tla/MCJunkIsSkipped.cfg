SPECIFICATION Spec
CONSTANTS
  Sizes = {2, 5}
  MaxPl = 12
  CountMod = 5
  Word = 16
  Byte = 16
  IdMod = 4
  FirstIds = {1}
  MaxBlocks = 2
  MaxAcks = 1
CHECK_DEADLOCK FALSE
INVARIANTS JunkIsSkipped
