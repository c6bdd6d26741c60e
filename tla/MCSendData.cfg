SPECIFICATION Spec
CONSTANTS
  Sizes = {2, 3, 5, 12, 13}
  MaxPl = 12
  CountMod = 5
  Word = 16
  Byte = 16
  IdMod = 4
  FirstIds = {1}
  MaxBlocks = 5
  MaxAcks = 1
CHECK_DEADLOCK FALSE
INVARIANTS TypeOK EveryBlockOnce PacketsFilled HostReads DamageRefused
