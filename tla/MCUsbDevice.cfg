SPECIFICATION FairSpec
CONSTANTS
  w1 = w1
  Writers = {w1}
  MaxPackets = 4
  QueueMax = 2
  MaxStarts = 2
INVARIANTS InStep CleanStop
PROPERTIES InOrder StopReturns ErrorCloses
CHECK_DEADLOCK FALSE
