SPECIFICATION FairSpec
CONSTANTS
  w1 = w1
  Writers = {w1}
  MaxPackets = 3
  QueueMax = 1
  MaxStarts = 1
  MaxReads = 2
INVARIANTS OneWrite Serves
PROPERTIES InOrder StopReturns
CHECK_DEADLOCK FALSE
