SPECIFICATION Spec
CONSTANTS
  c1 = c1
  c2 = c2
  Cmds = {c1,c2}
  Slots = {1,2,3,4,5,6}
  IdReserve = 5
  NoTimer = 0
  EraseReachesBatch = TRUE
  IdMod = 2
  MaxRetry = 1
  CmdTimeout = 1
  KaInterval = 1
  KaTimeout = 1
INVARIANTS PendingHasTimer KeepaliveScheduled AckUnambiguous
SYMMETRY Symmetry
