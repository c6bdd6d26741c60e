SPECIFICATION FairSpec
CONSTANTS
  c1 = c1
  Cmds = {c1}
  Slots = {1,2,3,4,5,6,7}
  IdReserve = 3
  NoTimer = 0
  EraseReachesBatch = FALSE
  IdMod = 2
  MaxRetry = 1
  CmdTimeout = 1
  KaInterval = 3
  KaTimeout = 1
INVARIANTS TypeOK CallbackOnce CmdTimerOwned KaTimersTracked
PROPERTIES PendingResolved KeepsPromise
