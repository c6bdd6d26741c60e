SPECIFICATION FairSpec
CONSTANTS
  u1 = u1
  Users = {u1}
  MaxAttempts = 1
  AttemptCap = 2
  ThrowCounts = TRUE
PROPERTIES StopReturns ConnectReturns DisconnectHonoured
