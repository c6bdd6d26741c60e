SPECIFICATION FairSpec
CONSTANTS
  m1 = m1
  m2 = m2
  Masters = {m1, m2}
  NoMaster = NoMaster
  ThrowCounts = TRUE
  SelfCounts = FALSE
INVARIANTS TimerFollowsSession IdentityIsLatest
PROPERTIES ConnectedByKeepalive DeadPeerNoticed HipHonoured
