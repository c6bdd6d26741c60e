SPECIFICATION FairSpec
CONSTANTS
  MaxAttempts = 1
  MaxSessions = 2
  MaxId = 1
  MaxToSlave = 1
  MaxToMaster = 2
INVARIANTS SessionsAgree
PROPERTIES AckIsOwn HalfOpenEnds
CHECK_DEADLOCK FALSE
