SPECIFICATION Spec
CONSTANTS
  u1 = u1
  Users = {u1}
  MaxAttempts = 2
  AttemptCap = 3
  ThrowCounts = FALSE
INVARIANTS StateMeaning AttemptWatched
