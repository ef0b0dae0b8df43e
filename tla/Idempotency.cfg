\* Four clients, two invocations at a time, one fault.
SPECIFICATION IdFairSpec
CONSTANTS
  Client = {1, 2, 3, 4}
  Wanted <- Requests
  Handler = {1, 2}
  TaskId = {"t1", "t2", "t3"}
  Snapshot = {"s1", "s2"}
  NoSnapshot = "none"
  Losses = 1
INVARIANTS OneTaskPerKey RepliesAreTrue MismatchIsTrue
PROPERTY EveryoneIsAnswered
CHECK_DEADLOCK FALSE
