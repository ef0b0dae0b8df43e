\* Two snapshots, one after the other, with a guest that always confirms.
SPECIFICATION SerialSpec
CONSTANTS
  e1 = e1
  e2 = e2
  Call <- OneCall
  Task = {1, 2, 3}
  Job <- TwoSnapshots
  MaxAttempts = 1
INVARIANT WorksFrozen
CHECK_DEADLOCK FALSE
