\* A snapshot of a switched workspace, whose clone fails once.
SPECIFICATION SerialSpec
CONSTANTS
  e1 = e1
  e2 = e2
  Call <- OneCall
  Task = {1, 2, 3, 4}
  Job <- SwitchAndCreate
  MaxAttempts = 2
INVARIANT DoneIsComplete
CHECK_DEADLOCK FALSE
